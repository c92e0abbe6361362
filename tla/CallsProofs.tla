---------------------------- MODULE CallsProofs -----------------------------
(***************************************************************************)
(* The steps of readers keep the invariant too, and it holds at the start: *)
(* so it always does, and with it what module CallsProperties says of      *)
(* calls, where no stream or handler fails and no two clients have the     *)
(* same thread id.  And, behind that, Calls implements RemoteCalls and     *)
(* Chains, and at each end of each connection it implements Connection.    *)
(***************************************************************************)
EXTENDS CallsRegistry

-----------------------------------------------------------------------------
(* The reader.                                                             *)

\* Only the reader of e does something, and what threads run stays.
ReaderOnly(e) ==
    /\ rpc' = rpc /\ ConnsBut(e) /\ SameCounts(e)
    /\ \A u \in Thread : /\ thread'[u].stack = thread[u].stack
                         /\ thread'[u].used_connection = thread[u].used_connection

\* What that leaves alone.
LEMMA ReaderOnlyFacts ==
    ASSUME IInv, NEW e \in Conn, ReaderOnly(e)
    PROVE  /\ ConnsCounted' /\ FramesWait
           /\ \A f \in Conn : f # e => EndRests(f)
           /\ \A u \in Thread : Frames(u)' = Frames(u)
           /\ \A u \in Thread, k \in CallId :
                /\ MakesIt(u, k)' <=> MakesIt(u, k)
                /\ ServesIt(u, k)' <=> ServesIt(u, k)
                /\ AddsIt(u, k)' <=> AddsIt(u, k)
           /\ \A u \in Thread, f \in Conn : f # e =>
                /\ GetsIt(u, f)' <=> GetsIt(u, f)
                /\ AddsWorker(u, f)' <=> AddsWorker(u, f)
           /\ \A k \in CallId : MessageOf(k) => CallWaits(k)
<1>1. \A u \in Thread : Frames(u)' = Frames(u)
  BY DEF ReaderOnly, Frames
<1>2. ConnsCounted'
  <2>1. \A k \in CallId : CallStays(k)
    BY DEF ReaderOnly, CallStays, IsOpen
  <2>2. \A f \in Conn : SameCounts(f)
    BY DEF ReaderOnly, ConnsBut, SameCounts
  <2> QED
    BY <2>1, <2>2, IInvParts, ConnsStay
<1>3. FramesWait
  BY <1>1 DEF FramesWait
<1>4. \A f \in Conn : f # e => EndRests(f)
  BY DEF ReaderOnly, ConnsBut, EndRests
<1>5. \A u \in Thread, k \in CallId :
        /\ MakesIt(u, k)' <=> MakesIt(u, k)
        /\ ServesIt(u, k)' <=> ServesIt(u, k)
        /\ AddsIt(u, k)' <=> AddsIt(u, k)
  BY <1>1 DEF ReaderOnly, MakesIt, ServesIt, AddsIt
<1>6. \A u \in Thread, f \in Conn : f # e =>
        /\ GetsIt(u, f)' <=> GetsIt(u, f)
        /\ AddsWorker(u, f)' <=> AddsWorker(u, f)
  BY <1>4 DEF EndRests, GetsIt, AddsWorker
<1>7. \A k \in CallId : MessageOf(k) => CallWaits(k)
  BY DEF ReaderOnly, MessageOf, CallWaits
<1> QED
  BY <1>1, <1>2, <1>3, <1>4, <1>5, <1>6, <1>7

\* Threads that the reader neither had chosen nor chooses.
LEMMA ReaderOthersRest ==
    ASSUME IInv, NEW e \in Conn, ReaderOnly(e),
           NEW u \in Thread, u # conn[e].thr, u # conn'[e].thr, SameId(u), SameBox(u)
    PROVE  Rests(u)
<1>1. \A k \in CallId : HasIt(u, k)' <=> HasIt(u, k)
  BY DEF ReaderOnly, HasIt, SameBox
<1>2. ~GetsIt(u, e) /\ ~GetsIt(u, e)' /\ ~AddsWorker(u, e) /\ ~AddsWorker(u, e)'
  BY DEF GetsIt, AddsWorker
<1>3. \A f \in Conn : (GetsIt(u, f)' <=> GetsIt(u, f)) /\ (AddsWorker(u, f)' <=> AddsWorker(u, f))
  BY <1>2, ReaderOnlyFacts
<1>4. \A k \in CallId : /\ MakesIt(u, k)' <=> MakesIt(u, k)
                        /\ ServesIt(u, k)' <=> ServesIt(u, k)
                        /\ AddsIt(u, k)' <=> AddsIt(u, k)
  BY ReaderOnlyFacts
<1>5. rpc' = rpc
  BY DEF ReaderOnly
<1> QED
  BY <1>1, <1>3, <1>4, <1>5 DEF Rests, SameId

\* A reader that has chosen nobody, and one that has chosen thread w.
LEMMA TargetNone ==
    ASSUME NEW e \in Conn, conn'[e].thr = None, conn'[e].reader \notin Aiming,
           conn'[e].reader = "worker" => NobodyWaits(Owner[e], conn[e].msg.tid)'
    PROVE  TargetRight(e)'
<1>1. conn'[e].reader \notin {"add", "count", "data", "post"}
  BY DEF Aiming
<1> QED
  BY <1>1 DEF TargetRight, Aims, Aiming

\* A thread found for a reader's message is one nobody else has chosen.
LEMMA TargetFor ==
    ASSUME NEW e \in Conn, NEW w \in Thread, conn'[e].thr = w,
           conn'[e].reader \in {"data", "post"},
           conn'[e].reader = "post" => thread'[w].wakeup_data = conn'[e].msg,
           conn'[e].reader = "post" /\ conn'[e].msg.cmd = "CmdCall" => thread'[w].wakeup_conn = e,
           w \in Created', Process(w) = Owner[e], thread'[w].wakeup = 0,
           \A f \in Conn : conn'[f].thr = w => f = e,
           thread'[w].original_tid = conn'[e].msg.tid,
           conn'[e].msg.cmd = "CmdReturn" => <<"client_call", conn'[e].msg.id>> \in Frames(w)'
    PROVE  TargetRight(e)'
<1>1. Process(conn'[e].thr) = Owner[e]
  OBVIOUS
<1> QED
  BY <1>1 DEF TargetRight, Aims, Aiming, Process

\* A reader that has chosen nobody goes on, and chooses nobody.
LEMMA NobodyChosenRegistry ==
    ASSUME IInv, TypeOK', Messages', NEW e \in Conn, ReaderOnly(e),
           UNCHANGED <<waiting_threads, free_workers, nworkers, thread>>,
           conn[e].thr = None, conn'[e].thr = None,
           conn[e].reader # "add", conn'[e].reader \notin Aiming,
           conn'[e].reader = "worker" => NobodyWaits(Owner[e], conn[e].msg.tid)'
    PROVE  Registry'
<1>1. \A u \in Thread : SameId(u) /\ SameBox(u)
  BY DEF SameId, SameBox
<1>2. \A u \in Thread : Rests(u)
  BY <1>1, Processes, ReaderOthersRest
<1>3. ListsStay /\ UncreatedRest
  BY DEF ListsStay, UncreatedRest
<1>4. TargetRight(e)'
  BY TargetNone
<1> DEFINE T == {}
           E == {e}
<1>5. (\A u : u \notin T) /\ (\A f : f \in E <=> f = e)
  OBVIOUS
<1> HIDE DEF E, T
<1>6. FramesWait /\ \A f \in Conn : f \notin E => EndRests(f) /\ TargetRests(f)
  BY <1>5, ReaderOnlyFacts DEF TargetRests
<1>7. \A f \in Conn : f \in E =>
            /\ TargetRight(f)' /\ conn[f].reader # "add"
            /\ \/ conn'[f].thr = conn[f].thr \/ conn'[f].thr = None
               \/ conn'[f].thr \in Waiting(Owner[f]) /\ \A g \in Conn : g # f => conn[g].thr # conn'[f].thr
  BY <1>4, <1>5
<1>8. \A u \in Thread : u \notin T => Rests(u)
  BY <1>2
<1>9. \A u \in Thread : u \in T => ThreadCounted(u)' /\ CalledRight(u)'
  BY <1>5
<1>10. \A f \in Conn : f \notin E /\ conn[f].reader \in {"add", "count"} => conn[f].thr \notin T
  BY <1>5
<1> QED
  BY <1>3, <1>6, <1>7, <1>8, <1>9, <1>10, RestRegistry

\* ReaderCheck keeps the invariant.
LEMMA ReaderCheckKeeps ==
    ASSUME IInv, NEW e \in Conn, ReaderCheck(e) PROVE IInv'
<1>1. /\ conn[e].reader = "check"
      /\ UNCHANGED <<waiting_threads, free_workers, nworkers, thread, wire, rpc, aborted>>
      /\ ReaderAt(e, "read", conn[e].msg, conn[e].thr)
      /\ TypeOK' /\ Calm'
  BY ReaderCheckDoes, IInvParts
<1>2. ReaderOnly(e)
  BY <1>1 DEF ReaderOnly, ReaderAt
<1>3. /\ ConnsCounted' /\ FramesWait
      /\ \A f \in Conn : f # e => EndRests(f)
      /\ \A k \in CallId : MessageOf(k) => CallWaits(k)
  BY <1>2, ReaderOnlyFacts
<1>4. conn[e].thr = None /\ conn'[e].thr = None /\ conn'[e].reader = "read" /\ conn'[e].msg = conn[e].msg
  <2>1. ~Aims(e)
    BY <1>1 DEF Aims, Aiming
  <2>2. conn[e].thr = None
    BY <2>1, IInvParts DEF Targets
  <2> QED
    BY <1>1, <2>2 DEF ReaderAt
<1>5. StacksRight'
  <2>1. CallsStay
    BY <1>1 DEF CallsStay, UsedStay
  <2> QED
    BY <2>1, IInvParts, CallsStayStacks
<1>7. Messages'
  <2>1. \A f \in Conn : ReaderStays(f)
    <3>1. ReaderStays(e)
      BY <1>1, <1>4 DEF ReaderStays, Holds, Holding
    <3>2. \A f \in Conn : f # e => ReaderStays(f)
      BY <1>3 DEF ReaderStays, Holds, EndRests
    <3> QED
      BY <3>1, <3>2
  <2>2. \A u \in Thread : BoxStays(u)
    BY <1>1 DEF BoxStays
  <2>3. MessagesStay
    BY <1>1, <1>3, <2>1, <2>2 DEF MessagesStay, WireStays
  <2> QED
    BY <2>3, IInvParts, MessagesStayMessages
<1>8. Registry'
  BY <1>1, <1>2, <1>4, <1>7, NobodyChosenRegistry DEF Aiming
<1> QED
  BY <1>1, <1>3, <1>5, <1>7, <1>8, Together

\* RecvMessage keeps the invariant.
LEMMA RecvMessageKeeps ==
    ASSUME IInv, NEW e \in Conn, RecvMessage(e) PROVE IInv'
<1>1. PICK m : m = wire[e].queue[1]
  OBVIOUS
<1>2. /\ conn[e].reader = "read"
      /\ UNCHANGED <<waiting_threads, free_workers, nworkers, thread, rpc, aborted>>
      /\ ReaderAt(e, IF m.cmd = "CmdCall" THEN "acquire" ELSE "find", m, conn[e].thr)
      /\ Len(wire[e].queue) \in Nat \ {0}
      /\ Len(wire'[e].queue) = Len(wire[e].queue) - 1
      /\ \A i \in 1..Len(wire[e].queue) - 1 : wire'[e].queue[i] = wire[e].queue[i + 1]
      /\ \A f \in Conn \ {e} : wire'[f].queue = wire[f].queue
      /\ TypeOK' /\ Calm'
  BY <1>1, RecvMessageDoes, IInvParts
<1>3. ReaderOnly(e)
  BY <1>2 DEF ReaderOnly, ReaderAt
<1>4. ConnsCounted'
  BY <1>3, ReaderOnlyFacts
<1>5. conn[e].thr = None /\ conn'[e].thr = None /\ conn'[e].reader \in {"acquire", "find"} /\ conn'[e].msg = m
  <2>1. ~Aims(e)
    BY <1>2 DEF Aims, Aiming
  <2>2. conn[e].thr = None
    BY <2>1, IInvParts DEF Targets
  <2> QED
    BY <1>2, <2>2 DEF ReaderAt
<1>6. StacksRight'
  <2>1. CallsStay
    BY <1>2 DEF CallsStay, UsedStay
  <2> QED
    BY <2>1, IInvParts, CallsStayStacks
<1>7. Messages'
  <2>1. ~Holds(e) /\ Holds(e)'
    BY <1>2, <1>5 DEF Holds, Holding
  <2>2. conn'[e].reader = IF conn'[e].msg.cmd = "CmdCall" THEN "acquire" ELSE "find"
    BY <1>2, <1>5 DEF ReaderAt
  <2>3. \A f \in Conn \ {e} : conn'[f] = conn[f]
    BY <1>2 DEF ReaderAt, ConnsBut
  <2>4. MessageRead(e)
    BY <1>1, <1>2, <1>5, <2>1, <2>2, <2>3 DEF MessageRead
  <2> QED
    BY <2>4, IInvParts, MessageReadMessages
<1>8. Registry'
  BY <1>2, <1>3, <1>5, <1>7, NobodyChosenRegistry DEF Aiming
<1> QED
  BY <1>2, <1>4, <1>6, <1>7, <1>8, Together

\* The thread that waits under the thread id of a reader's message: nobody else
\* has chosen it, and it has nothing in its box.
LEMMA ChosenFacts ==
    ASSUME IInv, TidsDiffer, NEW e \in Conn, conn[e].reader \in {"acquire", "find"},
           NEW w, w \in Waiting(Owner[e]), thread[w].original_tid = conn[e].msg.tid
    PROVE  /\ w \in Thread /\ w \in Created /\ Process(w) = Owner[e] /\ thread[w].wakeup = 0
           /\ \A f \in Conn : conn[f].thr # w
           /\ ~JustAdded(w) /\ \A k \in CallId : ~AddsIt(w, k)
<1>1. w \in Thread /\ w \in Created /\ Process(w) = Owner[e]
  BY OwnerFacts, IInvParts, ListFacts DEF ListsAre, WaitingRight
<1>2. Holds(e) /\ ~Aims(e)
  BY DEF Holds, Holding, Aims, Aiming
<1>3. thread[w].wakeup = 0
  BY <1>1, <1>2, OneHolds DEF Boxed
<1>4. ASSUME NEW f \in Conn, conn[f].thr = w PROVE FALSE
  <2>1. Aims(f)
    BY <1>1, <1>4, IInvParts, NoneAssumption DEF Targets
  <2>2. Holds(f) /\ f # e
    BY <1>2, <2>1 DEF Holds, Holding, Aims, Aiming
  <2>3. TargetRight(f)
    BY IInvParts, TargetsAre
  <2>4. CASE conn[f].reader = "add"
    <3>1. w \notin Waiting(Owner[f])
      BY <1>4, <2>3, <2>4 DEF TargetRight
    <3>2. Owner[f] = Process(w)
      BY <1>4, <2>1, <2>3 DEF TargetRight
    <3> QED
      BY <1>1, <3>1, <3>2
  <2>5. CASE conn[f].reader # "add"
    <3>1. conn[f].reader \in {"count", "data", "post"}
      BY <2>1, <2>5 DEF Aims, Aiming
    <3>2. thread[w].original_tid = conn[f].msg.tid
      BY <1>4, <2>3, <3>1 DEF TargetRight
    <3> QED
      BY <1>2, <2>2, <3>2, OneHolds
  <2> QED
    BY <2>4, <2>5
<1>5. ASSUME NEW k \in CallId, AddsIt(w, k) PROVE FALSE
  <2>1. /\ conn[e].msg.id \in CallId /\ Pending(conn[e].msg.id) /\ rpc[conn[e].msg.id].client = "wait"
        /\ conn[e].msg.tid = Tid[conn[e].msg.id[1]]
    BY <1>2, ReaderPending
  <2>2. <<"client_call", k>> \in Frames(w) /\ rpc[k].client \in {"add", "count"}
    BY <1>5 DEF AddsIt
  <2>3. Pending(k)
    BY <2>2 DEF Pending, IsOpen
  <2>4. PICK i \in 1..Len(thread[w].stack) : thread[w].stack[i] = <<"client_call", k>>
    BY <1>1, <2>2, IInvParts, IsFrame DEF FramesTyped
  <2>5. thread[w].original_tid = Tid[k[1]]
    BY <1>1, <2>4, IInvParts DEF FramesOwned, Live
  <2> QED
    BY <2>1, <2>2, <2>3, <2>5, OnePending
<1>6. ~JustAdded(w)
  BY <1>1, <1>4, <1>5, IInvParts, RegistrationFacts DEF RegistrationsAre, AddsWorker
<1> QED
  BY <1>1, <1>3, <1>4, <1>5, <1>6

\* A reader keeps its message while it looks for the thread.
LEMMA MessageKept ==
    ASSUME IInv, NEW e \in Conn, ReaderOnly(e), WireStays,
           Holds(e), Holds(e)', conn'[e].msg = conn[e].msg,
           conn'[e].reader \in {"acquire", "worker", "add", "count"} =>
              conn[e].reader \in {"acquire", "worker", "add", "count"},
           conn'[e].reader # "find",
           \A u \in Thread : BoxStays(u)
    PROVE  Messages'
<1>1. FramesWait /\ (\A f \in Conn : f # e => EndRests(f)) /\ \A k \in CallId : MessageOf(k) => CallWaits(k)
  BY ReaderOnlyFacts
<1>2. ReaderStays(e)
  BY DEF ReaderStays
<1>3. \A f \in Conn : f # e => ReaderStays(f)
  BY <1>1 DEF ReaderStays, Holds, EndRests
<1>4. MessagesStay
  BY <1>1, <1>2, <1>3 DEF MessagesStay
<1> QED
  BY <1>4, IInvParts, MessagesStayMessages

\* AcquireWaiting keeps the invariant.
LEMMA AcquireWaitingKeeps ==
    ASSUME IInv, TidsDiffer, NEW e \in Conn, AcquireWaiting(e) PROVE IInv'
<1>1. PICK p \in Proc : p = Owner[e]
  BY OwnerFacts
<1>2. PICK w : w = findWaitingThread(p, conn[e].msg.tid)
  OBVIOUS
<1>3. /\ conn[e].reader = "acquire"
      /\ UNCHANGED <<waiting_threads, free_workers, nworkers, wire, rpc, aborted>>
      /\ w = None => ReaderAt(e, "worker", conn[e].msg, conn[e].thr) /\ UNCHANGED thread
      /\ w # None => ReaderAt(e, "data", conn[e].msg, w) /\ thread' = CountUp(w)
      /\ TypeOK' /\ Calm'
  BY <1>1, <1>2, AcquireWaitingDoes, IInvParts
<1>4. conn[e].thr = None /\ Holds(e) /\ conn[e].msg.cmd = "CmdCall"
  <2>1. ~Aims(e) /\ Holds(e)
    BY <1>3 DEF Aims, Aiming, Holds, Holding
  <2> QED
    BY <1>3, <2>1, IInvParts DEF Targets, InReader
<1>5. WireStays
  BY <1>3 DEF WireStays
<1>6. CASE w = None
  <2>1. conn'[e].thr = None /\ conn'[e].reader = "worker" /\ conn'[e].msg = conn[e].msg
    BY <1>3, <1>4, <1>6 DEF ReaderAt
  <2>2. thread' = thread
    BY <1>3, <1>6
  <2>3. ReaderOnly(e)
    BY <1>3, <1>6 DEF ReaderOnly, ReaderAt
  <2>4. ConnsCounted'
    BY <2>3, ReaderOnlyFacts
  <2>5. StacksRight'
    <3>1. CallsStay
      BY <1>3, <2>2 DEF CallsStay, UsedStay
    <3> QED
      BY <3>1, IInvParts, CallsStayStacks
  <2>6. Messages'
    <3>1. \A u \in Thread : BoxStays(u)
      BY <2>2 DEF BoxStays
    <3>2. Holds(e)'
      BY <2>1 DEF Holds, Holding
    <3> QED
      BY <1>3, <1>4, <1>5, <2>1, <2>3, <3>1, <3>2, MessageKept
  <2>7. NobodyWaits(p, conn[e].msg.tid)
    <3>1. TypeOK
      BY IInvParts
    <3>2. PICK tid : tid = conn[e].msg.tid
      OBVIOUS
    <3>3. findWaitingThread(p, tid) = None
      BY <1>2, <1>6, <3>2
    <3>4. \A u \in Waiting(p) : thread[u].original_tid # tid
      BY <3>1, <3>3, FindFacts
    <3> QED
      BY <3>2, <3>4 DEF NobodyWaits
  <2>8. NobodyWaits(Owner[e], conn[e].msg.tid)'
    BY <1>1, <1>3, <2>1, <2>2, <2>7 DEF NobodyWaits, Waiting
  <2>9. Registry'
    BY <1>3, <1>4, <2>1, <2>2, <2>3, <2>6, <2>8, NobodyChosenRegistry DEF Aiming
  <2> QED
    BY <1>3, <2>4, <2>5, <2>6, <2>9, Together
<1>7. CASE w # None
  <2>1. w \in Thread /\ w \in Waiting(p) /\ thread[w].original_tid = conn[e].msg.tid
    BY <1>1, <1>2, <1>7, IInvParts, FindFacts
  <2>2. /\ w \in Created /\ Process(w) = p /\ thread[w].wakeup = 0
        /\ \A f \in Conn : conn[f].thr # w
        /\ ~JustAdded(w) /\ \A k \in CallId : ~AddsIt(w, k)
    BY <1>1, <1>3, <2>1, ChosenFacts
  <2>3. conn'[e].thr = w /\ conn'[e].reader = "data" /\ conn'[e].msg = conn[e].msg
    BY <1>3, <1>7 DEF ReaderAt
  <2>4. /\ ThreadsBut(w) /\ SameBox(w) /\ SameRun(w)
        /\ thread'[w].recursion_count = thread[w].recursion_count + 1
        /\ thread'[w].original_tid = thread[w].original_tid
    <3>1. thread \in [Thread -> ThreadRec]
      BY IInvParts DEF TypeOK
    <3> QED
      BY <1>3, <1>7, <2>1, <3>1, CountUpDoes
  <2>5. \A u \in Thread : /\ thread'[u].stack = thread[u].stack /\ SameBox(u)
                          /\ thread'[u].used_connection = thread[u].used_connection
                          /\ thread'[u].original_tid = thread[u].original_tid
                          /\ u # w => SameId(u)
    BY <2>4 DEF ThreadsBut, SameRun, SameBox, SameId
  <2>6. ReaderOnly(e)
    BY <1>3, <1>7, <2>5 DEF ReaderOnly, ReaderAt
  <2>7. ConnsCounted'
    BY <2>6, ReaderOnlyFacts
  <2>8. StacksRight'
    <3>1. CallsStay
      BY <1>3, <2>5 DEF CallsStay, UsedStay
    <3> QED
      BY <3>1, IInvParts, CallsStayStacks
  <2>9. Messages'
    <3>1. \A u \in Thread : BoxStays(u)
      BY <2>5 DEF BoxStays, SameBox
    <3>2. Holds(e)'
      BY <2>3 DEF Holds, Holding
    <3> QED
      BY <1>3, <1>4, <1>5, <2>3, <2>6, <3>1, <3>2, MessageKept
  <2>10. PICK x : x = <<"reader", e>>
    OBVIOUS
  <2>11. x \notin Registrations(w)
    <3>1. ~GetsIt(w, e)
      BY <2>2 DEF GetsIt
    <3> QED
      BY <2>1, <2>10, <3>1, IInvParts, RegistrationFacts DEF RegistrationsAre
  <2>12. Registrations(w)' = Registrations(w) \cup {x}
    <3>1. \A k \in CallId : /\ MakesIt(w, k)' <=> (MakesIt(w, k) \/ x = <<"client_call", k>>)
                            /\ ServesIt(w, k)' <=> (ServesIt(w, k) \/ x = <<"handleCall", k>>)
      BY <2>1, <2>6, <2>10, ReaderOnlyFacts
    <3>2. \A k \in CallId : HasIt(w, k)' <=> (HasIt(w, k) \/ x = <<"posted", k>>)
      BY <1>3, <2>1, <2>5, <2>10 DEF HasIt, SameBox
    <3>3. GetsIt(w, e)'
      BY <1>4, <2>3 DEF GetsIt
    <3>4. \A f \in Conn : GetsIt(w, f)' <=> (GetsIt(w, f) \/ x = <<"reader", f>>)
      BY <2>1, <2>6, <2>10, <3>3, ReaderOnlyFacts
    <3>5. IsRegistration(x)
      BY <2>10 DEF IsRegistration
    <3> QED
      BY <1>3, <2>1, <3>1, <3>2, <3>4, <3>5, IInvParts, RegistrationsGain
  <2>13. ThreadCounted(w)'
    <3>2. (w \in Waiting(Process(w)))'
      BY <1>3, <2>1, <2>2 DEF Waiting, Process
    <3>3. w \in Waiting(Process(w))
      BY <2>1, <2>2
    <3> QED
      BY <1>3, <2>1, <2>2, <2>4, <2>11, <2>12, <3>2, <3>3, OneMoreCounted
  <2>14. CalledRight(w)'
    <3>1. \A k \in CallId : ~AddsIt(w, k)'
      BY <2>1, <2>2, <2>6, ReaderOnlyFacts
    <3> QED
      BY <3>1 DEF CalledRight
  <2>15. TargetRight(e)'
    <3>1. w \in Created'
      BY <1>3, <2>2 DEF Created
    <3>2. \A f \in Conn : conn'[f].thr = w => f = e
      BY <2>2, <2>6 DEF ReaderOnly, ConnsBut
    <3>3. conn'[e].msg.cmd # "CmdReturn"
      BY <1>4, <2>3
    <3>4. thread'[w].wakeup = 0 /\ thread'[w].original_tid = conn'[e].msg.tid
      BY <2>1, <2>2, <2>3, <2>4 DEF SameBox
    <3> QED
      BY <1>1, <2>1, <2>2, <2>3, <3>1, <3>2, <3>3, <3>4, TargetFor
  <2>16. Registry'
    <3> DEFINE T == {w}
               E == {e}
    <3>1. (\A u : u \in T <=> u = w) /\ (\A f : f \in E <=> f = e)
      OBVIOUS
    <3> HIDE DEF E, T
    <3>2. ListsStay
      BY <1>3, <2>5 DEF ListsStay
    <3>3. UncreatedRest
      BY <2>5 DEF UncreatedRest, SameBox, Thread
    <3>4. \A u \in Thread : u \notin T => Rests(u)
      BY <1>4, <2>3, <2>5, <2>6, <3>1, Processes, ReaderOthersRest
    <3>5. \A u \in Thread : u \in T => ThreadCounted(u)' /\ CalledRight(u)'
      BY <2>13, <2>14, <3>1
    <3>6. \A f \in Conn : f \notin E => EndRests(f) /\ TargetRests(f)
      <4>1. \A f \in Conn : Aims(f) => conn[f].thr \in Thread
        BY AimedFacts
      <4>2. \A f \in Conn : TargetRests(f)
        BY <2>5, <4>1 DEF TargetRests, SameBox
      <4> QED
        BY <2>6, <3>1, <4>2, ReaderOnlyFacts
    <3>7. \A f \in Conn : f \notin E /\ conn[f].reader \in {"add", "count"} => conn[f].thr \notin T
      BY <2>2, <3>1
    <3>8. \A f \in Conn : f \in E =>
              /\ TargetRight(f)' /\ conn[f].reader # "add"
              /\ \/ conn'[f].thr = conn[f].thr \/ conn'[f].thr = None
                 \/ conn'[f].thr \in Waiting(Owner[f]) /\ \A g \in Conn : g # f => conn[g].thr # conn'[f].thr
      BY <1>1, <1>3, <2>1, <2>2, <2>3, <2>15, <3>1
    <3>9. FramesWait
      BY <2>6, ReaderOnlyFacts
    <3> QED
      BY <1>3, <2>9, <3>2, <3>3, <3>4, <3>5, <3>6, <3>7, <3>8, <3>9, RestRegistry
  <2> QED
    BY <1>3, <2>7, <2>8, <2>9, <2>16, Together
<1> QED
  BY <1>6, <1>7

\* A return has been read: the thread that made its call waits for it.
LEMMA ReturnFinds ==
    ASSUME IInv, NEW e \in Conn, conn[e].reader = "find"
    PROVE  LET w == findWaitingThread(Owner[e], conn[e].msg.tid) IN
           /\ conn[e].msg.cmd = "CmdReturn"
           /\ w \in Waiting(Owner[e]) /\ w \in Thread
           /\ thread[w].original_tid = conn[e].msg.tid
           /\ <<"client_call", conn[e].msg.id>> \in Frames(w)
<1>1. Holds(e)
  BY DEF Holds, Holding
<1>2. PICK id \in CallId : id = conn[e].msg.id
  BY <1>1, ReaderPending
<1>3. conn[e].msg.cmd = "CmdReturn"
  BY <1>1, IInvParts DEF InReader
<1>4. /\ conn[e].msg.tid = Tid[id[1]]
      /\ rpc[id].client = "wait" /\ e = rpc[id].conn /\ IsOpen(id)
  BY <1>1, <1>2, <1>3, ReaderPending DEF Pending
<1>5. PICK t \in Thread : <<"client_call", id>> \in Frames(t)
  BY <1>4, IInvParts DEF CallsFramed
<1>6. Process(t) = Owner[e]
  <2>1. PICK i \in 1..Len(thread[t].stack) : thread[t].stack[i] = <<"client_call", id>>
    BY <1>5, IInvParts, IsFrame DEF FramesTyped
  <2> QED
    BY <1>4, <2>1, IInvParts, SMTT(30) DEF FramesPlaced
<1>7. t \in Waiting(Process(t)) /\ thread[t].original_tid = Tid[id[1]]
  <2>1. MakesIt(t, id) /\ rpc[id].client \notin {"add", "count"}
    BY <1>4, <1>5 DEF MakesIt
  <2> QED
    BY <2>1, MakesRegistered
<1>8. findWaitingThread(Owner[e], conn[e].msg.tid) = t
  BY <1>4, <1>6, <1>7, OwnerFacts, Found
<1> QED
  BY <1>2, <1>3, <1>4, <1>5, <1>6, <1>7, <1>8

\* FindWaiting keeps the invariant.
LEMMA FindWaitingKeeps ==
    ASSUME IInv, TidsDiffer, NEW e \in Conn, FindWaiting(e) PROVE IInv'
<1>1. conn[e].reader = "find" /\ Holds(e)
  BY DEF FindWaiting, Reading, Holds, Holding
<1>2. PICK w \in Thread : w = findWaitingThread(Owner[e], conn[e].msg.tid)
  BY <1>1, ReturnFinds
<1>3. /\ conn[e].msg.cmd = "CmdReturn"
      /\ w \in Waiting(Owner[e])
      /\ thread[w].original_tid = conn[e].msg.tid
      /\ <<"client_call", conn[e].msg.id>> \in Frames(w)
  BY <1>1, <1>2, ReturnFinds
<1>4. /\ UNCHANGED <<waiting_threads, free_workers, nworkers, thread, wire, rpc, aborted>>
      /\ ReaderAt(e, "data", conn[e].msg, w)
      /\ TypeOK' /\ Calm'
  BY <1>2, FindWaitingDoes, IInvParts
<1>5. /\ w \in Created /\ Process(w) = Owner[e] /\ thread[w].wakeup = 0
      /\ \A f \in Conn : conn[f].thr # w
  BY <1>1, <1>3, ChosenFacts
<1>6. conn'[e].thr = w /\ conn'[e].reader = "data" /\ conn'[e].msg = conn[e].msg
  BY <1>4 DEF ReaderAt
<1>7. ReaderOnly(e)
  BY <1>4 DEF ReaderOnly, ReaderAt
<1>8. ConnsCounted' /\ FramesWait
  BY <1>7, ReaderOnlyFacts
<1>9. StacksRight'
  <2>1. CallsStay
    BY <1>4 DEF CallsStay, UsedStay
  <2> QED
    BY <2>1, IInvParts, CallsStayStacks
<1>10. Messages'
  <2>1. \A u \in Thread : BoxStays(u)
    BY <1>4 DEF BoxStays
  <2>2. Holds(e)' /\ WireStays
    BY <1>4, <1>6 DEF Holds, Holding, WireStays
  <2> QED
    BY <1>1, <1>6, <1>7, <2>1, <2>2, MessageKept
<1>11. \A u \in Thread : SameId(u) /\ SameBox(u)
  BY <1>4 DEF SameId, SameBox
<1>12. conn[e].thr = None
  <2>1. ~Aims(e)
    BY <1>1 DEF Aims, Aiming
  <2> QED
    BY <2>1, IInvParts DEF Targets
<1>13. \A u \in Thread : Rests(u)
  <2>1. ASSUME NEW u \in Thread, u # w PROVE Rests(u)
    BY <1>6, <1>7, <1>11, <1>12, <2>1, Processes, ReaderOthersRest
  <2>2. Rests(w)
    <3>1. \A k \in CallId : /\ MakesIt(w, k)' <=> MakesIt(w, k)
                            /\ ServesIt(w, k)' <=> ServesIt(w, k)
                            /\ AddsIt(w, k)' <=> AddsIt(w, k)
      BY <1>7, ReaderOnlyFacts
    <3>2. \A k \in CallId : HasIt(w, k)' <=> HasIt(w, k)
      BY <1>4 DEF HasIt
    <3>3. ~GetsIt(w, e) /\ ~GetsIt(w, e)' /\ ~AddsWorker(w, e) /\ ~AddsWorker(w, e)'
      BY <1>3, <1>5, <1>6 DEF GetsIt, AddsWorker
    <3>4. \A f \in Conn : (GetsIt(w, f)' <=> GetsIt(w, f)) /\ (AddsWorker(w, f)' <=> AddsWorker(w, f))
      BY <1>7, <3>3, ReaderOnlyFacts
    <3> QED
      BY <1>4, <3>1, <3>2, <3>4 DEF Rests
  <2> QED
    BY <2>1, <2>2
<1>14. TargetRight(e)'
  <2>1. w \in Created'
    BY <1>4, <1>5 DEF Created
  <2>2. \A f \in Conn : conn'[f].thr = w => f = e
    BY <1>5, <1>7 DEF ReaderOnly, ConnsBut
  <2>3. <<"client_call", conn'[e].msg.id>> \in Frames(w)'
    BY <1>3, <1>4, <1>6 DEF Frames
  <2>4. thread'[w].wakeup = 0 /\ thread'[w].original_tid = conn'[e].msg.tid
    BY <1>3, <1>4, <1>5, <1>6
  <2> QED
    BY <1>5, <1>6, <2>1, <2>2, <2>3, <2>4, TargetFor
<1>15. Registry'
  <2> DEFINE T == {}
             E == {e}
  <2>1. (\A u : u \notin T) /\ (\A f : f \in E <=> f = e)
    OBVIOUS
  <2> HIDE DEF E, T
  <2>2. ListsStay /\ UncreatedRest
    BY <1>4 DEF ListsStay, UncreatedRest
  <2>3. \A f \in Conn : f \notin E => EndRests(f) /\ TargetRests(f)
    BY <1>4, <1>7, <2>1, ReaderOnlyFacts DEF TargetRests
  <2>4. \A f \in Conn : f \in E =>
            /\ TargetRight(f)' /\ conn[f].reader # "add"
            /\ \/ conn'[f].thr = conn[f].thr \/ conn'[f].thr = None
               \/ conn'[f].thr \in Waiting(Owner[f]) /\ \A g \in Conn : g # f => conn[g].thr # conn'[f].thr
    BY <1>1, <1>3, <1>5, <1>6, <1>14, <2>1
  <2>5. \A u \in Thread : u \notin T => Rests(u)
    BY <1>13
  <2>6. \A u \in Thread : u \in T => ThreadCounted(u)' /\ CalledRight(u)'
    BY <2>1
  <2>7. \A f \in Conn : f \notin E /\ conn[f].reader \in {"add", "count"} => conn[f].thr \notin T
    BY <2>1
  <2> QED
    BY <1>4, <1>8, <1>10, <2>2, <2>3, <2>4, <2>5, <2>6, <2>7, RestRegistry
<1> QED
  BY <1>4, <1>8, <1>9, <1>10, <1>15, Together

\* The thread that a reader is about to give its message.
LEMMA AimedRight ==
    ASSUME IInv, NEW e \in Conn, Aims(e)
    PROVE  LET w == conn[e].thr IN
           /\ w \in Thread /\ w \in Created /\ Process(w) = Owner[e] /\ thread[w].wakeup = 0
           /\ \A f \in Conn : conn[f].thr = w => f = e
           /\ conn[e].reader \in {"count", "data", "post"} => thread[w].original_tid = conn[e].msg.tid
           /\ conn[e].reader = "post" => thread[w].wakeup_data = conn[e].msg
           /\ conn[e].reader = "post" /\ conn[e].msg.cmd = "CmdCall" => thread[w].wakeup_conn = e
           /\ conn[e].reader \in {"data", "post"} /\ conn[e].msg.cmd = "CmdReturn" =>
                <<"client_call", conn[e].msg.id>> \in Frames(w)
           /\ conn[e].reader \in {"add", "count"} => w \in Worker /\ Registrations(w) = {}
           /\ conn[e].reader = "add" => w \notin Waiting(Owner[e])
           /\ conn[e].reader = "count" => w \in Waiting(Owner[e])
<1>1. TargetRight(e)
  BY IInvParts, TargetsAre
<1>2. conn[e].thr \in Thread
  BY AimedFacts
<1> QED
  BY <1>1, <1>2 DEF TargetRight

\* CountWorker keeps the invariant.
LEMMA CountWorkerKeeps ==
    ASSUME IInv, NEW e \in Conn, CountWorker(e) PROVE IInv'
<1>1. conn[e].reader = "count" /\ Holds(e) /\ Aims(e)
  BY DEF CountWorker, Reading, Holds, Holding, Aims, Aiming
<1>2. PICK w : w = conn[e].thr
  OBVIOUS
<1>3. /\ w \in Thread /\ w \in Created /\ Process(w) = Owner[e] /\ thread[w].wakeup = 0
      /\ \A f \in Conn : conn[f].thr = w => f = e
      /\ thread[w].original_tid = conn[e].msg.tid
      /\ Registrations(w) = {}
      /\ w \in Waiting(Owner[e])
  BY <1>1, <1>2, AimedRight
<1>4. /\ UNCHANGED <<waiting_threads, free_workers, nworkers, wire, rpc, aborted>>
      /\ ThreadsBut(w) /\ SameBox(w) /\ SameRun(w)
      /\ thread'[w].recursion_count = 1
      /\ thread'[w].original_tid = thread[w].original_tid
      /\ ReaderAt(e, "data", conn[e].msg, w)
      /\ TypeOK' /\ Calm'
  BY <1>2, <1>3, CountWorkerDoes, IInvParts
<1>5. conn[e].msg.cmd = "CmdCall"
  BY <1>1, IInvParts DEF InReader
<1>6. conn'[e].thr = w /\ conn'[e].reader = "data" /\ conn'[e].msg = conn[e].msg
  BY <1>4 DEF ReaderAt
<1>7. \A u \in Thread : /\ thread'[u].stack = thread[u].stack /\ SameBox(u)
                        /\ thread'[u].used_connection = thread[u].used_connection
                        /\ thread'[u].original_tid = thread[u].original_tid
                        /\ u # w => SameId(u)
  BY <1>4 DEF ThreadsBut, SameRun, SameBox, SameId
<1>8. ReaderOnly(e)
  BY <1>4, <1>7 DEF ReaderOnly, ReaderAt
<1>9. ConnsCounted' /\ FramesWait
  BY <1>8, ReaderOnlyFacts
<1>10. StacksRight'
  <2>1. CallsStay
    BY <1>4, <1>7 DEF CallsStay, UsedStay
  <2> QED
    BY <2>1, IInvParts, CallsStayStacks
<1>11. Messages'
  <2>1. \A u \in Thread : BoxStays(u)
    BY <1>7 DEF BoxStays, SameBox
  <2>2. Holds(e)' /\ WireStays
    BY <1>4, <1>6 DEF Holds, Holding, WireStays
  <2> QED
    BY <1>1, <1>6, <1>8, <2>1, <2>2, MessageKept
<1>12. PICK x : x = <<"reader", e>>
  OBVIOUS
<1>13. /\ \A k \in CallId : ~MakesIt(w, k) /\ ~ServesIt(w, k) /\ ~HasIt(w, k) /\ ~AddsIt(w, k)
       /\ \A f \in Conn : ~GetsIt(w, f)
  <2>1. \A k \in CallId : ~MakesIt(w, k) /\ ~ServesIt(w, k) /\ ~HasIt(w, k)
    BY <1>3, IInvParts, RegistrationFacts DEF RegistrationsAre
  <2>2. \A f \in Conn : ~GetsIt(w, f)
    BY <1>3, IInvParts, RegistrationFacts DEF RegistrationsAre
  <2>3. \A k \in CallId : AddsIt(w, k) => MakesIt(w, k)
    BY DEF AddsIt, MakesIt
  <2> QED
    BY <2>1, <2>2, <2>3
<1>14. Registrations(w)' = Registrations(w) \cup {x}
  <2>1. \A k \in CallId : /\ MakesIt(w, k)' <=> (MakesIt(w, k) \/ x = <<"client_call", k>>)
                          /\ ServesIt(w, k)' <=> (ServesIt(w, k) \/ x = <<"handleCall", k>>)
    BY <1>3, <1>8, <1>12, ReaderOnlyFacts
  <2>2. \A k \in CallId : HasIt(w, k)' <=> (HasIt(w, k) \/ x = <<"posted", k>>)
    BY <1>3, <1>4, <1>7, <1>12 DEF HasIt, SameBox
  <2>3. GetsIt(w, e)'
    BY <1>5, <1>6 DEF GetsIt
  <2>4. \A f \in Conn : GetsIt(w, f)' <=> (GetsIt(w, f) \/ x = <<"reader", f>>)
    BY <1>3, <1>8, <1>12, <2>3, ReaderOnlyFacts
  <2>5. IsRegistration(x)
    BY <1>12 DEF IsRegistration
  <2> QED
    BY <1>3, <1>4, <2>1, <2>2, <2>4, <2>5, IInvParts, RegistrationsGain
<1>15. ThreadCounted(w)'
  <2>1. Registrations(w)' = {x}
    BY <1>3, <1>14
  <2>2. IsFiniteSet({x}) /\ Cardinality({x}) = 1
    BY FS_Singleton
  <2>3. (w \in Waiting(Process(w)))'
    BY <1>3, <1>4 DEF Waiting, Process
  <2> QED
    BY <1>4, <2>1, <2>2, <2>3 DEF ThreadCounted
<1>16. CalledRight(w)'
  <2>1. \A k \in CallId : ~AddsIt(w, k)'
    BY <1>3, <1>8, <1>13, ReaderOnlyFacts
  <2> QED
    BY <2>1 DEF CalledRight
<1>17. TargetRight(e)'
  <2>1. w \in Created'
    BY <1>3, <1>4 DEF Created
  <2>2. \A f \in Conn : conn'[f].thr = w => f = e
    BY <1>3, <1>8 DEF ReaderOnly, ConnsBut
  <2>3. thread'[w].wakeup = 0 /\ thread'[w].original_tid = conn'[e].msg.tid
    BY <1>3, <1>4, <1>6 DEF SameBox
  <2> QED
    BY <1>3, <1>5, <1>6, <2>1, <2>2, <2>3, TargetFor
<1>18. Registry'
  <2> DEFINE T == {w}
             E == {e}
  <2>1. (\A u : u \in T <=> u = w) /\ (\A f : f \in E <=> f = e)
    OBVIOUS
  <2> HIDE DEF E, T
  <2>2. ListsStay
    BY <1>4, <1>7 DEF ListsStay
  <2>3. UncreatedRest
    BY <1>7 DEF UncreatedRest, SameBox, Thread
  <2>4. \A u \in Thread : u \notin T => Rests(u)
    BY <1>2, <1>6, <1>7, <1>8, <2>1, ReaderOthersRest
  <2>5. \A u \in Thread : u \in T => ThreadCounted(u)' /\ CalledRight(u)'
    BY <1>15, <1>16, <2>1
  <2>6. \A f \in Conn : f \notin E => EndRests(f) /\ TargetRests(f)
    <3>1. \A f \in Conn : Aims(f) => conn[f].thr \in Thread
      BY AimedFacts
    <3>2. \A f \in Conn : TargetRests(f)
      BY <1>7, <3>1 DEF TargetRests, SameBox
    <3> QED
      BY <1>8, <2>1, <3>2, ReaderOnlyFacts
  <2>7. \A f \in Conn : f \notin E /\ conn[f].reader \in {"add", "count"} => conn[f].thr \notin T
    BY <1>3, <2>1
  <2>8. \A f \in Conn : f \in E =>
            /\ TargetRight(f)' /\ conn[f].reader # "add"
            /\ \/ conn'[f].thr = conn[f].thr \/ conn'[f].thr = None
               \/ conn'[f].thr \in Waiting(Owner[f]) /\ \A g \in Conn : g # f => conn[g].thr # conn'[f].thr
    BY <1>1, <1>2, <1>6, <1>17, <2>1
  <2> QED
    BY <1>4, <1>9, <1>11, <2>2, <2>3, <2>4, <2>5, <2>6, <2>7, <2>8, RestRegistry
<1> QED
  BY <1>4, <1>9, <1>10, <1>11, <1>18, Together

\* Deliver keeps the invariant.
LEMMA DeliverKeeps ==
    ASSUME IInv, NEW e \in Conn, Deliver(e) PROVE IInv'
<1>1. conn[e].reader = "data" /\ Holds(e) /\ Aims(e)
  BY DEF Deliver, Reading, Holds, Holding, Aims, Aiming
<1>2. PICK w : w = conn[e].thr
  OBVIOUS
<1>3. /\ w \in Thread /\ w \in Created /\ Process(w) = Owner[e] /\ thread[w].wakeup = 0
      /\ \A f \in Conn : conn[f].thr = w => f = e
      /\ thread[w].original_tid = conn[e].msg.tid
      /\ conn[e].msg.cmd = "CmdReturn" => <<"client_call", conn[e].msg.id>> \in Frames(w)
  BY <1>1, <1>2, AimedRight
<1>4. /\ UNCHANGED <<waiting_threads, free_workers, nworkers, wire, rpc, aborted>>
      /\ ThreadsBut(w) /\ SameId(w) /\ SameRun(w)
      /\ thread'[w].wakeup = thread[w].wakeup
      /\ thread'[w].wakeup_data = conn[e].msg
      /\ conn[e].msg.cmd = "CmdCall" => thread'[w].wakeup_conn = e
      /\ ReaderAt(e, "post", conn[e].msg, w)
      /\ TypeOK' /\ Calm'
  BY <1>2, <1>3, DeliverDoes, IInvParts
<1>5. conn'[e].thr = w /\ conn'[e].reader = "post" /\ conn'[e].msg = conn[e].msg
  BY <1>4 DEF ReaderAt
<1>6. \A u \in Thread : /\ thread'[u].stack = thread[u].stack /\ SameId(u)
                        /\ thread'[u].used_connection = thread[u].used_connection
                        /\ thread'[u].original_tid = thread[u].original_tid
                        /\ thread'[u].wakeup = thread[u].wakeup
                        /\ u # w => SameBox(u)
  BY <1>4 DEF ThreadsBut, SameRun, SameBox, SameId
<1>7. ReaderOnly(e)
  BY <1>4, <1>6 DEF ReaderOnly, ReaderAt
<1>8. ConnsCounted' /\ FramesWait
  BY <1>7, ReaderOnlyFacts
<1>9. StacksRight'
  <2>1. CallsStay
    BY <1>4, <1>6 DEF CallsStay, UsedStay
  <2> QED
    BY <2>1, IInvParts, CallsStayStacks
<1>10. Messages'
  <2>1. \A u \in Thread : BoxStays(u)
    BY <1>3, <1>6 DEF BoxStays, SameBox, Boxed
  <2>2. Holds(e)' /\ WireStays
    BY <1>4, <1>5 DEF Holds, Holding, WireStays
  <2> QED
    BY <1>1, <1>5, <1>7, <2>1, <2>2, MessageKept
<1>11. \A u \in Thread : Rests(u)
  <2>1. ASSUME NEW u \in Thread, u # w PROVE Rests(u)
    BY <1>2, <1>5, <1>6, <1>7, <2>1, ReaderOthersRest
  <2>2. Rests(w)
    <3>1. \A k \in CallId : /\ MakesIt(w, k)' <=> MakesIt(w, k)
                            /\ ServesIt(w, k)' <=> ServesIt(w, k)
                            /\ AddsIt(w, k)' <=> AddsIt(w, k)
      BY <1>3, <1>7, ReaderOnlyFacts
    <3>2. \A k \in CallId : HasIt(w, k)' <=> HasIt(w, k)
      BY <1>3, <1>4 DEF HasIt
    <3>3. (GetsIt(w, e) <=> GetsIt(w, e)') /\ ~AddsWorker(w, e) /\ ~AddsWorker(w, e)'
      BY <1>1, <1>2, <1>5 DEF GetsIt, AddsWorker
    <3>4. \A f \in Conn : (GetsIt(w, f)' <=> GetsIt(w, f)) /\ (AddsWorker(w, f)' <=> AddsWorker(w, f))
      BY <1>3, <1>7, <3>3, ReaderOnlyFacts
    <3> QED
      BY <1>3, <1>4, <3>1, <3>2, <3>4 DEF Rests, SameId
  <2> QED
    BY <2>1, <2>2
<1>12. TargetRight(e)'
  <2>1. w \in Created'
    BY <1>3, <1>4 DEF Created
  <2>2. \A f \in Conn : conn'[f].thr = w => f = e
    BY <1>3, <1>7 DEF ReaderOnly, ConnsBut
  <2>3. /\ thread'[w].wakeup = 0 /\ thread'[w].original_tid = conn'[e].msg.tid
        /\ thread'[w].wakeup_data = conn'[e].msg
        /\ conn'[e].msg.cmd = "CmdCall" => thread'[w].wakeup_conn = e
    BY <1>3, <1>4, <1>5, <1>6
  <2>4. conn'[e].msg.cmd = "CmdReturn" => <<"client_call", conn'[e].msg.id>> \in Frames(w)'
    BY <1>3, <1>5, <1>6 DEF Frames
  <2> QED
    BY <1>3, <1>5, <2>1, <2>2, <2>3, <2>4, TargetFor
<1>13. Registry'
  <2> DEFINE T == {}
             E == {e}
  <2>1. (\A u : u \notin T) /\ (\A f : f \in E <=> f = e)
    OBVIOUS
  <2> HIDE DEF E, T
  <2>2. ListsStay
    BY <1>4, <1>6 DEF ListsStay
  <2>3. UncreatedRest
    BY <1>6 DEF UncreatedRest, Thread
  <2>4. \A u \in Thread : u \notin T => Rests(u)
    BY <1>11
  <2>5. \A u \in Thread : u \in T => ThreadCounted(u)' /\ CalledRight(u)'
    BY <2>1
  <2>6. \A f \in Conn : f \notin E => EndRests(f) /\ TargetRests(f)
    <3>1. \A f \in Conn : Aims(f) => conn[f].thr \in Thread
      BY AimedFacts
    <3>2. \A f \in Conn : f # e => TargetRests(f)
      BY <1>3, <1>6, <3>1 DEF TargetRests, SameBox
    <3> QED
      BY <1>7, <2>1, <3>2, ReaderOnlyFacts
  <2>7. \A f \in Conn : f \notin E /\ conn[f].reader \in {"add", "count"} => conn[f].thr \notin T
    BY <2>1
  <2>8. \A f \in Conn : f \in E =>
            /\ TargetRight(f)' /\ conn[f].reader # "add"
            /\ \/ conn'[f].thr = conn[f].thr \/ conn'[f].thr = None
               \/ conn'[f].thr \in Waiting(Owner[f]) /\ \A g \in Conn : g # f => conn[g].thr # conn'[f].thr
    BY <1>1, <1>2, <1>5, <1>12, <2>1
  <2> QED
    BY <1>4, <1>8, <1>10, <2>2, <2>3, <2>4, <2>5, <2>6, <2>7, <2>8, RestRegistry
<1> QED
  BY <1>4, <1>8, <1>9, <1>10, <1>13, Together

\* A message is handed over: the other threads and ends do not notice.
LEMMA PostOthers ==
    ASSUME IInv, NEW e \in Conn, Aims(e), NEW w, w = conn[e].thr,
           ThreadsBut(w), SameId(w), SameRun(w), ConnsBut(e),
           conn'[e].reader = "check", conn'[e].thr = None
    PROVE  /\ \A u \in Thread : /\ thread'[u].stack = thread[u].stack /\ SameId(u)
                                /\ thread'[u].original_tid = thread[u].original_tid
                                /\ thread'[u].used_connection = thread[u].used_connection
                                /\ Frames(u)' = Frames(u)
                                /\ u # w => SameBox(u)
           /\ FramesWait
           /\ \A f \in Conn : f # e => EndRests(f) /\ TargetRests(f)
           /\ \A u \in Thread, f \in Conn : /\ GetsIt(u, f)' <=> (GetsIt(u, f) /\ f # e)
                                            /\ AddsWorker(u, f)' <=> (AddsWorker(u, f) /\ f # e)
<1>1. /\ w \in Thread /\ \A f \in Conn : conn[f].thr = w => f = e
  BY AimedRight
<1>2. \A u \in Thread : /\ thread'[u].stack = thread[u].stack /\ SameId(u)
                        /\ thread'[u].original_tid = thread[u].original_tid
                        /\ thread'[u].used_connection = thread[u].used_connection
                        /\ u # w => SameBox(u)
  BY DEF ThreadsBut, SameRun, SameBox, SameId
<1>3. \A u \in Thread : Frames(u)' = Frames(u)
  BY <1>2 DEF Frames
<1>4. FramesWait
  BY <1>2, StacksWait
<1>5. \A f \in Conn : f # e => EndRests(f)
  BY DEF ConnsBut, EndRests
<1>6. \A f \in Conn : f # e => TargetRests(f)
  <2>1. \A f \in Conn : Aims(f) => conn[f].thr \in Thread
    BY AimedFacts
  <2> QED
    BY <1>1, <1>2, <2>1 DEF TargetRests, SameBox
<1>7. \A u \in Thread : ~GetsIt(u, e)' /\ ~AddsWorker(u, e)'
  BY DEF GetsIt, AddsWorker
<1>8. \A u \in Thread, f \in Conn : /\ GetsIt(u, f)' <=> (GetsIt(u, f) /\ f # e)
                                    /\ AddsWorker(u, f)' <=> (AddsWorker(u, f) /\ f # e)
  BY <1>5, <1>7 DEF GetsIt, AddsWorker, EndRests
<1> QED
  BY <1>2, <1>3, <1>4, <1>5, <1>6, <1>8

\* Where the reader of e is done, and whoever it had chosen is no worker to be
\* added: the rest of the registry follows from what threads are registered for.
LEMMA PostRegistry ==
    ASSUME IInv, TypeOK', Messages', NEW e \in Conn, conn[e].reader = "post",
           UNCHANGED <<waiting_threads, free_workers, nworkers>>,
           NEW w, w = conn[e].thr,
           ThreadsBut(w), SameId(w), SameRun(w), ConnsBut(e),
           conn'[e].reader = "check", conn'[e].thr = None,
           NEW T, \A u \in Thread : u \in T => u = w,
           \A u \in Thread : u \notin T => Rests(u),
           \A u \in Thread : u \in T => ThreadCounted(u)' /\ CalledRight(u)'
    PROVE  Registry'
<1>1. Aims(e)
  BY DEF Aims, Aiming
<1>2. /\ w \in Created /\ w \in Thread /\ \A f \in Conn : conn[f].thr = w => f = e
  BY <1>1, AimedRight
<1>3. /\ \A u \in Thread : /\ thread'[u].stack = thread[u].stack
                           /\ thread'[u].original_tid = thread[u].original_tid
                           /\ u # w => SameBox(u)
      /\ FramesWait
      /\ \A f \in Conn : f # e => EndRests(f) /\ TargetRests(f)
  BY <1>1, PostOthers
<1> DEFINE E == {e}
<1>4. \A f \in Conn : f \in E <=> f = e
  OBVIOUS
<1> HIDE DEF E
<1>5. ListsStay
  BY <1>3 DEF ListsStay
<1>6. UncreatedRest
  BY <1>2, <1>3 DEF UncreatedRest, Thread, SameBox
<1>7. TargetRight(e)'
  <2>1. conn'[e].reader \notin Aiming /\ conn'[e].reader # "worker"
    BY DEF Aiming
  <2> QED
    BY <2>1, TargetNone
<1>8. \A f \in Conn : f \notin E => EndRests(f) /\ TargetRests(f)
  BY <1>3, <1>4
<1>9. \A f \in Conn : f \in E =>
          /\ TargetRight(f)' /\ conn[f].reader # "add"
          /\ \/ conn'[f].thr = conn[f].thr \/ conn'[f].thr = None
             \/ conn'[f].thr \in Waiting(Owner[f]) /\ \A g \in Conn : g # f => conn[g].thr # conn'[f].thr
  BY <1>4, <1>7
<1>10. \A f \in Conn : f \notin E /\ conn[f].reader \in {"add", "count"} => conn[f].thr \notin T
  <2>1. \A f \in Conn : Aims(f) => conn[f].thr \in Thread
    BY AimedFacts
  <2>2. \A f \in Conn : conn[f].reader \in {"add", "count"} => Aims(f)
    BY DEF Aims, Aiming
  <2> QED
    BY <1>2, <1>4, <2>1, <2>2
<1> QED
  BY <1>3, <1>5, <1>6, <1>8, <1>9, <1>10, RestRegistry

\* What a reader hands over, to whom.
LEMMA PostFacts ==
    ASSUME IInv, NEW e \in Conn, Post(e)
    PROVE  LET w == conn[e].thr
               m == conn[e].msg
           IN
           /\ conn[e].reader = "post" /\ Holds(e) /\ Aims(e)
           /\ m \in Msg /\ m.id \in CallId /\ rpc[m.id].client = "wait"
           /\ m.tid = Tid[m.id[1]]
           /\ m.cmd = "CmdCall" => rpc[m.id].server = "none" /\ e = ServedAt(m.id)
           /\ m.cmd # "CmdCall" => /\ m.cmd = "CmdReturn" /\ rpc[m.id].server \in Through
                                   /\ <<"client_call", m.id>> \in Frames(w)
           /\ w \in Thread /\ w \in Created /\ Process(w) = Owner[e] /\ thread[w].wakeup = 0
           /\ \A f \in Conn : conn[f].thr = w => f = e
           /\ thread[w].original_tid = m.tid /\ thread[w].wakeup_data = m
           /\ m.cmd = "CmdCall" => thread[w].wakeup_conn = e
<1>1. conn[e].reader = "post" /\ Holds(e) /\ Aims(e)
  BY DEF Post, Reading, Holds, Holding, Aims, Aiming
<1>2. PICK m : m = conn[e].msg
  OBVIOUS
<1>3. PICK w : w = conn[e].thr
  OBVIOUS
<1>4. /\ m \in Msg /\ m.id \in CallId /\ rpc[m.id].client = "wait" /\ m.tid = Tid[m.id[1]]
      /\ m.cmd = "CmdCall" => rpc[m.id].server = "none" /\ e = ServedAt(m.id)
      /\ m.cmd # "CmdCall" => m.cmd = "CmdReturn" /\ rpc[m.id].server \in Through
  BY <1>1, <1>2, ReaderPending
<1>5. /\ w \in Thread /\ w \in Created /\ Process(w) = Owner[e] /\ thread[w].wakeup = 0
      /\ \A f \in Conn : conn[f].thr = w => f = e
      /\ thread[w].original_tid = m.tid /\ thread[w].wakeup_data = m
      /\ m.cmd = "CmdCall" => thread[w].wakeup_conn = e
      /\ m.cmd = "CmdReturn" => <<"client_call", m.id>> \in Frames(w)
  BY <1>1, <1>2, <1>3, AimedRight
<1> QED
  BY <1>1, <1>2, <1>3, <1>4, <1>5

\* Post keeps the invariant, when it hands over a return.
LEMMA PostReturnKeeps ==
    ASSUME IInv, NEW e \in Conn, Post(e), conn[e].msg.cmd # "CmdCall" PROVE IInv'
<1>1. PICK m : m = conn[e].msg
  OBVIOUS
<1>2. PICK w : w = conn[e].thr
  OBVIOUS
<1>3. /\ conn[e].reader = "post" /\ Holds(e) /\ Aims(e)
      /\ m \in Msg /\ m.id \in CallId /\ rpc[m.id].client = "wait"
      /\ m.cmd = "CmdReturn" /\ rpc[m.id].server \in Through
      /\ <<"client_call", m.id>> \in Frames(w)
      /\ w \in Thread /\ thread[w].wakeup = 0
      /\ thread[w].original_tid = m.tid /\ thread[w].wakeup_data = m
  BY <1>1, <1>2, PostFacts
<1>4. /\ UNCHANGED <<waiting_threads, free_workers, nworkers, wire, aborted>>
      /\ ThreadsBut(w) /\ SameId(w) /\ SameRun(w)
      /\ thread'[w].wakeup = thread[w].wakeup + 1
      /\ thread'[w].wakeup_data = thread[w].wakeup_data
      /\ ConnsBut(e)
      /\ conn'[e].reader = "check" /\ conn'[e].msg = NoMsg /\ conn'[e].thr = None
      /\ conn'[e].incoming_calls_cnt = conn[e].incoming_calls_cnt
      /\ conn'[e].ref_cnt = conn[e].ref_cnt
      /\ UNCHANGED rpc
      /\ TypeOK' /\ Calm'
  BY <1>1, <1>2, <1>3, IInvParts, PostDoes
<1>5. /\ \A u \in Thread : /\ thread'[u].stack = thread[u].stack /\ SameId(u)
                           /\ thread'[u].original_tid = thread[u].original_tid
                           /\ thread'[u].used_connection = thread[u].used_connection
                           /\ Frames(u)' = Frames(u)
                           /\ u # w => SameBox(u)
      /\ FramesWait
      /\ \A f \in Conn : f # e => EndRests(f) /\ TargetRests(f)
      /\ \A u \in Thread, f \in Conn : /\ GetsIt(u, f)' <=> (GetsIt(u, f) /\ f # e)
                                       /\ AddsWorker(u, f)' <=> (AddsWorker(u, f) /\ f # e)
  BY <1>2, <1>3, <1>4, PostOthers
<1>6. StacksRight'
  <2>1. CallsStay
    BY <1>4, <1>5 DEF CallsStay, UsedStay
  <2> QED
    BY <2>1, IInvParts, CallsStayStacks
<1>7. Messages'
  <2>1. ~Holds(e)' /\ \A f \in Conn \ {e} : conn'[f] = conn[f]
    BY <1>4 DEF Holds, Holding, ConnsBut
  <2>2. ~Boxed(w) /\ thread'[w].wakeup = 1 /\ thread'[w].wakeup_data = m /\ thread'[w].original_tid = m.tid
    BY <1>3, <1>4, <1>5 DEF Boxed
  <2>3. \A u \in Thread \ {w} : BoxStays(u)
    BY <1>5 DEF SameBox, BoxStays
  <2>4. \A k \in CallId : CallWaits(k)
    BY <1>4 DEF CallWaits
  <2>5. m.cmd # "CmdCall"
    BY <1>1
  <2>6. WireStays
    BY <1>4 DEF WireStays
  <2>7. MessagePosted(e, w)
    BY <1>1, <1>3, <1>5, <2>1, <2>2, <2>3, <2>4, <2>5, <2>6 DEF MessagePosted
  <2> QED
    BY <1>3, <2>7, IInvParts, MessagePostedMessages
<1>8. \A u \in Thread : Rests(u)
  <2> SUFFICES ASSUME NEW u \in Thread PROVE Rests(u)
    OBVIOUS
  <2>1. \A k \in CallId : /\ MakesIt(u, k)' <=> MakesIt(u, k)
                          /\ ServesIt(u, k)' <=> ServesIt(u, k)
                          /\ AddsIt(u, k)' <=> AddsIt(u, k)
    BY <1>4, <1>5 DEF MakesIt, ServesIt, AddsIt
  <2>2. \A k \in CallId : HasIt(u, k)' <=> HasIt(u, k)
    <3>1. CASE u # w
      BY <1>4, <1>5, <3>1 DEF HasIt, SameBox
    <3>2. CASE u = w
      <4>1. \A k \in CallId : ~HasIt(w, k)
        BY <1>3 DEF HasIt
      <4>2. \A k \in CallId : ~HasIt(w, k)'
        BY <1>3, <1>4 DEF HasIt, Through
      <4> QED
        BY <3>2, <4>1, <4>2
    <3> QED
      BY <3>1, <3>2
  <2>3. ~GetsIt(u, e) /\ ~AddsWorker(u, e)
    BY <1>1, <1>3 DEF GetsIt, AddsWorker
  <2>4. \A f \in Conn : (GetsIt(u, f)' <=> GetsIt(u, f)) /\ (AddsWorker(u, f)' <=> AddsWorker(u, f))
    BY <1>5, <2>3
  <2>5. SameId(u)
    BY <1>5
  <2> QED
    BY <1>4, <2>1, <2>2, <2>4, <2>5 DEF Rests, SameId
<1>9. Registry'
  <2> DEFINE T == {}
  <2>1. \A u : u \notin T
    OBVIOUS
  <2> HIDE DEF T
  <2>2. /\ \A u \in Thread : u \in T => u = w
        /\ \A u \in Thread : u \notin T => Rests(u)
        /\ \A u \in Thread : u \in T => ThreadCounted(u)' /\ CalledRight(u)'
    BY <1>8, <2>1
  <2>3. conn[e].reader = "post" /\ w = conn[e].thr /\ UNCHANGED <<waiting_threads, free_workers, nworkers>>
    BY <1>1, <1>2, <1>3, <1>4
  <2>4. ThreadsBut(w) /\ SameId(w) /\ SameRun(w) /\ ConnsBut(e)
    BY <1>4
  <2>5. conn'[e].reader = "check" /\ conn'[e].thr = None /\ TypeOK'
    BY <1>4
  <2> QED
    BY <1>7, <2>2, <2>3, <2>4, <2>5, PostRegistry
<1>10. ConnsCounted'
  <2>1. \A k \in CallId : CallStays(k)
    BY <1>4 DEF CallStays, IsOpen
  <2>2. \A f \in Conn : SameCounts(f)
    BY <1>4 DEF SameCounts, ConnsBut
  <2> QED
    BY <2>1, <2>2, IInvParts, ConnsStay
<1> QED
  BY <1>4, <1>6, <1>7, <1>9, <1>10, Together

\* Post keeps the invariant, when it hands over a call.
LEMMA PostCallKeeps ==
    ASSUME IInv, NEW e \in Conn, Post(e), conn[e].msg.cmd = "CmdCall" PROVE IInv'
<1>1. PICK m : m = conn[e].msg
  OBVIOUS
<1>2. PICK w : w = conn[e].thr
  OBVIOUS
<1>3. /\ conn[e].reader = "post" /\ Holds(e) /\ Aims(e)
      /\ m \in Msg /\ m.id \in CallId /\ rpc[m.id].client = "wait"
      /\ m.cmd = "CmdCall" /\ rpc[m.id].server = "none" /\ e = ServedAt(m.id)
      /\ w \in Thread /\ Process(w) = Owner[e] /\ thread[w].wakeup = 0
      /\ thread[w].original_tid = m.tid /\ thread[w].wakeup_data = m
      /\ thread[w].wakeup_conn = e
      /\ \A f \in Conn : conn[f].thr = w => f = e
  BY <1>1, <1>2, PostFacts
<1>4. PICK id \in CallId : id = m.id
  BY <1>3
<1>5. /\ UNCHANGED <<waiting_threads, free_workers, nworkers, wire, aborted>>
      /\ ThreadsBut(w) /\ SameId(w) /\ SameRun(w)
      /\ thread'[w].wakeup = thread[w].wakeup + 1
      /\ thread'[w].wakeup_data = thread[w].wakeup_data
      /\ thread'[w].wakeup_conn = e
      /\ ConnsBut(e)
      /\ conn'[e].reader = "check" /\ conn'[e].msg = NoMsg /\ conn'[e].thr = None
      /\ conn'[e].incoming_calls_cnt = conn[e].incoming_calls_cnt
      /\ conn'[e].ref_cnt = conn[e].ref_cnt + 1
      /\ CallAt(id, rpc[id].client, "posted")
      /\ TypeOK' /\ Calm'
  BY <1>1, <1>2, <1>3, <1>4, IInvParts, PostDoes
<1>6. /\ CallsBut(id) /\ SameMade(id) /\ SameAnswer(id)
      /\ rpc'[id].client = "wait" /\ rpc'[id].server = "posted"
  BY <1>3, <1>4, <1>5 DEF CallAt
<1>7. /\ \A u \in Thread : /\ thread'[u].stack = thread[u].stack /\ SameId(u)
                           /\ thread'[u].original_tid = thread[u].original_tid
                           /\ thread'[u].used_connection = thread[u].used_connection
                           /\ Frames(u)' = Frames(u)
                           /\ u # w => SameBox(u)
      /\ FramesWait
      /\ \A f \in Conn : f # e => EndRests(f) /\ TargetRests(f)
      /\ \A u \in Thread, f \in Conn : /\ GetsIt(u, f)' <=> (GetsIt(u, f) /\ f # e)
                                       /\ AddsWorker(u, f)' <=> (AddsWorker(u, f) /\ f # e)
  BY <1>2, <1>3, <1>5, PostOthers
<1>8. StacksRight'
  <2>1. CallPosted(id)
    BY <1>3, <1>4, <1>6, <1>7 DEF CallPosted, StacksStay, UsedStay
  <2> QED
    BY <2>1, IInvParts, CallPostedStacks
<1>9. Messages'
  <2>1. ~Holds(e)' /\ \A f \in Conn \ {e} : conn'[f] = conn[f]
    BY <1>5 DEF Holds, Holding, ConnsBut
  <2>2. ~Boxed(w) /\ thread'[w].wakeup = 1 /\ thread'[w].wakeup_data = m /\ thread'[w].original_tid = m.tid
    BY <1>3, <1>5, <1>7 DEF Boxed
  <2>3. \A u \in Thread \ {w} : BoxStays(u)
    BY <1>7 DEF SameBox, BoxStays
  <2>4. \A k \in CallId \ {id} : CallWaits(k)
    BY <1>6 DEF CallWaits, CallsBut
  <2>5. /\ rpc'[id].client = rpc[id].client /\ rpc'[id].conn = rpc[id].conn
        /\ rpc'[id].server = "posted" /\ m.cmd # "CmdReturn"
    BY <1>3, <1>4, <1>6 DEF SameMade
  <2>6. WireStays
    BY <1>5 DEF WireStays
  <2>7. MessagePosted(e, w)
    BY <1>1, <1>3, <1>4, <1>5, <1>7, <2>1, <2>2, <2>3, <2>4, <2>5, <2>6 DEF MessagePosted
  <2> QED
    BY <1>3, <2>7, IInvParts, MessagePostedMessages
<1>10. \A k \in CallId : k = id \/ rpc'[k] = rpc[k]
  BY <1>6 DEF CallsBut
<1>11. \A u \in Thread, k \in CallId : /\ MakesIt(u, k)' <=> MakesIt(u, k)
                                       /\ ServesIt(u, k)' <=> ServesIt(u, k)
                                       /\ AddsIt(u, k)' <=> AddsIt(u, k)
                                       /\ AddsIt(u, k) => rpc'[k].client = rpc[k].client
  BY <1>3, <1>4, <1>6, <1>7, <1>10 DEF MakesIt, ServesIt, AddsIt
<1>12. ASSUME NEW u \in Thread, u # w PROVE Rests(u)
  <2>1. \A k \in CallId : HasIt(u, k)' <=> HasIt(u, k)
    <3>1. \A k \in CallId : k # id => (HasIt(u, k)' <=> HasIt(u, k))
      BY <1>7, <1>10, <1>12 DEF HasIt, SameBox
    <3>2. ~HasIt(u, id)
      BY <1>3, <1>4 DEF HasIt
    <3>3. ~HasIt(u, id)'
      <4>1. thread[u].wakeup > 0 => Boxed(u)
        BY DEF Boxed
      <4>2. Boxed(u) => thread[u].wakeup_data.id # id
        <5>1. OneMessage
          BY IInvParts
        <5>2. Boxed(u) /\ Holds(e) => conn[e].msg.id # thread[u].wakeup_data.id
          BY <5>1, OneParts
        <5>3. Holds(e) /\ conn[e].msg.id = id
          BY <1>1, <1>3, <1>4
        <5> QED
          BY <5>2, <5>3
      <4>3. SameBox(u)
        BY <1>7, <1>12
      <4> QED
        BY <4>1, <4>2, <4>3 DEF HasIt, SameBox
    <3> QED
      BY <3>1, <3>2, <3>3
  <2>2. ~GetsIt(u, e) /\ ~AddsWorker(u, e)
    BY <1>2, <1>12 DEF GetsIt, AddsWorker
  <2>3. \A f \in Conn : (GetsIt(u, f)' <=> GetsIt(u, f)) /\ (AddsWorker(u, f)' <=> AddsWorker(u, f))
    BY <1>7, <2>2
  <2>4. SameId(u)
    BY <1>7
  <2> QED
    BY <1>11, <2>1, <2>3, <2>4 DEF Rests, SameId
<1>13. PICK x : x = <<"reader", e>>
  OBVIOUS
<1>14. PICK y : y = <<"posted", id>>
  OBVIOUS
<1>15. GetsIt(w, e) /\ ~HasIt(w, id)
  BY <1>1, <1>2, <1>3, <1>4 DEF GetsIt, HasIt
<1>16. x \in Registrations(w) /\ y \notin Registrations(w)
  BY <1>3, <1>13, <1>14, <1>15, IInvParts, RegistrationFacts DEF RegistrationsAre
<1>17. ~JustAdded(w) /\ w \in Waiting(Process(w))
  <2>1. \A k \in CallId : AddsIt(w, k) => x # <<"client_call", k>>
    BY <1>13
  <2> QED
    BY <1>3, <1>16, <2>1, Registered
<1>18. Registrations(w)' = (Registrations(w) \ {x}) \cup {y}
  <2> DEFINE R == (Registrations(w) \ {x}) \cup {y}
  <2>1. \A k \in CallId : /\ <<"client_call", k>> \in R <=> MakesIt(w, k)
                          /\ <<"handleCall", k>> \in R <=> ServesIt(w, k)
                          /\ <<"posted", k>> \in R <=> (HasIt(w, k) \/ k = id)
    BY <1>3, <1>13, <1>14, IInvParts, RegistrationFacts DEF RegistrationsAre
  <2>2. \A f \in Conn : <<"reader", f>> \in R <=> (GetsIt(w, f) /\ f # e)
    BY <1>3, <1>13, <1>14, IInvParts, RegistrationFacts DEF RegistrationsAre
  <2>3. \A z \in R : IsRegistration(z)
    BY <1>3, <1>14, IInvParts, RegistrationFacts DEF RegistrationsAre, IsRegistration
  <2> HIDE DEF R
  <2>4. \A k \in CallId : HasIt(w, k)' <=> (HasIt(w, k) \/ k = id)
    <3>1. \A k \in CallId : ~HasIt(w, k)
      BY <1>3 DEF HasIt
    <3>2. \A k \in CallId : HasIt(w, k)' <=> k = id
      BY <1>3, <1>4, <1>5, <1>6 DEF HasIt
    <3> QED
      BY <3>1, <3>2
  <2>5. Registrations(w)' = R
    BY <1>3, <1>5, <1>7, <1>11, <2>1, <2>2, <2>3, <2>4, RegistrationsTo
  <2> QED
    BY <2>5 DEF R
<1>19. ThreadCounted(w)'
  <2>1. /\ IsFiniteSet(Registrations(w) \ {x})
        /\ Cardinality(Registrations(w) \ {x}) = thread[w].recursion_count - 1
        /\ thread[w].recursion_count \in Nat
    BY <1>3, <1>16, <1>17, CountsDown
  <2>2. PICK Q : Q = Registrations(w) \ {x}
    OBVIOUS
  <2>3. PICK R : R = Q \cup {y}
    OBVIOUS
  <2>4. IsFiniteSet(R) /\ Cardinality(R) = Cardinality(Q) + 1
    BY <1>16, <2>1, <2>2, <2>3, OneMore
  <2>5. Registrations(w)' = R /\ R # {}
    BY <1>18, <2>2, <2>3
  <2>6. thread'[w].recursion_count = Cardinality(R)
    BY <1>5, <2>1, <2>2, <2>4 DEF SameId
  <2>7. (w \in Waiting(Process(w)))'
    BY <1>5, <1>17 DEF Waiting, Process
  <2> QED
    BY <2>4, <2>5, <2>6, <2>7 DEF ThreadCounted
<1>20. CalledRight(w)'
  <2>1. \A k \in CallId : ~AddsIt(w, k)
    BY <1>3, <1>17, IInvParts, RegistrationFacts DEF RegistrationsAre
  <2>2. \A k \in CallId : ~AddsIt(w, k)'
    BY <1>3, <1>11, <2>1
  <2> QED
    BY <2>2 DEF CalledRight
<1>21. Registry'
  <2> DEFINE T == {w}
  <2>1. \A u : u \in T <=> u = w
    OBVIOUS
  <2> HIDE DEF T
  <2>2. /\ \A u \in Thread : u \in T => u = w
        /\ \A u \in Thread : u \notin T => Rests(u)
        /\ \A u \in Thread : u \in T => ThreadCounted(u)' /\ CalledRight(u)'
    BY <1>12, <1>19, <1>20, <2>1
  <2>3. conn[e].reader = "post" /\ w = conn[e].thr /\ UNCHANGED <<waiting_threads, free_workers, nworkers>>
    BY <1>2, <1>3, <1>5
  <2>4. ThreadsBut(w) /\ SameId(w) /\ SameRun(w) /\ ConnsBut(e)
    BY <1>5
  <2>5. conn'[e].reader = "check" /\ conn'[e].thr = None /\ TypeOK'
    BY <1>5
  <2> QED
    BY <1>9, <2>2, <2>3, <2>4, <2>5, PostRegistry
<1>22. ConnsCounted'
  <2>1. rpc'[id].client = rpc[id].client /\ ServedAt(id) = e /\ rpc[id].server = "none"
    BY <1>3, <1>4, <1>6
  <2> QED
    BY <1>5, <1>6, <2>1, PostCounts
<1> QED
  BY <1>5, <1>8, <1>9, <1>21, <1>22, Together

\* Who has a message is registered.
LEMMA BoxedWaits ==
    IInv => \A t \in Thread : Boxed(t) => t \in Waiting(Process(t))
<1> SUFFICES ASSUME IInv, NEW t \in Thread, Boxed(t) PROVE t \in Waiting(Process(t))
  OBVIOUS
<1>1. PICK m : m = thread[t].wakeup_data
  OBVIOUS
<1>2. /\ m.id \in CallId /\ rpc[m.id].client = "wait" /\ thread[t].wakeup = 1
      /\ \/ rpc[m.id].server = "posted"
         \/ <<"client_call", m.id>> \in Frames(t)
  BY <1>1, IInvParts, BoxFacts
<1>3. CASE rpc[m.id].server = "posted"
  <2>1. HasIt(t, m.id)
    BY <1>1, <1>2, <1>3 DEF HasIt
  <2>2. <<"posted", m.id>> \in Registrations(t)
    BY <1>2, <2>1, IInvParts, RegistrationFacts DEF RegistrationsAre
  <2>3. \A k \in CallId : AddsIt(t, k) => <<"posted", m.id>> # <<"client_call", k>>
    OBVIOUS
  <2> QED
    BY <2>2, <2>3, Registered
<1>4. CASE <<"client_call", m.id>> \in Frames(t)
  <2>1. MakesIt(t, m.id) /\ rpc[m.id].client \notin {"add", "count"}
    BY <1>2, <1>4 DEF MakesIt
  <2> QED
    BY <1>2, <2>1, MakesRegistered
<1> QED
  BY <1>2, <1>3, <1>4

\* A worker that is free, or that has not been created: nothing keeps it
\* registered, and no message is for it.
LEMMA SpareFacts ==
    ASSUME IInv, NEW p \in Proc, NEW w \in Worker, w \in Frees(p) \/ w \notin Created, w[1] = p
    PROVE  /\ w \in Thread /\ Process(w) = p /\ w \notin Waiting(p)
           /\ \A f \in Conn : conn[f].thr # w
           /\ thread[w].wakeup = 0 /\ Registrations(w) = {}
           /\ \A k \in CallId : ~AddsIt(w, k)
<1>1. w \in Thread /\ w \notin Client /\ Process(w) = p
  BY ThreadAssumption DEF Thread, Process
<1>2. w \notin Waiting(p)
  BY IInvParts DEF FreeRight, WaitingRight
<1>3. \A f \in Conn : conn[f].thr # w
  <2>1. \A f \in Conn : conn[f].thr # None => conn[f].thr \in Created
    BY IInvParts DEF Targets
  <2>2. w # None
    BY <1>1, Processes
  <2> QED
    BY <2>1, <2>2, IInvParts DEF FreeRight
<1>4. thread[w].wakeup = 0
  BY <1>1, <1>2, BoxedWaits DEF Boxed
<1>5. \A k \in CallId : ~AddsIt(w, k)
  BY <1>1, AddingFacts
<1>6. ~JustAdded(w)
  BY <1>1, <1>3, <1>5, IInvParts, RegistrationFacts DEF RegistrationsAre, AddsWorker
<1>7. Registrations(w) = {}
  BY <1>1, <1>2, <1>6, IInvParts, CountedAre DEF ThreadCounted
<1> QED
  BY <1>1, <1>2, <1>3, <1>4, <1>5, <1>7

\* The list of free workers without its last.
LEMMA FreesLess ==
    ASSUME TypeOK, NEW p \in Proc, NEW w, Len(free_workers[p]) \in Nat \ {0},
           w = free_workers[p][Len(free_workers[p])], free_workers'[p] = Front(free_workers[p]),
           \A q \in Proc \ {p} : free_workers'[q] = free_workers[q],
           \A i, j \in 1..Len(free_workers[p]) : free_workers[p][i] = free_workers[p][j] => i = j
    PROVE  /\ w \in Frees(p)
           /\ \A u : u \in Frees(p)' <=> (u \in Frees(p) /\ u # w)
           /\ \A q \in Proc : q # p => Frees(q)' = Frees(q)
           /\ \A i, j \in 1..Len(free_workers'[p]) : free_workers'[p][i] = free_workers'[p][j] => i = j
<1>1. PICK s \in Seq(Worker) : s = free_workers[p]
  BY DEF TypeOK
<1>2. PICK r : r = free_workers'[p]
  OBVIOUS
<1>3. s # <<>>
  BY <1>1
<1>4. /\ r \in Seq(Worker)
      /\ Len(s) \in Nat \ {0} /\ Len(r) = Len(s) - 1
      /\ \A i \in 1..Len(s) - 1 : r[i] = s[i]
  BY <1>1, <1>2, <1>3, FrontFacts, SMTT(30)
<1>5. DOMAIN s = 1..Len(s) /\ DOMAIN r = 1..Len(r)
  BY <1>4
<1>6. Frees(p) = {s[i] : i \in 1..Len(s)}
  BY <1>1, <1>5 DEF Frees
<1>7. Frees(p)' = {r[i] : i \in 1..Len(r)}
  BY <1>2, <1>5 DEF Frees
<1>8. w = s[Len(s)] /\ \A i, j \in 1..Len(s) : s[i] = s[j] => i = j
  BY <1>1
<1>9. w \in Frees(p)
  BY <1>4, <1>6, <1>8
<1>10. ASSUME NEW u, u \in Frees(p)' PROVE u \in Frees(p) /\ u # w
  <2>1. PICK i \in 1..Len(r) : u = r[i]
    BY <1>7, <1>10
  <2>2. i \in 1..Len(s) /\ i # Len(s) /\ u = s[i] /\ Len(s) \in 1..Len(s)
    BY <1>4, <2>1
  <2> QED
    BY <1>6, <1>8, <2>2
<1>11. ASSUME NEW u, u \in Frees(p), u # w PROVE u \in Frees(p)'
  <2>1. PICK i \in 1..Len(s) : u = s[i]
    BY <1>6, <1>11
  <2>2. i \in 1..Len(r) /\ u = r[i]
    BY <1>4, <1>8, <1>11, <2>1
  <2> QED
    BY <1>7, <2>2
<1>12. \A q \in Proc : q # p => Frees(q)' = Frees(q)
  BY DEF Frees
<1>13. \A i, j \in 1..Len(r) : r[i] = r[j] => i = j
  BY <1>4, <1>8
<1> QED
  BY <1>2, <1>9, <1>10, <1>11, <1>12, <1>13

\* GetFreeWorker keeps the invariant.
LEMMA GetFreeWorkerKeeps ==
    ASSUME IInv, NEW e \in Conn, GetFreeWorker(e) PROVE IInv'
<1>1. PICK p \in Proc : p = Owner[e]
  BY OwnerFacts
<1>2. /\ conn[e].reader = "worker"
      /\ UNCHANGED <<waiting_threads, thread, wire, rpc, aborted>>
      /\ \A q \in Proc \ {p} : free_workers'[q] = free_workers[q] /\ nworkers'[q] = nworkers[q]
      /\ TypeOK' /\ Calm'
  BY <1>1, GetFreeWorkerDoes, IInvParts
<1>3. PICK w \in Worker :
        /\ ReaderAt(e, "add", conn[e].msg, w)
        /\ \/ /\ Len(free_workers[p]) \in Nat \ {0}
              /\ w = free_workers[p][Len(free_workers[p])]
              /\ free_workers'[p] = Front(free_workers[p])
              /\ nworkers'[p] = nworkers[p]
           \/ /\ w = <<p, nworkers[p] + 1>>
              /\ free_workers'[p] = free_workers[p]
              /\ nworkers'[p] = nworkers[p] + 1
  BY <1>1, GetFreeWorkerDoes, IInvParts
<1>4. /\ Holds(e) /\ conn[e].thr = None
      /\ NobodyWaits(p, conn[e].msg.tid)
  <2>1. ~Aims(e) /\ Holds(e)
    BY <1>2 DEF Aims, Aiming, Holds, Holding
  <2> QED
    BY <1>1, <1>2, <2>1, IInvParts DEF Targets
<1>5. conn'[e].thr = w /\ conn'[e].reader = "add" /\ conn'[e].msg = conn[e].msg
  BY <1>3 DEF ReaderAt
<1>6. nworkers \in [Proc -> 0..MaxWorkers]
  BY IInvParts DEF TypeOK
\* What becomes of the list, and of the threads there are.
<1>7. /\ w \in Frees(p) \/ w \notin Created
      /\ w[1] = p /\ w \in Created'
      /\ \A u : u \in Frees(p)' <=> (u \in Frees(p) /\ u # w)
      /\ \A q \in Proc : q # p => Frees(q)' = Frees(q)
      /\ \A q \in Proc : \A i, j \in 1..Len(free_workers'[q]) :
           free_workers'[q][i] = free_workers'[q][j] => i = j
      /\ \A u \in Created : u \in Created'
      /\ \A u \in Created' : u \in Created \/ u = w
  <2>1. \A q \in Proc : \A i, j \in 1..Len(free_workers[q]) : free_workers[q][i] = free_workers[q][j] => i = j
    BY IInvParts DEF FreeRight
  <2>2. CASE /\ Len(free_workers[p]) \in Nat \ {0}
             /\ w = free_workers[p][Len(free_workers[p])]
             /\ free_workers'[p] = Front(free_workers[p])
             /\ nworkers'[p] = nworkers[p]
    <3>1. /\ w \in Frees(p)
          /\ \A u : u \in Frees(p)' <=> (u \in Frees(p) /\ u # w)
          /\ \A q \in Proc : q # p => Frees(q)' = Frees(q)
          /\ \A i, j \in 1..Len(free_workers'[p]) : free_workers'[p][i] = free_workers'[p][j] => i = j
      BY <1>2, <2>1, <2>2, IInvParts, FreesLess
    <3>2. \A q \in Proc : nworkers'[q] = nworkers[q]
      BY <1>2, <2>2
    <3>3. \A u : u \in Created' <=> u \in Created
      <4>1. \A u \in Worker : u[1] \in Proc
        BY DEF Worker
      <4> QED
        BY <3>2, <4>1 DEF Created
    <3>4. w \in Created /\ Process(w) = p
      BY <3>1, IInvParts DEF FreeRight
    <3>5. w[1] = p
      BY <3>4, ThreadAssumption DEF Process
    <3>6. \A q \in Proc : \A i, j \in 1..Len(free_workers'[q]) :
            free_workers'[q][i] = free_workers'[q][j] => i = j
      BY <1>2, <2>1, <3>1
    <3> QED
      BY <3>1, <3>3, <3>4, <3>5, <3>6
  <2>3. CASE /\ w = <<p, nworkers[p] + 1>>
             /\ free_workers'[p] = free_workers[p]
             /\ nworkers'[p] = nworkers[p] + 1
    <3>1. \A q \in Proc : Frees(q)' = Frees(q) /\ free_workers'[q] = free_workers[q]
      BY <1>2, <2>3 DEF Frees
    <3>2. nworkers[p] \in Nat
      BY <1>6, ThreadAssumption
    <3>3. w \notin Created
      BY <2>3, <3>2, ThreadAssumption DEF Created
    <3>4. w \in Created'
      BY <2>3, <3>2 DEF Created
    <3>5. w \notin Frees(p)
      BY <3>3, IInvParts DEF FreeRight
    <3>6. \A u \in Worker : u[1] \in Proc /\ u[2] \in Nat /\ u = <<u[1], u[2]>>
      BY DEF Worker
    <3>7. ASSUME NEW u \in Worker PROVE u[2] <= nworkers'[u[1]] <=> (u[2] <= nworkers[u[1]] \/ u = w)
      <4>1. CASE u[1] # p
        BY <1>2, <2>3, <3>6, <4>1
      <4>2. CASE u[1] = p
        <5>1. u = w <=> u[2] = nworkers[p] + 1
          BY <2>3, <3>6, <4>2
        <5> QED
          BY <2>3, <3>2, <3>6, <4>2, <5>1
      <4> QED
        BY <4>1, <4>2
    <3>8. \A u : u \in Created' <=> (u \in Created \/ u = w)
      BY <3>7 DEF Created
    <3>9. \A u : u \in Frees(p)' <=> (u \in Frees(p) /\ u # w)
      BY <3>1, <3>5
    <3>10. w[1] = p
      BY <2>3
    <3> QED
      BY <2>1, <3>1, <3>3, <3>4, <3>8, <3>9, <3>10
  <2> QED
    BY <1>3, <2>2, <2>3
<1>8. /\ w \in Thread /\ Process(w) = p /\ w \notin Waiting(p)
      /\ \A f \in Conn : conn[f].thr # w
      /\ thread[w].wakeup = 0 /\ Registrations(w) = {}
      /\ \A k \in CallId : ~AddsIt(w, k)
  BY <1>7, SpareFacts
<1>9. ReaderOnly(e)
  BY <1>2, <1>3 DEF ReaderOnly, ReaderAt
<1>10. ConnsCounted' /\ FramesWait /\ \A f \in Conn : f # e => EndRests(f)
  BY <1>9, ReaderOnlyFacts
<1>11. StacksRight'
  <2>1. CallsStay
    BY <1>2 DEF CallsStay, UsedStay
  <2> QED
    BY <2>1, IInvParts, CallsStayStacks
<1>12. Messages'
  <2>1. \A u \in Thread : BoxStays(u)
    BY <1>2 DEF BoxStays
  <2>2. Holds(e)' /\ WireStays
    BY <1>2, <1>5 DEF Holds, Holding, WireStays
  <2> QED
    BY <1>2, <1>4, <1>5, <1>9, <2>1, <2>2, MessageKept
<1>13. \A u \in Thread : SameId(u) /\ SameBox(u)
  BY <1>2 DEF SameId, SameBox
<1>14. /\ \A q \in Proc : Waiting(q)' = Waiting(q)
       /\ \A q, tid : NobodyWaits(q, tid) => NobodyWaits(q, tid)'
  BY <1>2 DEF Waiting, NobodyWaits
<1>15. Registrations(w)' = {}
  <2>1. \A k \in CallId : /\ MakesIt(w, k)' <=> MakesIt(w, k)
                          /\ ServesIt(w, k)' <=> ServesIt(w, k)
    BY <1>8, <1>9, ReaderOnlyFacts
  <2>2. \A k \in CallId : HasIt(w, k)' <=> HasIt(w, k)
    BY <1>2 DEF HasIt
  <2>3. ~GetsIt(w, e) /\ ~GetsIt(w, e)'
    BY <1>5, <1>8 DEF GetsIt
  <2>4. \A f \in Conn : GetsIt(w, f)' <=> GetsIt(w, f)
    BY <1>8, <1>9, <2>3, ReaderOnlyFacts
  <2>5. Registrations(w)' = Registrations(w)
    BY <1>2, <1>8, <2>1, <2>2, <2>4, IInvParts, RegistrationsSame
  <2> QED
    BY <1>8, <2>5
<1>16. ThreadCounted(w)' /\ CalledRight(w)'
  <2>1. AddsWorker(w, e)'
    BY <1>5 DEF AddsWorker
  <2>2. JustAdded(w)'
    BY <1>2, <1>8, <2>1, RegistrationFactsNext DEF RegistrationsAre
  <2>3. IsFiniteSet({})
    BY FS_EmptySet
  <2>4. \A k \in CallId : ~AddsIt(w, k)'
    BY <1>8, <1>9, ReaderOnlyFacts
  <2> QED
    BY <1>15, <2>2, <2>3, <2>4 DEF ThreadCounted, CalledRight
<1>17. TargetRight(e)'
  <2>1. NobodyWaits(Owner[e], conn[e].msg.tid)'
    <3>1. PICK tid : tid = conn[e].msg.tid
      OBVIOUS
    <3>2. NobodyWaits(p, tid)'
      BY <1>4, <1>14, <3>1
    <3> QED
      BY <1>1, <1>5, <3>1, <3>2 DEF NobodyWaits, Waiting
  <2>2. \A f \in Conn : conn'[f].thr = w => e = f
    BY <1>8, <1>10 DEF EndRests
  <2>3. w \notin Waiting(Owner[e])'
    BY <1>1, <1>8, <1>14
  <2>4. thread'[w].wakeup = 0
    BY <1>2, <1>8
  <2>5. conn'[e].thr \in Worker /\ Registrations(conn[e].thr)' = {}
    BY <1>5, <1>15
  <2>6. Process(conn'[e].thr) = Owner[e] /\ conn'[e].thr \in Created'
    BY <1>1, <1>5, <1>7, <1>8
  <2> QED
    BY <1>5, <2>1, <2>2, <2>3, <2>4, <2>5, <2>6 DEF TargetRight, Process, Aims, Aiming
<1>18. Targets' /\ Counted' /\ JustCalled'
  <2> DEFINE T == {w}
             E == {e}
  <2>1. (\A u : u \in T <=> u = w) /\ (\A f : f \in E <=> f = e)
    OBVIOUS
  <2> HIDE DEF E, T
  <2>2. \A u \in Thread : u \notin T =>
              Rests(u) /\ ((u \in Waiting(Process(u)))' <=> u \in Waiting(Process(u)))
    <3>1. \A u \in Thread : u \notin T => Rests(u)
      BY <1>4, <1>5, <1>9, <1>13, <2>1, Processes, ReaderOthersRest
    <3>2. \A u \in Thread : (u \in Waiting(Process(u)))' <=> u \in Waiting(Process(u))
      BY <1>2 DEF Waiting, Process
    <3> QED
      BY <3>1, <3>2
  <2>3. \A u \in Thread : u \in T => ThreadCounted(u)' /\ CalledRight(u)'
    BY <1>16, <2>1
  <2>4. \A u \in Thread, k \in CallId : u \notin T /\ AddsIt(u, k) /\ rpc[k].client = "add" =>
              (NobodyWaits(Process(u), Tid[k[1]]) => NobodyWaits(Process(u), Tid[k[1]])')
    BY <1>2 DEF NobodyWaits, Waiting, Process
  <2>5. \A f \in Conn : f \notin E => EndRests(f) /\ TargetRests(f)
    BY <1>2, <1>10, <2>1 DEF TargetRests
  <2>6. \A f \in Conn : f \notin E /\ conn[f].reader \in {"worker", "add"} =>
              (NobodyWaits(Owner[f], conn[f].msg.tid) => NobodyWaits(Owner[f], conn[f].msg.tid)')
    BY <1>2, <2>5 DEF EndRests, NobodyWaits, Waiting
  <2>7. \A f \in Conn : f \notin E /\ conn[f].reader \in {"add", "count"} => conn[f].thr \notin T
    BY <1>8, <2>1
  <2>8. \A f \in Conn : f \in E =>
              /\ TargetRight(f)'
              /\ \/ conn'[f].thr = conn[f].thr \/ conn'[f].thr = None
                 \/ \A g \in Conn : g # f => conn[g].thr # conn'[f].thr
    BY <1>5, <1>8, <1>17, <2>1
  <2> QED
    BY <1>2, <1>7, <1>10, <1>12, <2>2, <2>3, <2>4, <2>5, <2>6, <2>7, <2>8, RestThreads
<1>19. WaitingRight'
  <2>1. UniqueTid'
    BY <1>2, IInvParts DEF WaitingRight, UniqueTid
  <2>2. ASSUME NEW q \in Proc, NEW u \in Waiting(q)
        PROVE  /\ u \in Created' /\ Process(u) = q
               /\ \A c \in Client : thread'[u].original_tid = Tid[c] /\ Home[c] = q => u = c
    BY <1>2, <1>7, IInvParts DEF WaitingRight
  <2>3. \A c \in Client : thread'[c].original_tid = Tid[c]
    BY <1>2, IInvParts DEF WaitingRight
  <2> QED
    BY <1>14, <2>1, <2>2, <2>3 DEF WaitingRight, Process
<1>20. FreeRight'
  <2>1. ASSUME NEW q \in Proc, NEW u \in Frees(q)'
        PROVE  /\ u \in Worker /\ u \in Created' /\ Process(u) = q
               /\ u \notin Waiting(q)'
               /\ \A f \in Conn : conn'[f].thr # u
    <3>1. u \in Frees(q) /\ u # w
      <4>1. CASE q = p
        BY <1>7, <2>1, <4>1
      <4>2. CASE q # p
        <5>1. u \in Frees(q)
          BY <1>7, <2>1, <4>2
        <5>2. Process(u) = q
          BY <5>1, IInvParts DEF FreeRight
        <5> QED
          BY <1>8, <4>2, <5>1, <5>2
      <4> QED
        BY <4>1, <4>2
    <3>2. /\ u \in Worker /\ u \in Created /\ Process(u) = q
          /\ u \notin Waiting(q)
          /\ \A f \in Conn : conn[f].thr # u
      BY <3>1, IInvParts DEF FreeRight
    <3>3. \A f \in Conn : conn'[f].thr # u
      BY <1>5, <1>10, <3>1, <3>2 DEF EndRests
    <3> QED
      BY <1>7, <1>14, <3>2, <3>3
  <2> QED
    BY <1>7, <2>1 DEF FreeRight, Process
<1>21. WorkersKept'
  <2> SUFFICES ASSUME NEW u \in Worker
               PROVE  /\ u \in Created' => \/ u \in Frees(u[1])' \/ u \in Waiting(u[1])'
                                           \/ \E f \in Conn : conn'[f].reader = "add" /\ conn'[f].thr = u
                      /\ u \notin Created' => thread'[u].stack = <<>> /\ thread'[u].wakeup = 0
    BY DEF WorkersKept
  <2>1. /\ u \in Created => \/ u \in Frees(u[1]) \/ u \in Waiting(u[1])
                            \/ \E f \in Conn : conn[f].reader = "add" /\ conn[f].thr = u
        /\ u \notin Created => thread[u].stack = <<>> /\ thread[u].wakeup = 0
    BY IInvParts DEF WorkersKept
  <2>2. u[1] \in Proc
    BY DEF Worker
  <2>3. CASE u = w
    BY <1>5, <1>7, <2>3
  <2>4. CASE u # w
    <3>1. u \in Frees(u[1]) => u \in Frees(u[1])'
      BY <1>7, <2>2, <2>4
    <3>2. \A f \in Conn : conn[f].reader = "add" => conn'[f].reader = "add" /\ conn'[f].thr = conn[f].thr
      BY <1>2, <1>10 DEF EndRests
    <3>3. u \in Waiting(u[1]) => u \in Waiting(u[1])'
      BY <1>14, <2>2
    <3> QED
      BY <1>2, <1>7, <2>1, <2>4, <3>1, <3>2, <3>3
  <2> QED
    BY <2>3, <2>4
<1>22. Registry'
  BY <1>18, <1>19, <1>20, <1>21 DEF Registry
<1> QED
  BY <1>2, <1>10, <1>11, <1>12, <1>22, Together

\* The client of a call that waits for its return is in its process's list.
LEMMA ClientWaits ==
    ASSUME IInv, NEW id \in CallId, rpc[id].client = "wait"
    PROVE  id[1] \in Waiting(Home[id[1]]) /\ thread[id[1]].original_tid = Tid[id[1]]
<1>1. PICK c \in Client : c = id[1]
  BY Clients
<1>2. c \in Thread /\ Process(c) = Home[c]
  BY DEF Thread, Process
<1>3. IsOpen(id)
  BY DEF IsOpen
<1>4. thread[c].stack # <<>>
  BY <1>1, <1>3, IInvParts DEF Covered
<1>5. 1 \in 1..Len(thread[c].stack)
  BY <1>2, <1>4, IInvParts DEF StacksTyped
<1>6. PICK k \in CallId : thread[c].stack[1] = <<"client_call", k>> /\ k[1] = c
  <2>1. /\ thread[c].stack[1][2] \in CallId
        /\ thread[c].stack[1] = <<thread[c].stack[1][1], thread[c].stack[1][2]>>
    BY <1>2, <1>5, IInvParts DEF StacksTyped
  <2>2. thread[c].stack[1][2][1] = c /\ thread[c].stack[1][1] = "client_call"
    BY <1>2, <1>5, IInvParts DEF FramesOwned
  <2> QED
    BY <2>1, <2>2
<1>7. IsOpen(k) /\ <<"client_call", k>> \in Frames(c)
  <2>1. IsOpen(k)
    BY <1>2, <1>5, <1>6, IInvParts DEF FramesPlaced
  <2>2. <<"client_call", k>> \in Frames(c)
    BY <1>2, <1>5, <1>6, IInvParts, IsFrame DEF FramesTyped
  <2> QED
    BY <2>1, <2>2
<1>8. rpc[k].client = "wait"
  <2>1. CASE k = id
    BY <2>1
  <2>2. CASE k # id
    <3>1. ~Before(id, k)
      <4>1. FramesNest
        BY IInvParts
      <4>2. FirstFrame(c)
        BY <1>2, <1>4, <4>1 DEF FramesNest
      <4>3. \A l \in CallId : Before(l, k) => ~IsOpen(l)
        BY <1>6, <4>2 DEF FirstFrame
      <4> QED
        BY <1>3, <4>3
    <3>2. Before(k, id)
      BY <1>1, <1>6, <2>2, <3>1, CallOrder
    <3> QED
      BY <1>3, <1>7, <3>2, IInvParts DEF CallsNest
  <2> QED
    BY <2>1, <2>2
<1>9. MakesIt(c, k) /\ rpc[k].client \notin {"add", "count"}
  BY <1>7, <1>8 DEF MakesIt
<1> QED
  BY <1>1, <1>2, <1>6, <1>9, MakesRegistered

\* A worker that nothing keeps registered runs no frame that fixes its thread id.
LEMMA NoLiveFrames ==
    ASSUME IInv, NEW w \in Worker, w \in Thread, Registrations(w) = {}
    PROVE  /\ \A i \in 1..Len(thread[w].stack) : ~Live(thread[w].stack[i])
           /\ \A k \in CallId : ~AddsIt(w, k)
<1>1. \A k \in CallId : ~MakesIt(w, k) /\ ~ServesIt(w, k)
  BY IInvParts, RegistrationFacts DEF RegistrationsAre
<1>2. \A k \in CallId : <<"client_call", k>> \notin Frames(w)
  <2> SUFFICES ASSUME NEW k \in CallId, <<"client_call", k>> \in Frames(w) PROVE FALSE
    OBVIOUS
  <2>1. w \notin Client
    BY ThreadAssumption
  <2> QED
    BY <1>1, <2>1, BelowCall
<1>3. \A k \in CallId : ~AddsIt(w, k)
  BY <1>2 DEF AddsIt
<1>4. ASSUME NEW i \in 1..Len(thread[w].stack), Live(thread[w].stack[i]) PROVE FALSE
  <2>1. PICK f : f = thread[w].stack[i]
    OBVIOUS
  <2>2. f \in Frame /\ f[1] \in {"client_call", "handleCall"} /\ f[2] \in CallId /\ f = <<f[1], f[2]>>
    BY <2>1, IInvParts DEF StacksTyped
  <2>3. f \in Frames(w)
    BY <2>1, <2>2, IInvParts DEF FramesTyped
  <2>4. f[1] = "handleCall" /\ rpc[f[2]].server \in {"running", "release"}
    BY <1>2, <1>4, <2>1, <2>2, <2>3 DEF Live
  <2>5. ServesIt(w, f[2])
    BY <2>2, <2>3, <2>4 DEF ServesIt
  <2> QED
    BY <1>1, <2>2, <2>5
<1> QED
  BY <1>3, <1>4

\* RegisterWorker keeps the invariant.
LEMMA RegisterWorkerKeeps ==
    ASSUME IInv, TidsDiffer, NEW e \in Conn, RegisterWorker(e) PROVE IInv'
<1>1. conn[e].reader = "add" /\ Holds(e) /\ Aims(e)
  BY DEF RegisterWorker, Reading, Holds, Holding, Aims, Aiming
<1>2. PICK w : w = conn[e].thr
  OBVIOUS
<1>3. PICK p \in Proc : p = Owner[e]
  BY OwnerFacts
<1>4. PICK tid : tid = conn[e].msg.tid
  OBVIOUS
<1>5. /\ w \in Thread /\ w \in Created /\ Process(w) = p /\ thread[w].wakeup = 0
      /\ \A f \in Conn : conn[f].thr = w => f = e
      /\ w \in Worker /\ Registrations(w) = {} /\ w \notin Waiting(p)
  BY <1>1, <1>2, <1>3, AimedRight
<1>6. NobodyWaits(p, tid)
  BY <1>1, <1>3, <1>4, IInvParts DEF Targets
<1>7. PICK id \in CallId : id = conn[e].msg.id
  BY <1>1, ReaderPending
<1>8. tid = Tid[id[1]] /\ rpc[id].client = "wait" /\ Pending(id) /\ tid \in TidValue
  BY <1>1, <1>4, <1>7, ReaderPending
<1>9. /\ UNCHANGED <<free_workers, nworkers, wire, rpc, aborted>>
      /\ ThreadsBut(w) /\ SameBox(w) /\ SameRun(w)
      /\ thread'[w].recursion_count = thread[w].recursion_count
      /\ thread'[w].original_tid = tid
      /\ waiting_threads'[p] = Append(waiting_threads[p], w)
      /\ \A q \in Proc \ {p} : waiting_threads'[q] = waiting_threads[q]
      /\ ReaderAt(e, "count", conn[e].msg, w)
      /\ TypeOK' /\ Calm'
  BY <1>2, <1>3, <1>4, <1>5, <1>8, IInvParts, RegisterWorkerDoes, ZenonT(60)
<1>10. conn'[e].thr = w /\ conn'[e].reader = "count" /\ conn'[e].msg = conn[e].msg
  BY <1>9 DEF ReaderAt
<1>11. \A u \in Thread : /\ thread'[u].stack = thread[u].stack /\ SameBox(u)
                         /\ thread'[u].used_connection = thread[u].used_connection
                         /\ u # w => SameId(u) /\ thread'[u].original_tid = thread[u].original_tid
  BY <1>9 DEF ThreadsBut, SameRun, SameBox, SameId
<1>12. ReaderOnly(e)
  BY <1>9, <1>11 DEF ReaderOnly, ReaderAt
<1>13. ConnsCounted' /\ FramesWait /\ \A f \in Conn : f # e => EndRests(f)
  BY <1>12, ReaderOnlyFacts
<1>14. /\ \A i \in 1..Len(thread[w].stack) : ~Live(thread[w].stack[i])
       /\ \A k \in CallId : ~AddsIt(w, k)
  BY <1>5, NoLiveFrames
<1>15. StacksRight'
  <2>1. CallsStay
    BY <1>9, <1>11, <1>14 DEF CallsStay, UsedStay
  <2> QED
    BY <2>1, IInvParts, CallsStayStacks
<1>16. Messages'
  <2>1. \A u \in Thread : BoxStays(u)
    BY <1>5, <1>11 DEF BoxStays, SameBox, Boxed
  <2>2. Holds(e)' /\ WireStays
    BY <1>9, <1>10 DEF Holds, Holding, WireStays
  <2> QED
    BY <1>1, <1>10, <1>12, <2>1, <2>2, MessageKept
<1>17. /\ Waiting(p)' = Waiting(p) \cup {w}
       /\ \A q \in Proc : q # p => Waiting(q)' = Waiting(q)
  BY <1>5, <1>9, IInvParts, WaitingMore
<1>18. WaitingRight' /\ FreeRight' /\ WorkersKept'
  <2>1. \A c \in Client : thread'[w].original_tid = Tid[c] /\ Home[c] = p => w = c
    <3> SUFFICES ASSUME NEW c \in Client, tid = Tid[c], Home[c] = p PROVE FALSE
      BY <1>9
    <3>1. c = id[1]
      BY <1>8, Clients DEF TidsDiffer
    <3>2. c \in Waiting(p) /\ thread[c].original_tid = tid
      BY <1>8, <3>1, ClientWaits
    <3> QED
      BY <1>6, <3>2 DEF NobodyWaits
  <2>2. NobodyWaits(p, thread'[w].original_tid)
    BY <1>6, <1>9
  <2>3. UncreatedRest
    BY <1>11 DEF UncreatedRest, SameBox, Thread
  <2>4. \A f \in Conn : conn'[f].thr = conn[f].thr
    BY <1>2, <1>10, <1>13 DEF EndRests
  <2>5. \A f \in Conn : conn[f].reader = "add" => conn'[f].reader = "add" \/ conn[f].thr = w
    BY <1>2, <1>13 DEF EndRests
  <2>6. w \notin Frees(p)
    BY <1>2, IInvParts DEF FreeRight
  <2>7. w \notin Client
    BY <1>5, ThreadAssumption
  <2> QED
    BY <1>5, <1>9, <1>11, <2>1, <2>2, <2>3, <2>4, <2>5, <2>6, <2>7, AddedLists
<1>19. Registrations(w)' = {}
  <2>1. \A k \in CallId : /\ MakesIt(w, k)' <=> MakesIt(w, k)
                          /\ ServesIt(w, k)' <=> ServesIt(w, k)
    BY <1>5, <1>12, ReaderOnlyFacts
  <2>2. \A k \in CallId : HasIt(w, k)' <=> HasIt(w, k)
    BY <1>5, <1>9, <1>11 DEF HasIt, SameBox
  <2>3. ~GetsIt(w, e) /\ ~GetsIt(w, e)'
    BY <1>1, <1>10 DEF GetsIt
  <2>4. \A f \in Conn : GetsIt(w, f)' <=> GetsIt(w, f)
    BY <1>5, <1>12, <2>3, ReaderOnlyFacts
  <2>5. Registrations(w)' = Registrations(w)
    BY <1>5, <1>9, <2>1, <2>2, <2>4, IInvParts, RegistrationsSame
  <2> QED
    BY <1>5, <2>5
<1>20. ThreadCounted(w)' /\ CalledRight(w)'
  <2>1. AddsWorker(w, e)'
    BY <1>10 DEF AddsWorker
  <2>2. JustAdded(w)'
    BY <1>5, <1>9, <2>1, RegistrationFactsNext DEF RegistrationsAre
  <2>3. IsFiniteSet({})
    BY FS_EmptySet
  <2>4. \A k \in CallId : ~AddsIt(w, k)'
    BY <1>5, <1>12, <1>14, ReaderOnlyFacts
  <2> QED
    BY <1>19, <2>2, <2>3, <2>4 DEF ThreadCounted, CalledRight
<1>21. TargetRight(e)'
  <2>1. \A f \in Conn : conn'[f].thr = w => e = f
    BY <1>5, <1>13 DEF EndRests
  <2>2. w \in Waiting(Owner[e])'
    BY <1>3, <1>17
  <2>3. thread'[w].wakeup = 0 /\ thread'[w].original_tid = conn'[e].msg.tid
    BY <1>4, <1>5, <1>9, <1>10 DEF SameBox
  <2>4. conn'[e].thr \in Worker /\ Registrations(conn[e].thr)' = {}
    BY <1>5, <1>10, <1>19
  <2>5. w \in Created'
    BY <1>5, <1>9 DEF Created
  <2>6. Process(conn'[e].thr) = Owner[e] /\ conn'[e].thr \in Created'
    BY <1>3, <1>5, <1>10, <2>5
  <2> QED
    BY <1>10, <2>1, <2>2, <2>3, <2>4, <2>6 DEF TargetRight, Process, Aims, Aiming
<1>22. Targets' /\ Counted' /\ JustCalled'
  <2>1. ASSUME NEW q \in Proc, NEW other, q = p => other # tid, NobodyWaits(q, other)
        PROVE  NobodyWaits(q, other)'
    <3>1. \A u \in Waiting(q)' : thread'[u].original_tid # other
      <4> SUFFICES ASSUME NEW u \in Waiting(q)' PROVE thread'[u].original_tid # other
        OBVIOUS
      <4>1. CASE u = w
        <5>1. q = p
          <6>1. q # p => w \in Waiting(q)
            BY <1>17, <4>1
          <6>2. w \in Waiting(q) => Process(w) = q
            BY IInvParts DEF WaitingRight
          <6> QED
            BY <1>5, <6>1, <6>2
        <5> QED
          BY <1>9, <2>1, <4>1, <5>1
      <4>2. CASE u # w
        <5>1. u \in Waiting(q)
          BY <1>17, <4>2
        <5>2. u \in Thread
          BY <5>1, IInvParts, ListFacts DEF ListsAre
        <5> QED
          BY <1>11, <2>1, <4>2, <5>1, <5>2 DEF NobodyWaits
      <4> QED
        BY <4>1, <4>2
    <3> QED
      BY <3>1 DEF NobodyWaits
  <2>2. ASSUME NEW u \in Thread, NEW k \in CallId, AddsIt(u, k), NobodyWaits(Process(u), Tid[k[1]])
        PROVE  NobodyWaits(Process(u), Tid[k[1]])'
    <3>1. Pending(k) /\ k # id
      BY <1>8, <2>2 DEF AddsIt, Pending, IsOpen
    <3>2. Tid[k[1]] # tid
      BY <1>8, <3>1, OnePending
    <3>3. PICK q \in Proc : q = Process(u)
      BY Processes
    <3>4. NobodyWaits(q, Tid[k[1]])'
      BY <2>1, <2>2, <3>2, <3>3
    <3> QED
      BY <3>3, <3>4 DEF Process
  <2>3. ASSUME NEW f \in Conn, f # e, conn[f].reader \in {"worker", "add"}, NobodyWaits(Owner[f], conn[f].msg.tid)
        PROVE  NobodyWaits(Owner[f], conn[f].msg.tid)'
    <3>1. Holds(f)
      BY <2>3 DEF Holds, Holding
    <3>2. conn[f].msg.tid # tid
      BY <1>1, <1>4, <2>3, <3>1, OneHolds
    <3>3. PICK other : other = conn[f].msg.tid
      OBVIOUS
    <3>4. NobodyWaits(Owner[f], other)'
      BY <2>1, <2>3, <3>2, <3>3, OwnerFacts
    <3>5. conn'[f].msg.tid = other
      BY <1>13, <2>3, <3>3 DEF EndRests
    <3> QED
      BY <3>4, <3>5
  <2> DEFINE T == {w}
             E == {e}
  <2>4. (\A u : u \in T <=> u = w) /\ (\A f : f \in E <=> f = e)
    OBVIOUS
  <2> HIDE DEF E, T
  <2>5. \A u \in Thread : u \notin T =>
              Rests(u) /\ ((u \in Waiting(Process(u)))' <=> u \in Waiting(Process(u)))
    <3>1. \A u \in Thread : u \notin T => Rests(u)
      BY <1>2, <1>10, <1>11, <1>12, <2>4, ReaderOthersRest
    <3>2. \A u \in Thread : u # w => ((u \in Waiting(Process(u)))' <=> u \in Waiting(Process(u)))
      BY <1>17, Processes DEF Process
    <3> QED
      BY <2>4, <3>1, <3>2
  <2>6. \A u \in Thread : u \in T => ThreadCounted(u)' /\ CalledRight(u)'
    BY <1>20, <2>4
  <2>7. \A u \in Thread, k \in CallId : u \notin T /\ AddsIt(u, k) /\ rpc[k].client = "add" =>
              (NobodyWaits(Process(u), Tid[k[1]]) => NobodyWaits(Process(u), Tid[k[1]])')
    BY <2>2
  <2>8. \A f \in Conn : f \notin E => EndRests(f) /\ TargetRests(f)
    <3>1. \A f \in Conn : Aims(f) => conn[f].thr \in Thread
      BY AimedFacts
    <3>2. \A f \in Conn : f # e => TargetRests(f)
      BY <1>5, <1>11, <3>1 DEF TargetRests, SameBox
    <3> QED
      BY <1>13, <2>4, <3>2
  <2>9. \A f \in Conn : f \notin E /\ conn[f].reader \in {"worker", "add"} =>
              (NobodyWaits(Owner[f], conn[f].msg.tid) => NobodyWaits(Owner[f], conn[f].msg.tid)')
    BY <2>3, <2>4
  <2>10. \A f \in Conn : f \notin E /\ conn[f].reader \in {"add", "count"} => conn[f].thr \notin T
    BY <1>5, <2>4
  <2>11. \A f \in Conn : f \in E =>
              /\ TargetRight(f)'
              /\ \/ conn'[f].thr = conn[f].thr \/ conn'[f].thr = None
                 \/ \A g \in Conn : g # f => conn[g].thr # conn'[f].thr
    BY <1>2, <1>10, <1>21, <2>4
  <2>12. \A u \in Created : u \in Created'
    BY <1>9 DEF Created
  <2> QED
    BY <1>9, <1>13, <1>16, <2>5, <2>6, <2>7, <2>8, <2>9, <2>10, <2>11, <2>12, RestThreads
<1>23. Registry'
  BY <1>18, <1>22 DEF Registry
<1> QED
  BY <1>9, <1>13, <1>15, <1>16, <1>23, Together

-----------------------------------------------------------------------------
(* Every step.                                                             *)

\* What a thread or a reader does when something has failed does not happen.
LEMMA ThreadNever ==
    ASSUME IInv, NEW t \in Thread, NEW id \in CallId
    PROVE  ~Unsent(t, id) /\ ~TakeReturnThrown(t, id) /\ ~CallOutEmit(t, id) /\ ~Terminate(t, id)
<1>1. rpc[id].client # "unsent" /\ rpc[id].server \notin {"thrown", "emit"}
  BY IInvParts DEF Calm
<1>2. rpc[id].server = "leave" => rpc[id].served = "Success"
  BY CallFacts DEF Through
<1> QED
  BY <1>1, <1>2 DEF Unsent, TakeReturnThrown, CallOutEmit, Terminate, Calling, Serving

\* Nor what a reader does when its stream has failed.
LEMMA ReaderNever ==
    ASSUME IInv, NothingFails, NEW e \in Conn
    PROVE  /\ ~RecvDisconnected(e) /\ ~Garbled(e) /\ ~NotifyDisconnect(e)
           /\ ~ReaderCleanup(e) /\ ~ReaderEmit(e) /\ ~ReaderExit(e) /\ ~Break(e)
<1>1. conn[e].reader \in CalmReader /\ wire[e].readable
  BY IInvParts DEF Calm
<1>2. conn[e].reader = "find" => conn[e].msg.cmd = "CmdReturn"
  BY IInvParts DEF InReader, Holds, Holding
<1> QED
  BY <1>1, <1>2 DEF CalmReader, RecvDisconnected, Garbled, NotifyDisconnect, ReaderCleanup,
                    ReaderEmit, ReaderExit, Break, Reading, NothingFails

\* Whatever the frame on top of a stack does keeps the invariant.
LEMMA ThreadRunsKeeps ==
    ASSUME IInv, NothingFails, TidsDiffer, NEW t \in Thread, NEW id \in CallId, ThreadRuns(t, id)
    PROVE  IInv'
<1>1. CASE Acquire(t, id)
  BY <1>1, AcquireKeeps
<1>2. CASE Register(t, id)
  BY <1>2, RegisterKeeps
<1>3. CASE CountFirst(t, id)
  BY <1>3, CountFirstKeeps
<1>4. CASE Send(t, id)
  BY <1>4, SendKeeps
<1>5. CASE Write(t, id)
  BY <1>5, WriteKeeps
<1>6. CASE TakeReturn(t, id)
  BY <1>6, TakeReturnKeeps
<1>7. CASE Return(t, id)
  BY <1>7, ReturnKeeps
<1>8. CASE EndHandler(t, id)
  BY <1>8, EndHandlerKeeps
<1>9. CASE Release(t, id)
  BY <1>9, ReleaseKeeps
<1>10. CASE Reply(t, id)
  BY <1>10, ReplyKeeps
<1>11. CASE WriteReply(t, id)
  BY <1>11, WriteReplyKeeps
<1>12. CASE CallOut(t, id)
  BY <1>12, CallOutKeeps
<1>13. CASE CallOutCleanup(t, id)
  BY <1>13, CallOutCleanupKeeps
<1>14. CASE Leave(t, id)
  BY <1>14, LeaveKeeps
<1> QED
  BY <1>1, <1>2, <1>3, <1>4, <1>5, <1>6, <1>7, <1>8, <1>9, <1>10, <1>11, <1>12, <1>13, <1>14,
     ThreadNever DEF ThreadRuns

\* Whatever a thread does keeps the invariant.
LEMMA ServesKeeps ==
    ASSUME IInv, NothingFails, TidsDiffer, NEW t \in Thread, Serves(t) PROVE IInv'
<1>1. CASE HandleCall(t)
  BY <1>1, HandleCallKeeps
<1>2. CASE thread[t].stack # <<>> /\ ThreadRuns(t, Last(thread[t].stack)[2])
  <2>1. thread[t].stack \in Seq(Frame)
    <3>1. thread[t] \in ThreadRec
      BY IInvParts DEF TypeOK
    <3> QED
      BY <3>1 DEF ThreadRec
  <2>2. Last(thread[t].stack) \in Frame
    BY <1>2, <2>1, FrontFacts
  <2>3. Last(thread[t].stack)[2] \in CallId
    BY <2>2 DEF Frame
  <2> QED
    BY <1>2, <2>3, ThreadRunsKeeps
<1> QED
  BY <1>1, <1>2 DEF Serves

\* Whatever a reader does keeps the invariant.
LEMMA ReaderRunsKeeps ==
    ASSUME IInv, NothingFails, TidsDiffer, NEW e \in Conn, ReaderRuns(e) PROVE IInv'
<1>1. CASE ReaderCheck(e)
  BY <1>1, ReaderCheckKeeps
<1>2. CASE RecvMessage(e)
  BY <1>2, RecvMessageKeeps
<1>3. CASE AcquireWaiting(e)
  BY <1>3, AcquireWaitingKeeps
<1>4. CASE GetFreeWorker(e)
  BY <1>4, GetFreeWorkerKeeps
<1>5. CASE RegisterWorker(e)
  BY <1>5, RegisterWorkerKeeps
<1>6. CASE CountWorker(e)
  BY <1>6, CountWorkerKeeps
<1>7. CASE FindWaiting(e)
  BY <1>7, FindWaitingKeeps
<1>8. CASE Deliver(e)
  BY <1>8, DeliverKeeps
<1>9. CASE Post(e)
  BY <1>9, PostCallKeeps, PostReturnKeeps
<1> QED
  BY <1>1, <1>2, <1>3, <1>4, <1>5, <1>6, <1>7, <1>8, <1>9, ReaderNever DEF ReaderRuns

\* Nothing happens.
LEMMA StutterKeeps == ASSUME IInv, UNCHANGED vars PROVE IInv'
<1>1. UNCHANGED <<waiting_threads, free_workers, nworkers, thread, conn, wire, rpc, aborted>>
  BY DEF vars
<1>2. TypeOK'
  BY <1>1, IInvParts DEF TypeOK
<1>3. Calm'
  BY <1>1, IInvParts DEF Calm, ViasRight, ServedAt
<1>4. StacksRight'
  <2>1. CallsStay
    BY <1>1 DEF CallsStay, UsedStay
  <2> QED
    BY <2>1, IInvParts, CallsStayStacks
<1>5. \A u \in Thread : /\ thread'[u].stack = thread[u].stack /\ SameBox(u) /\ SameId(u)
                        /\ thread'[u].original_tid = thread[u].original_tid
  BY <1>1 DEF SameBox, SameId
<1>6. WireStays /\ \A e \in Conn : EndRests(e)
  BY <1>1 DEF WireStays, EndRests
<1>7. Messages'
  <2>1. \A k \in CallId : MessageOf(k) => CallWaits(k)
    BY <1>1 DEF CallWaits
  <2> QED
    BY <1>5, <1>6, <2>1, IInvParts, BoxesRestMessages
<1>8. Registry'
  <2>1. \A k \in CallId : CallRests(k)
    BY <1>1 DEF CallRests
  <2> QED
    BY <1>1, <1>2, <1>5, <1>6, <1>7, <2>1, OnlyCallsRegistry
<1>9. ConnsCounted'
  <2>1. \A k \in CallId : CallStays(k)
    BY <1>1 DEF CallStays, IsOpen
  <2>2. \A e \in Conn : SameCounts(e)
    BY <1>1 DEF SameCounts
  <2> QED
    BY <2>1, <2>2, IInvParts, ConnsStay
<1> QED
  BY <1>2, <1>3, <1>4, <1>7, <1>8, <1>9, Together

\* The invariant is inductive.
LEMMA NextKeeps == NothingFails /\ TidsDiffer /\ IInv /\ [Next]_vars => IInv'
<1> SUFFICES ASSUME NothingFails, TidsDiffer, IInv, [Next]_vars PROVE IInv'
  OBVIOUS
<1>1. CASE UNCHANGED vars
  BY <1>1, StutterKeeps
<1>2. ASSUME NEW t \in Created, NEW s \in Service, ClientCall(t, s) PROVE IInv'
  <2>1. t \in Thread
    BY DEF Created, Thread
  <2> QED
    BY <1>2, <2>1, ClientCallKeeps
<1>3. ASSUME NEW t \in Created, Serves(t) PROVE IInv'
  <2>1. t \in Thread
    BY DEF Created, Thread
  <2> QED
    BY <1>3, <2>1, ServesKeeps
<1>4. ASSUME NEW e \in Conn, ReaderRuns(e) PROVE IInv'
  BY <1>4, ReaderRunsKeeps
<1>5. ASSUME NEW e \in Conn, Break(e) PROVE IInv'
  BY <1>5, ReaderNever
<1>6. CASE Quiescent
  BY <1>6, StutterKeeps DEF Quiescent
<1> QED
  BY <1>1, <1>2, <1>3, <1>4, <1>5, <1>6 DEF Next

-----------------------------------------------------------------------------
(* At the start.                                                           *)

\* Nobody calls, nothing is under way, and the workers there are are free.
AllRest ==
    /\ \A p \in Proc : Waiting(p) = {} /\ waiting_threads[p] = <<>>
    /\ \A p \in Proc : \/ free_workers[p] = <<>> /\ Frees(p) = {} /\ nworkers[p] = 0
                       \/ free_workers[p] = << <<p, 1>> >> /\ Frees(p) = {<<p, 1>>} /\ nworkers[p] = 1
    /\ \A t \in Thread :
         /\ thread[t].stack = <<>> /\ Len(thread[t].stack) = 0 /\ Frames(t) = {}
         /\ thread[t].wakeup = 0 /\ thread[t].recursion_count = 0
         /\ thread[t].used_connection = None
         /\ t \in Client => thread[t].original_tid = Tid[t]
    /\ \A e \in Conn :
         /\ conn[e].reader = "read" /\ conn[e].thr = None /\ conn[e].state = "Active"
         /\ conn[e].ref_cnt = 3 /\ conn[e].incoming_calls_cnt = 0
         /\ wire[e].queue = <<>> /\ Len(wire[e].queue) = 0 /\ wire[e].readable /\ wire[e].writable
    /\ \A id \in CallId : /\ rpc[id].client = "none" /\ rpc[id].server = "none"
                          /\ rpc[id].reply = None
    /\ aborted = {}

\* At the start every variable has its type, and everything rests.
LEMMA InitRests == Init => TypeOK /\ AllRest
<1> SUFFICES ASSUME Init PROVE TypeOK /\ AllRest
  OBVIOUS
<1>1. MaxWorkers \in Nat /\ 1 <= MaxWorkers
  BY ThreadAssumption
<1>2. \A p \in Proc : <<p, 1>> \in Worker
  BY <1>1 DEF Worker
<1>3. waiting_threads = [p \in Proc |-> <<>>]
  BY DEF Init
<1>4. free_workers = [p \in Proc |-> IF p \in Servers THEN << <<p, 1>> >> ELSE <<>>]
  BY DEF Init
<1>5. nworkers = [p \in Proc |-> IF p \in Servers THEN 1 ELSE 0]
  BY DEF Init
<1>6. thread = [t \in Thread |->
         [recursion_count |-> 0,
          original_tid |-> IF t \in Client THEN Tid[t] ELSE None,
          used_connection |-> None, wakeup |-> 0, wakeup_data |-> NoMsg,
          wakeup_conn |-> None, stack |-> <<>>]]
  BY DEF Init
<1>7. conn = [e \in Conn |->
         [state |-> "Active", ref_cnt |-> 3, incoming_calls_cnt |-> 0,
          reader |-> "read", msg |-> NoMsg, thr |-> None,
          disconnects |-> 0, cleanups |-> 0]]
  BY DEF Init
<1>8. wire = [e \in Conn |-> [queue |-> <<>>, readable |-> TRUE, writable |-> TRUE]]
  BY DEF Init
<1>9. rpc = [id \in CallId |->
         [client |-> "none", server |-> "none", conn |-> None, used |-> None,
          tid |-> None, rtid |-> None, res |-> None, served |-> None, reply |-> None,
          via |-> None]]
  BY DEF Init
<1>10. aborted = {}
  BY DEF Init
<1>11. TypeOK
  <2>1. waiting_threads \in [Proc -> Seq(Thread)]
    BY <1>3
  <2>2. free_workers \in [Proc -> Seq(Worker)]
    <3>1. \A w \in Worker : <<w>> \in Seq(Worker)
      OBVIOUS
    <3>2. <<>> \in Seq(Worker)
      OBVIOUS
    <3>3. \A p \in Proc : << <<p, 1>> >> \in Seq(Worker)
      BY <1>2, <3>1
    <3> QED
      BY <1>4, <3>2, <3>3
  <2>3. nworkers \in [Proc -> 0..MaxWorkers]
    BY <1>5, <1>1
  <2>4. thread \in [Thread -> ThreadRec]
    <3>1. \A t \in Client : Tid[t] \in TidValue
      BY DEF TidValue
    <3>2. <<>> \in Seq(Frame)
      OBVIOUS
    <3> QED
      BY <1>6, <3>1, <3>2 DEF ThreadRec
  <2>5. conn \in [Conn -> ConnRec]
    BY <1>7 DEF ConnRec, ReaderPC
  <2>6. wire \in [Conn -> WireRec]
    BY <1>8 DEF WireRec
  <2>7. rpc \in [CallId -> RpcRec]
    BY <1>9 DEF RpcRec, ClientPC, ServerPC
  <2>8. aborted \subseteq Proc
    BY <1>10
  <2> QED
    BY <2>1, <2>2, <2>3, <2>4, <2>5, <2>6, <2>7, <2>8 DEF TypeOK
<1>12. AllRest
  <2>1. \A p \in Proc : Waiting(p) = {} /\ waiting_threads[p] = <<>>
    BY <1>3 DEF Waiting
  <2>2. ASSUME NEW p \in Proc
        PROVE  \/ free_workers[p] = <<>> /\ Frees(p) = {} /\ nworkers[p] = 0
               \/ free_workers[p] = << <<p, 1>> >> /\ Frees(p) = {<<p, 1>>} /\ nworkers[p] = 1
    <3>1. CASE p \in Servers
      <4>1. free_workers[p] = << <<p, 1>> >> /\ nworkers[p] = 1
        BY <3>1, <1>4, <1>5
      <4>2. DOMAIN free_workers[p] = {1} /\ free_workers[p][1] = <<p, 1>>
        BY <4>1
      <4>3. Frees(p) = {<<p, 1>>}
        BY <4>2 DEF Frees
      <4> QED
        BY <4>1, <4>3
    <3>2. CASE p \notin Servers
      <4>1. free_workers[p] = <<>> /\ nworkers[p] = 0
        BY <3>2, <1>4, <1>5
      <4> QED
        BY <4>1 DEF Frees
    <3> QED
      BY <3>1, <3>2
  <2>3. \A t \in Thread :
         /\ thread[t].stack = <<>> /\ Len(thread[t].stack) = 0 /\ Frames(t) = {}
         /\ thread[t].wakeup = 0 /\ thread[t].recursion_count = 0
         /\ thread[t].used_connection = None
         /\ t \in Client => thread[t].original_tid = Tid[t]
    BY <1>6 DEF Frames
  <2>4. \A e \in Conn :
         /\ conn[e].reader = "read" /\ conn[e].thr = None /\ conn[e].state = "Active"
         /\ conn[e].ref_cnt = 3 /\ conn[e].incoming_calls_cnt = 0
    BY <1>7
  <2>5. \A e \in Conn : wire[e].queue = <<>> /\ Len(wire[e].queue) = 0 /\ wire[e].readable /\ wire[e].writable
    BY <1>8
  <2>6. \A id \in CallId : /\ rpc[id].client = "none" /\ rpc[id].server = "none"
                           /\ rpc[id].reply = None
    BY <1>9
  <2> QED
    BY <2>1, <2>2, <2>3, <2>4, <2>5, <2>6, <1>10 DEF AllRest
<1> QED
  BY <1>11, <1>12

\* The stacks are empty, and so is all that is said of calls and messages.
LEMMA RestStacks == AllRest => StacksRight /\ Messages /\ Calm
<1> SUFFICES ASSUME AllRest PROVE StacksRight /\ Messages /\ Calm
  OBVIOUS
<1>1. \A id \in CallId : ~IsOpen(id) /\ rpc[id].client = "none" /\ rpc[id].server = "none" /\ rpc[id].reply = None
  BY DEF AllRest, IsOpen
<1>2. \A t \in Thread : /\ thread[t].stack = <<>> /\ Len(thread[t].stack) = 0
                        /\ 1..Len(thread[t].stack) = {}
                        /\ thread[t].used_connection = None /\ ~Boxed(t)
  BY DEF AllRest, Boxed
<1>3. \A e \in Conn : /\ ~Holds(e) /\ Len(wire[e].queue) = 0 /\ 1..Len(wire[e].queue) = {}
  BY DEF AllRest, Holds, Holding
<1>4. EndsAgree
  BY <1>1 DEF EndsAgree, Through
<1>5. CallsNest
  BY <1>1, CallIds DEF CallsNest
<1>6. FramesApart /\ FramesPlaced /\ CallsFramed /\ InnerFramesWait
  BY <1>1, <1>2 DEF FramesApart, FramesPlaced, CallsFramed, InnerFramesWait
<1>7. FramesNest
  <2>1. \A t \in Thread : 1..Len(thread[t].stack) - 1 = {}
    BY <1>2
  <2> QED
    BY <1>2, <2>1 DEF FramesNest
<1>8. LaterAbove /\ FramesOwned
  BY <1>2 DEF LaterAbove, FramesOwned
<1>9. Covered
  BY <1>1, <1>2 DEF Covered
<1>10. UsedRight
  BY <1>2 DEF UsedRight
<1>11. OnWire /\ InReader /\ InBox
  BY <1>2, <1>3 DEF OnWire, InReader, InBox
<1>12. OneMessage
  BY <1>2, <1>3 DEF OneMessage
<1>13. Calm
  <2>1. \A e \in Conn : /\ conn[e].state = "Active" /\ conn[e].reader \in CalmReader
                        /\ wire[e].readable /\ wire[e].writable
    BY DEF AllRest, CalmReader
  <2>2. aborted = {}
    BY DEF AllRest
  <2>3. ViasRight
    BY <1>1 DEF ViasRight, Inside
  <2> QED
    BY <1>1, <2>1, <2>2, <2>3 DEF Calm
<1> QED
  BY <1>4, <1>5, <1>6, <1>7, <1>8, <1>9, <1>10, <1>11, <1>12, <1>13 DEF StacksRight, Messages

\* Nobody is registered, and the counters of each end are those of its holders.
LEMMA RestRegistries == TypeOK /\ AllRest => Registry /\ ConnsCounted
<1> SUFFICES ASSUME TypeOK, AllRest PROVE Registry /\ ConnsCounted
  OBVIOUS
<1>1. RegistrationsAre
  BY RegistrationFacts
<1>2. \A t \in Thread : /\ thread[t].stack = <<>> /\ Frames(t) = {}
                        /\ thread[t].wakeup = 0 /\ thread[t].recursion_count = 0
                        /\ t \in Client => thread[t].original_tid = Tid[t]
  BY DEF AllRest
<1>3. \A e \in Conn : conn[e].reader = "read" /\ conn[e].thr = None
  BY DEF AllRest
<1>4. \A k \in CallId : rpc[k].client = "none" /\ rpc[k].server = "none" /\ ~IsOpen(k)
  BY DEF AllRest, IsOpen
<1>5. ASSUME NEW t \in Thread PROVE Registrations(t) = {} /\ ~JustAdded(t)
  <2>1. \A k \in CallId : ~MakesIt(t, k) /\ ~ServesIt(t, k) /\ ~HasIt(t, k) /\ ~AddsIt(t, k)
    BY <1>2, <1>4 DEF MakesIt, ServesIt, HasIt, AddsIt
  <2>2. \A e \in Conn : ~GetsIt(t, e) /\ ~AddsWorker(t, e)
    BY <1>3 DEF GetsIt, AddsWorker
  <2> QED
    BY <1>1, <2>1, <2>2, ZenonT(60) DEF RegistrationsAre
<1>6. \A p \in Proc : Waiting(p) = {} /\ waiting_threads[p] = <<>> /\ DOMAIN waiting_threads[p] = {}
  BY DEF AllRest
<1>7. Targets
  BY <1>3 DEF Targets, Aims, Aiming
<1>8. WaitingRight
  <2>1. \A c \in Client : thread[c].original_tid = Tid[c]
    BY <1>2 DEF Thread
  <2> QED
    BY <1>6, <2>1 DEF WaitingRight, UniqueTid
<1>9. \A p \in Proc : \/ free_workers[p] = <<>> /\ Frees(p) = {} /\ nworkers[p] = 0
                      \/ free_workers[p] = << <<p, 1>> >> /\ Frees(p) = {<<p, 1>>} /\ nworkers[p] = 1
  BY DEF AllRest
<1>10. \A t \in Worker : t \in Thread /\ t \notin Client /\ Process(t) = t[1] /\ t[1] \in Proc
                         /\ t[2] \in Nat /\ t[2] >= 1 /\ t = <<t[1], t[2]>> /\ t # None
  BY ThreadAssumption, NoneAssumption DEF Thread, Worker, Process
<1>11. ASSUME NEW p \in Proc
       PROVE  /\ \A i, j \in 1..Len(free_workers[p]) : free_workers[p][i] = free_workers[p][j] => i = j
              /\ \A t \in Frees(p) :
                   /\ t \in Worker /\ t \in Created /\ Process(t) = p
                   /\ t \notin Waiting(p)
                   /\ \A e \in Conn : conn[e].thr # t
  <2>1. CASE free_workers[p] = <<>> /\ Frees(p) = {} /\ nworkers[p] = 0
    BY <2>1
  <2>2. CASE free_workers[p] = << <<p, 1>> >> /\ Frees(p) = {<<p, 1>>} /\ nworkers[p] = 1
    <3>1. Len(free_workers[p]) = 1
      BY <2>2
    <3>2. \A i, j \in 1..Len(free_workers[p]) : i = j
      BY <3>1
    <3>3. <<p, 1>> \in Worker
      BY ThreadAssumption DEF Worker
    <3>4. <<p, 1>> \in Created
      BY <2>2, <3>3 DEF Created
    <3> QED
      BY <2>2, <3>2, <3>3, <3>4, <1>3, <1>6, <1>10
  <2> QED
    BY <2>1, <2>2, <1>9
<1>12. FreeRight
  BY <1>11 DEF FreeRight
<1>13. WorkersKept
  <2>1. ASSUME NEW t \in Worker, t \in Created PROVE t \in Frees(t[1])
    <3>1. t[2] <= nworkers[t[1]]
      BY <2>1, <1>10 DEF Created
    <3>2. CASE nworkers[t[1]] = 0
      BY <3>1, <3>2, <1>10
    <3>3. CASE Frees(t[1]) = {<<t[1], 1>>} /\ nworkers[t[1]] = 1
      BY <3>1, <3>3, <1>10
    <3> QED
      BY <3>2, <3>3, <1>9, <1>10
  <2> QED
    BY <2>1, <1>2, <1>10 DEF WorkersKept
<1>14. Counted
  <2>1. \A t \in Thread : Process(t) \in Proc
    BY Processes
  <2>2. IsFiniteSet({}) /\ Cardinality({}) = 0
    BY FS_EmptySet
  <2> QED
    BY <1>5, <1>2, <1>6, <2>1, <2>2 DEF Counted
<1>15. JustCalled
  BY <1>2 DEF JustCalled
<1>16. ConnsCounted
  <2>1. \A e \in Conn : conn[e].ref_cnt = 3 /\ conn[e].incoming_calls_cnt = 0
    BY DEF AllRest
  <2>2. \A e \in Conn : Requests(e) = {} /\ Posted(e) = {} /\ Served(e) = {} /\ Incoming(e) = {}
    BY <1>4 DEF Requests, Posted, Served, Incoming, Inside
  <2>3. IsFiniteSet({}) /\ Cardinality({}) = 0
    BY FS_EmptySet
  <2> QED
    BY <2>1, <2>2, <2>3 DEF ConnsCounted
<1> QED
  BY <1>7, <1>8, <1>12, <1>13, <1>14, <1>15, <1>16 DEF Registry

\* The invariant holds at the start.
LEMMA InitHolds == Init => IInv
<1> SUFFICES ASSUME Init PROVE IInv
  OBVIOUS
<1>1. TypeOK /\ AllRest
  BY InitRests
<1>2. StacksRight /\ Messages /\ Calm
  BY <1>1, RestStacks
<1>3. Registry /\ ConnsCounted
  BY <1>1, RestRegistries
<1> QED
  BY <1>1, <1>2, <1>3 DEF IInv, Messages, Registry

-----------------------------------------------------------------------------
(* What processes that call each other can rely on.                        *)

\* The invariant of module CallsInvariant always holds, for any processes,
\* connections, clients and services: as long as all handlers succeed, no stream
\* fails and no two clients have the same thread id.
THEOREM AlwaysRight == ASSUME NothingFails, TidsDiffer PROVE SafeSpec => []IInv
<1>1. Init => IInv
  BY InitHolds
<1>2. IInv /\ [Next]_vars => IInv'
  BY NextKeeps
<1> QED
  BY <1>1, <1>2, PTL DEF SafeSpec

-----------------------------------------------------------------------------
(* What follows of it.                                                     *)

\* Every variable has its type: in particular no counter goes below zero.
THEOREM TypesKept == ASSUME NothingFails, TidsDiffer PROVE SafeSpec => []TypeOK
<1>1. IInv => TypeOK
  BY IInvParts
<1> QED
  BY <1>1, AlwaysRight, PTL

\* The one cell in which a message waits for its thread is not overwritten:
\* the thread that a reader writes to has none, and no other reader chose it.
THEOREM NeverOverwritten == ASSUME NothingFails, TidsDiffer PROVE SafeSpec => []NothingOverwritten
<1>1. IInv => NothingOverwritten
  <2> SUFFICES ASSUME IInv, NEW e \in Conn, conn[e].reader \in {"data", "post"}
      PROVE  thread[conn[e].thr].wakeup = 0 /\ \A f \in Conn \ {e} : conn[f].thr # conn[e].thr
    BY DEF NothingOverwritten
  <2>1. TargetRight(e)
    BY IInvParts, TargetsAre
  <2>2. Aims(e)
    BY DEF Aims, Aiming
  <2> QED
    BY <2>1, <2>2 DEF TargetRight
<1> QED
  BY <1>1, AlwaysRight, PTL

\* recursion_count is the number of a thread's registrations, and it is in the
\* list as long as there is one.
THEOREM CountsExact == ASSUME NothingFails, TidsDiffer PROVE SafeSpec => []RecursionCounted
<1>1. IInv => RecursionCounted
  <2> SUFFICES ASSUME IInv, NEW t \in Created, ~JustAdded(t)
      PROVE  /\ thread[t].recursion_count = Cardinality(Registrations(t))
             /\ t \in Waiting(Process(t)) <=> thread[t].recursion_count > 0
    BY DEF RecursionCounted
  <2>1. t \in Thread
    BY DEF Created, Thread
  <2>2. ThreadCounted(t)
    BY <2>1, IInvParts, CountedAre
  <2>3. IsFiniteSet(Registrations(t)) /\ thread[t].recursion_count = Cardinality(Registrations(t))
    BY <2>2 DEF ThreadCounted
  <2>4. t \in Waiting(Process(t)) <=> Registrations(t) # {}
    BY <2>2 DEF ThreadCounted
  <2>5. Cardinality(Registrations(t)) \in Nat
        /\ (Cardinality(Registrations(t)) = 0 <=> Registrations(t) = {})
    BY <2>3, FS_CardinalityType, FS_EmptySet
  <2> QED
    BY <2>3, <2>4, <2>5
<1> QED
  BY <1>1, AlwaysRight, PTL

\* A worker that may be given work runs no handler, is given to nobody else,
\* and no message can be for it.
THEOREM FreeAreFree == ASSUME NothingFails, TidsDiffer PROVE SafeSpec => []FreeWorkersAreFree
<1>1. IInv => FreeWorkersAreFree
  <2> SUFFICES ASSUME IInv, NEW p \in Proc
      PROVE  /\ IsInjective(free_workers[p])
             /\ \A t \in Frees(p) :
                  /\ t \notin Waiting(p)
                  /\ \A e \in Conn : conn[e].thr # t
                  /\ \A f \in Frames(t) :
                       f[1] = "handleCall" /\ rpc[f[2]].server \notin {"running", "release"}
    BY DEF FreeWorkersAreFree
  <2>1. FreeRight
    BY IInvParts
  <2>2. IsInjective(free_workers[p])
    <3>1. free_workers[p] \in Seq(Worker)
      BY IInvParts DEF TypeOK
    <3>2. DOMAIN free_workers[p] = 1..Len(free_workers[p])
      BY <3>1
    <3> QED
      BY <2>1, <3>2 DEF FreeRight, IsInjective
  <2>3. ASSUME NEW t \in Frees(p)
        PROVE  \A f \in Frames(t) : f[1] = "handleCall" /\ rpc[f[2]].server \notin {"running", "release"}
    <3>1. t \in Worker /\ Process(t) = p
      BY <2>1 DEF FreeRight
    <3>2. t[1] = p
      BY <3>1, ThreadAssumption DEF Process
    <3>3. t \in Thread /\ Registrations(t) = {}
      BY <3>1, <3>2, SpareFacts
    <3>4. \A i \in 1..Len(thread[t].stack) : ~Live(thread[t].stack[i])
      BY <3>1, <3>3, NoLiveFrames
    <3>5. /\ thread[t].stack \in Seq(Frame)
          /\ DOMAIN thread[t].stack = 1..Len(thread[t].stack)
      BY <3>3, IInvParts DEF TypeOK, ThreadRec
    <3>6. ASSUME NEW i \in 1..Len(thread[t].stack)
          PROVE  /\ thread[t].stack[i][1] = "handleCall"
                 /\ rpc[thread[t].stack[i][2]].server \notin {"running", "release"}
      <4>1. thread[t].stack[i] \in Frame
        BY <3>5
      <4> QED
        BY <3>4, <4>1 DEF Live, Frame
    <3> QED
      BY <3>5, <3>6 DEF Frames
  <2> QED
    BY <2>1, <2>2, <2>3 DEF FreeRight
<1> QED
  BY <1>1, AlwaysRight, PTL

\* No worker is lost: one that serves nothing and that nothing is for is free.
THEOREM NoneLost == ASSUME NothingFails, TidsDiffer PROVE SafeSpec => []NoWorkerLost
<1>1. IInv => NoWorkerLost
  <2> SUFFICES ASSUME IInv, NEW p \in Proc, NEW n \in 1..nworkers[p],
                      thread[<<p, n>>].stack = <<>>, thread[<<p, n>>].wakeup = 0,
                      \A e \in Conn : conn[e].thr # <<p, n>>
      PROVE  <<p, n>> \in Frees(p)
    BY DEF NoWorkerLost
  <2> DEFINE t == <<p, n>>
  <2>1. nworkers[p] \in 0..MaxWorkers
    BY IInvParts DEF TypeOK
  <2>2. t \in Worker /\ t \in Thread /\ t \notin Client /\ t[1] = p /\ t[2] = n /\ t # None
    BY <2>1, ThreadAssumption, NoneAssumption DEF Worker, Thread
  <2>3. t \in Created /\ Process(t) = p
    BY <2>2 DEF Created, Process
  <2>4. RegistrationsAre
    BY IInvParts, RegistrationFacts
  <2>5. thread[t].stack = <<>> /\ thread[t].wakeup = 0 /\ \A e \in Conn : conn[e].thr # t
    OBVIOUS
  <2> HIDE DEF t
  <2>6. Frames(t) = {}
    BY <2>5 DEF Frames
  <2>7. /\ \A k \in CallId : ~MakesIt(t, k) /\ ~ServesIt(t, k) /\ ~HasIt(t, k) /\ ~AddsIt(t, k)
        /\ \A e \in Conn : ~GetsIt(t, e) /\ ~AddsWorker(t, e)
    BY <2>5, <2>6 DEF MakesIt, ServesIt, HasIt, AddsIt, GetsIt, AddsWorker
  <2>8. Registrations(t) = {} /\ ~JustAdded(t)
    <3>1. \A x \in Registrations(t) :
            \/ \E k \in CallId : x = <<"client_call", k>> \/ x = <<"handleCall", k>> \/ x = <<"posted", k>>
            \/ \E e \in Conn : x = <<"reader", e>>
      BY <2>2, <2>4 DEF RegistrationsAre
    <3>2. \A k \in CallId : /\ <<"client_call", k>> \notin Registrations(t)
                            /\ <<"handleCall", k>> \notin Registrations(t)
                            /\ <<"posted", k>> \notin Registrations(t)
      BY <2>2, <2>4, <2>7 DEF RegistrationsAre
    <3>3. \A e \in Conn : <<"reader", e>> \notin Registrations(t)
      BY <2>2, <2>4, <2>7 DEF RegistrationsAre
    <3>4. JustAdded(t) <=> (\E k \in CallId : AddsIt(t, k)) \/ (\E e \in Conn : AddsWorker(t, e))
      BY <2>2, <2>4 DEF RegistrationsAre
    <3>5. Registrations(t) = {}
      BY <3>1, <3>2, <3>3
    <3> QED
      BY <3>4, <3>5, <2>7
  <2>9. t \notin Waiting(p)
    <3>1. ThreadCounted(t)
      BY <2>2, IInvParts, CountedAre
    <3> QED
      BY <2>3, <2>8, <3>1 DEF ThreadCounted
  <2>10. t \in Frees(p) \/ t \in Waiting(p) \/ \E e \in Conn : conn[e].reader = "add" /\ conn[e].thr = t
    BY <2>2, <2>3, IInvParts DEF WorkersKept
  <2>11. t \in Frees(p)
    BY <2>5, <2>9, <2>10
  <2> QED
    BY <2>11 DEF t
<1> QED
  BY <1>1, AlwaysRight, PTL

\* A thread id names at most one thread of a process.
THEOREM TidsUnique == ASSUME NothingFails, TidsDiffer PROVE SafeSpec => []UniqueTid
<1>1. IInv => UniqueTid
  BY IInvParts DEF WaitingRight
<1> QED
  BY <1>1, AlwaysRight, PTL

\* In the client's own process all calls of its chain run on the client itself.
THEOREM CallbacksOnCaller == ASSUME NothingFails, TidsDiffer PROVE SafeSpec => []CallbackOnCaller
<1>1. IInv => CallbackOnCaller
  <2> SUFFICES ASSUME IInv, NEW t \in Thread, NEW f \in Frames(t), Process(t) = Home[f[2][1]]
      PROVE  t = f[2][1]
    BY DEF CallbackOnCaller
  <2>1. PICK i \in 1..Len(thread[t].stack) : thread[t].stack[i] = f
    BY IInvParts DEF Frames, StacksTyped
  <2> QED
    BY <2>1, IInvParts DEF FramesOwned
<1> QED
  BY <1>1, AlwaysRight, PTL

\* While a handler runs, getUsedConnection() is the connection its call came over.
THEOREM UsedKept == ASSUME NothingFails, TidsDiffer PROVE SafeSpec => []OriginKept
<1>1. IInv => OriginKept
  <2> SUFFICES ASSUME IInv, NEW t \in Thread, NEW id \in CallId, Serving(t, id, "running")
      PROVE  thread[t].used_connection = ServedAt(id)
    BY DEF OriginKept
  <2> QED
    BY IInvParts DEF UsedRight, Serving
<1> QED
  BY <1>1, AlwaysRight, PTL

\* A return ends the call that it is the return of, though it only carries the
\* thread id.
THEOREM RepliesFindCalls == ASSUME NothingFails, TidsDiffer PROVE SafeSpec => []ReplyFindsItsCall
<1>1. IInv => ReplyFindsItsCall
  BY IInvParts DEF EndsAgree, ReplyFindsItsCall
<1> QED
  BY <1>1, AlwaysRight, PTL

\* The assertions of the reader and of the workers hold: for each return some
\* thread waits, and no worker is woken by one.
THEOREM NoneAborts == ASSUME NothingFails, TidsDiffer PROVE SafeSpec => []NoAssertionFails
<1>1. IInv => NoAssertionFails
  BY IInvParts DEF Calm, NoAssertionFails
<1> QED
  BY <1>1, AlwaysRight, PTL

\* However often a chain of calls passes through a process, it does so on one
\* thread.
THEOREM OneThreadEach == ASSUME NothingFails, TidsDiffer PROVE SafeSpec => []OneThreadPerChain
<1>1. IInv => OneThreadPerChain
  <2> SUFFICES ASSUME IInv, NEW t \in Thread, NEW u \in Thread, t # u, Process(t) = Process(u),
                      NEW f \in Frames(t), NEW g \in Frames(u), f[2][1] = g[2][1],
                      Live(f), Live(g)
      PROVE  FALSE
    <3>1. IInv => \A x \in Thread : \A h \in Frames(x) : h[1] \in {"client_call", "handleCall"}
      <4>1. ASSUME IInv, NEW x \in Thread, NEW h \in Frames(x)
            PROVE  h[1] \in {"client_call", "handleCall"}
        <5>1. h \in Frame
          BY <4>1, IInvParts DEF Frames, StacksTyped
        <5> QED
          BY <5>1 DEF Frame
      <4> QED
        BY <4>1
    <3> QED
      BY <3>1 DEF OneThreadPerChain, Live
  <2> DEFINE c == f[2][1]
  <2>1. ASSUME NEW x \in Thread, NEW h \in Frames(x), Live(h), x # h[2][1]
        PROVE  x \in Waiting(Process(x)) /\ thread[x].original_tid = Tid[h[2][1]]
    <3>1. h \in Frame
      BY IInvParts DEF Frames, StacksTyped
    <3>2. PICK k \in CallId : h = <<"client_call", k>> \/ h = <<"handleCall", k>>
      BY <3>1 DEF Frame
    <3>3. CASE h = <<"handleCall", k>>
      <4>1. ServesIt(x, k)
        BY <2>1, <3>3 DEF ServesIt, Live
      <4> QED
        BY <4>1, <3>3, ServesRegistered
    <3>4. CASE h = <<"client_call", k>>
      <4>1. PICK l \in CallId : ServesIt(x, l) /\ Before(l, k)
        BY <2>1, <3>4, BelowCall
      <4> QED
        BY <4>1, <3>4, ServesRegistered DEF Before
    <3> QED
      BY <3>2, <3>3, <3>4
  <2>2. ASSUME NEW x \in Thread, NEW h \in Frames(x), Process(x) = Home[h[2][1]] PROVE x = h[2][1]
    <3>1. PICK i \in 1..Len(thread[x].stack) : thread[x].stack[i] = h
      BY IInvParts DEF Frames, StacksTyped
    <3> QED
      BY <2>2, <3>1, IInvParts DEF FramesOwned
  <2>3. f[2] \in CallId /\ c \in Client
    <3>1. f \in Frame
      BY IInvParts DEF Frames, StacksTyped
    <3>2. f[2] \in CallId
      BY <3>1 DEF Frame
    <3> QED
      BY <3>2, CallIds
  <2>4. Process(c) = Home[c]
    BY <2>3 DEF Process
  <2>5. t # c /\ u # c
    <3>1. t = c => u = c
      BY <2>2, <2>4
    <3>2. u = c => t = c
      BY <2>2, <2>4
    <3> QED
      BY <3>1, <3>2
  <2>6. t \in Waiting(Process(t)) /\ u \in Waiting(Process(t)) /\ thread[t].original_tid = thread[u].original_tid
    BY <2>1, <2>5
  <2>7. Process(t) \in Proc
    BY Processes
  <2>8. Listed(Process(t))
    BY <2>7, IInvParts, UniqueTidIs DEF WaitingRight
  <2> QED
    BY <2>6, <2>8 DEF Listed
<1> QED
  BY <1>1, AlwaysRight, PTL

-----------------------------------------------------------------------------
(* How many workers a process needs.                                       *)

Elsewhere(p) == {c \in Client : Home[c] # p}

\* Worker w is registered for client c, or a reader is about to register it.
HoldsFor(w, c) ==
    \/ w \in Waiting(w[1]) /\ thread[w].original_tid = Tid[c]
    \/ \E e \in Conn : conn[e].reader = "add" /\ conn[e].thr = w /\ conn[e].msg.tid = Tid[c]

\* A worker is a thread of its process, and no client.
LEMMA WorkerFacts ==
    \A t \in Worker : t \in Thread /\ t \notin Client /\ Process(t) = t[1] /\ t[1] \in Proc
BY ThreadAssumption DEF Thread, Worker, Process

\* A worker that waits does so for a client elsewhere.
LEMMA WaitsElsewhere ==
    ASSUME IInv, NEW w \in Worker, w \in Waiting(w[1])
    PROVE  \E c \in Elsewhere(w[1]) : HoldsFor(w, c)
<1>1. w \in Thread /\ w \notin Client /\ Process(w) = w[1] /\ w[1] \in Proc
  BY WorkerFacts
<1>2. RegistrationsAre
  BY IInvParts, RegistrationFacts
<1>3. \A e \in Conn : TargetRight(e)
  BY IInvParts, TargetsAre
<1>4. \E k \in CallId : thread[w].original_tid = Tid[k[1]]
  <2>1. ASSUME NEW e \in Conn, conn[e].thr = w, conn[e].reader \in {"count", "data", "post"}
        PROVE  \E k \in CallId : thread[w].original_tid = Tid[k[1]]
    <3>1. thread[w].original_tid = conn[e].msg.tid
      BY <2>1, <1>3 DEF TargetRight
    <3>2. Holds(e)
      BY <2>1 DEF Holds, Holding
    <3> QED
      BY <3>1, <3>2, ReaderPending
  <2>2. ASSUME NEW e \in Conn, AddsWorker(w, e) PROVE conn[e].thr = w /\ conn[e].reader = "count"
    <3>1. conn[e].thr = w /\ conn[e].reader \in {"add", "count"}
      BY <2>2 DEF AddsWorker
    <3>2. Owner[e] = Process(w)
      BY <3>1, <1>3 DEF TargetRight, Aims, Aiming
    <3>3. conn[e].reader # "add"
      BY <3>1, <3>2, <1>1, <1>3, ZenonT(60) DEF TargetRight
    <3> QED
      BY <3>1, <3>3
  <2>3. \A k \in CallId : ~AddsIt(w, k)
    BY <1>1, AddingFacts
  <2>4. CASE JustAdded(w)
    <3>1. PICK e \in Conn : AddsWorker(w, e)
      BY <2>3, <2>4, <1>1, <1>2 DEF RegistrationsAre
    <3> QED
      BY <3>1, <2>1, <2>2
  <2>5. CASE ~JustAdded(w)
    <3>1. ThreadCounted(w)
      BY <1>1, IInvParts, CountedAre
    <3>2. Registrations(w) # {}
      BY <3>1, <2>5, <1>1 DEF ThreadCounted
    <3>3. PICK x \in Registrations(w) : TRUE
      BY <3>2
    <3>4. \/ \E k \in CallId : x = <<"client_call", k>> \/ x = <<"handleCall", k>> \/ x = <<"posted", k>>
          \/ \E e \in Conn : x = <<"reader", e>>
      BY <3>3, <1>1, <1>2 DEF RegistrationsAre
    <3>5. ASSUME NEW k \in CallId, x = <<"client_call", k>>
          PROVE  thread[w].original_tid = Tid[k[1]]
      <4>1. MakesIt(w, k)
        BY <3>3, <3>5, <1>1, <1>2 DEF RegistrationsAre
      <4>2. rpc[k].client \notin {"add", "count"}
        BY <4>1, <2>3 DEF MakesIt, AddsIt
      <4> QED
        BY <4>1, <4>2, <1>1, MakesRegistered
    <3>6. ASSUME NEW k \in CallId, x = <<"handleCall", k>>
          PROVE  thread[w].original_tid = Tid[k[1]]
      <4>1. ServesIt(w, k)
        BY <3>3, <3>6, <1>1, <1>2 DEF RegistrationsAre
      <4> QED
        BY <4>1, <1>1, ServesRegistered
    <3>7. ASSUME NEW k \in CallId, x = <<"posted", k>>
          PROVE  thread[w].original_tid = Tid[k[1]]
      <4>1. HasIt(w, k)
        BY <3>3, <3>7, <1>1, <1>2 DEF RegistrationsAre
      <4>2. Boxed(w) /\ thread[w].wakeup_data.id = k
        BY <4>1 DEF HasIt, Boxed
      <4> QED
        BY <4>2, <1>1, BoxPending
    <3>8. ASSUME NEW e \in Conn, x = <<"reader", e>>
          PROVE  \E k \in CallId : thread[w].original_tid = Tid[k[1]]
      <4>1. GetsIt(w, e)
        BY <3>3, <3>8, <1>1, <1>2 DEF RegistrationsAre
      <4> QED
        BY <4>1, <2>1 DEF GetsIt
    <3> QED
      BY <3>4, <3>5, <3>6, <3>7, <3>8
  <2> QED
    BY <2>4, <2>5
<1>5. PICK k \in CallId : thread[w].original_tid = Tid[k[1]]
  BY <1>4
<1>6. PICK c \in Client : c = k[1]
  BY Clients
<1>7. Home[c] # w[1]
  <2>1. WaitingRight
    BY IInvParts
  <2>2. Home[c] = w[1] => w = c
    BY <2>1, <1>1, <1>5, <1>6 DEF WaitingRight
  <2> QED
    BY <2>2, <1>1
<1> QED
  BY <1>5, <1>6, <1>7 DEF Elsewhere, HoldsFor

\* A reader that looks for a worker, or has found one, does so for a client
\* elsewhere, under whose thread id nobody waits yet.
LEMMA CallsElsewhere ==
    ASSUME IInv, NEW e \in Conn, conn[e].reader \in {"worker", "add"}
    PROVE  /\ \E c \in Elsewhere(Owner[e]) : conn[e].msg.tid = Tid[c]
           /\ NobodyWaits(Owner[e], conn[e].msg.tid)
           /\ Holds(e)
<1>1. Holds(e)
  BY DEF Holds, Holding
<1>2. TargetRight(e)
  BY IInvParts, TargetsAre
<1>3. NobodyWaits(Owner[e], conn[e].msg.tid)
  BY <1>2 DEF TargetRight
<1>4. PICK k \in CallId : k = conn[e].msg.id /\ rpc[k].client = "wait" /\ conn[e].msg.tid = Tid[k[1]]
  BY <1>1, ReaderPending
<1>5. k[1] \in Client /\ k[1] \in Waiting(Home[k[1]]) /\ thread[k[1]].original_tid = Tid[k[1]]
  BY <1>4, ClientWaits, Clients
<1>6. Home[k[1]] # Owner[e]
  BY <1>3, <1>4, <1>5 DEF NobodyWaits
<1> QED
  BY <1>1, <1>3, <1>4, <1>5, <1>6 DEF Elsewhere

\* No two workers of a process are held for one client.
LEMMA HeldApart ==
    ASSUME IInv, TidsDiffer, NEW v \in Worker, NEW w \in Worker, v[1] = w[1],
           NEW c \in Client, HoldsFor(v, c), HoldsFor(w, c)
    PROVE  v = w
<1>1. /\ v \in Thread /\ Process(v) = v[1] /\ v[1] \in Proc
      /\ w \in Thread /\ Process(w) = w[1] /\ w[1] \in Proc
  BY WorkerFacts
<1>2. ASSUME NEW x \in Worker, Process(x) = x[1], NEW e \in Conn, conn[e].reader = "add", conn[e].thr = x
      PROVE  /\ Owner[e] = x[1] /\ NobodyWaits(x[1], conn[e].msg.tid) /\ Holds(e)
  <2>1. TargetRight(e)
    BY IInvParts, TargetsAre
  <2>2. Owner[e] = x[1]
    BY <1>2, <2>1 DEF TargetRight, Aims, Aiming
  <2> QED
    BY <1>2, <2>2, CallsElsewhere
<1>3. ASSUME v \in Waiting(v[1]), thread[v].original_tid = Tid[c],
             w \in Waiting(w[1]), thread[w].original_tid = Tid[c]
      PROVE  v = w
  <2>1. Listed(v[1])
    BY <1>1, IInvParts, UniqueTidIs DEF WaitingRight
  <2> QED
    BY <1>3, <2>1 DEF Listed
<1>4. ASSUME NEW e \in Conn, conn[e].reader = "add", conn[e].thr = v, conn[e].msg.tid = Tid[c],
             NEW f \in Conn, conn[f].reader = "add", conn[f].thr = w, conn[f].msg.tid = Tid[c]
      PROVE  v = w
  <2>1. Holds(e) /\ Holds(f)
    BY <1>1, <1>2, <1>4
  <2>2. e = f
    BY <1>4, <2>1, OneHolds
  <2> QED
    BY <1>4, <2>2
<1>5. ASSUME NEW e \in Conn, conn[e].reader = "add", conn[e].thr = v, conn[e].msg.tid = Tid[c],
             w \in Waiting(w[1]), thread[w].original_tid = Tid[c]
      PROVE  FALSE
  BY <1>1, <1>2, <1>5 DEF NobodyWaits
<1>6. ASSUME NEW e \in Conn, conn[e].reader = "add", conn[e].thr = w, conn[e].msg.tid = Tid[c],
             v \in Waiting(v[1]), thread[v].original_tid = Tid[c]
      PROVE  FALSE
  BY <1>1, <1>2, <1>6 DEF NobodyWaits
<1> QED
  BY <1>3, <1>4, <1>5, <1>6 DEF HoldsFor

\* A process that creates a worker has fewer than there are clients elsewhere.
LEMMA RoomForWorker ==
    ASSUME IInv, TidsDiffer, IsFiniteSet(Client), NEW e \in Conn, conn[e].reader = "worker",
           free_workers[Owner[e]] = <<>>
    PROVE  nworkers[Owner[e]] + 1 <= Cardinality(Elsewhere(Owner[e]))
<1> DEFINE p == Owner[e]
           N == nworkers[p]
           S == 1..(N + 1)
<1>1. p \in Proc
  BY OwnerFacts
<1>2. N \in 0..MaxWorkers /\ MaxWorkers \in Nat /\ N \in Nat
  BY <1>1, IInvParts, ThreadAssumption DEF TypeOK
<1>3. ASSUME NEW n \in 1..N
      PROVE  /\ <<p, n>> \in Worker /\ <<p, n>>[1] = p
             /\ \E c \in Elsewhere(p) : HoldsFor(<<p, n>>, c)
  <2>1. <<p, n>> \in Worker /\ <<p, n>>[1] = p
    BY <1>1, <1>2 DEF Worker
  <2>2. PICK w \in Worker : w = <<p, n>> /\ w[1] = p
    BY <2>1
  <2>3. w \in Created
    BY <2>2 DEF Created
  <2>4. w \notin Frees(p)
    BY DEF Frees
  <2>5. CASE w \in Waiting(p)
    BY <2>1, <2>2, <2>5, WaitsElsewhere
  <2>6. CASE \E f \in Conn : conn[f].reader = "add" /\ conn[f].thr = w
    <3>1. PICK f \in Conn : conn[f].reader = "add" /\ conn[f].thr = w
      BY <2>6
    <3>2. TargetRight(f)
      BY IInvParts, TargetsAre
    <3>3. Owner[f] = p
      BY <2>2, <3>1, <3>2, WorkerFacts DEF TargetRight, Aims, Aiming
    <3>4. PICK c \in Elsewhere(p) : conn[f].msg.tid = Tid[c]
      BY <3>1, <3>3, CallsElsewhere
    <3>5. HoldsFor(w, c)
      BY <3>1, <3>4 DEF HoldsFor
    <3> QED
      BY <2>1, <2>2, <3>5
  <2> QED
    BY <2>2, <2>3, <2>4, <2>5, <2>6, IInvParts DEF WorkersKept
<1>4. PICK d \in Elsewhere(p) : conn[e].msg.tid = Tid[d]
  BY CallsElsewhere
<1>5. ASSUME NEW n \in 1..N PROVE ~HoldsFor(<<p, n>>, d)
  <2>1. PICK w \in Worker : w = <<p, n>> /\ w[1] = p
    BY <1>3
  <2>2. NobodyWaits(p, Tid[d]) /\ Holds(e)
    BY <1>4, CallsElsewhere
  <2>3. ~(w \in Waiting(w[1]) /\ thread[w].original_tid = Tid[d])
    BY <2>1, <2>2 DEF NobodyWaits
  <2>4. ASSUME NEW f \in Conn, conn[f].reader = "add", conn[f].msg.tid = Tid[d] PROVE FALSE
    <3>1. Holds(f)
      BY <2>4, CallsElsewhere
    <3>2. e = f
      BY <1>4, <2>2, <2>4, <3>1, OneHolds
    <3> QED
      BY <2>4, <3>2
  <2>5. ~HoldsFor(w, d)
    BY <2>3, <2>4 DEF HoldsFor
  <2> QED
    BY <2>1, <2>5
<1> DEFINE g == [n \in S |-> IF n = N + 1 THEN d ELSE CHOOSE c \in Elsewhere(p) : HoldsFor(<<p, n>>, c)]
<1>6. \A n \in S : n = N + 1 \/ n \in 1..N
  BY <1>2
<1>7. \A n \in 1..N : g[n] \in Elsewhere(p) /\ HoldsFor(<<p, n>>, g[n]) /\ g[n] # d
  <2> TAKE n \in 1..N
  <2>1. g[n] = CHOOSE c \in Elsewhere(p) : HoldsFor(<<p, n>>, c)
    BY <1>2
  <2>2. \E c \in Elsewhere(p) : HoldsFor(<<p, n>>, c)
    BY <1>3
  <2>3. g[n] \in Elsewhere(p) /\ HoldsFor(<<p, n>>, g[n])
    BY <2>1, <2>2
  <2> QED
    BY <2>3, <1>5
<1>8. g[N + 1] = d
  BY <1>2
<1>9. g \in [S -> Elsewhere(p)]
  <2>1. \A n \in S : g[n] \in Elsewhere(p)
    BY <1>6, <1>7, <1>8
  <2> QED
    BY <2>1
<1> HIDE DEF g
<1>10. \A m, n \in 1..N : g[m] = g[n] => m = n
  <2> TAKE m, n \in 1..N
  <2>1. <<p, m>> \in Worker /\ <<p, n>> \in Worker /\ <<p, m>>[1] = <<p, n>>[1]
    BY <1>3
  <2>2. g[m] \in Client /\ HoldsFor(<<p, m>>, g[m]) /\ HoldsFor(<<p, n>>, g[n])
    BY <1>7 DEF Elsewhere
  <2>3. g[m] = g[n] => <<p, m>> = <<p, n>>
    BY <2>1, <2>2, HeldApart
  <2> QED
    BY <2>3
<1>11. \A m, n \in S : g[m] = g[n] => m = n
  BY <1>6, <1>7, <1>8, <1>10
<1>12. g \in Injection(S, Elsewhere(p))
  <2>1. DOMAIN g = S
    BY <1>9
  <2> QED
    BY <2>1, <1>9, <1>11 DEF Injection, IsInjective
<1>13. IsFiniteSet(Elsewhere(p))
  <2>1. Elsewhere(p) \in SUBSET Client
    BY DEF Elsewhere
  <2> QED
    BY <2>1, FS_Subset
<1>14. Cardinality(S) <= Cardinality(Elsewhere(p))
  BY <1>12, <1>13, FS_Injection
<1>15. Cardinality(S) = N + 1
  BY <1>2, FS_Interval
<1> QED
  BY <1>14, <1>15

\* Only a reader that finds no free worker creates one.
LEMMA WorkersCreated ==
    ASSUME [Next]_vars
    PROVE  \/ UNCHANGED nworkers
           \/ \E e \in Conn : GetFreeWorker(e)
<1>1. CASE UNCHANGED vars
  BY <1>1 DEF vars
<1>2. ASSUME NEW t, NEW s, ClientCall(t, s) PROVE UNCHANGED nworkers
  BY <1>2 DEF ClientCall
<1>3. ASSUME NEW t, Serves(t) PROVE UNCHANGED nworkers
  <2>1. CASE HandleCall(t)
    BY <2>1 DEF HandleCall
  <2>2. ASSUME NEW id, ThreadRuns(t, id) PROVE UNCHANGED nworkers
    <3>1. CASE Acquire(t, id) \/ Register(t, id) \/ CountFirst(t, id) \/ Send(t, id)
      BY <3>1 DEF Acquire, Register, CountFirst, Send
    <3>2. CASE Write(t, id) \/ Unsent(t, id) \/ TakeReturn(t, id) \/ TakeReturnThrown(t, id) \/ Return(t, id)
      BY <3>2 DEF Write, Unsent, TakeReturn, TakeReturnThrown, Return
    <3>3. CASE EndHandler(t, id) \/ Release(t, id) \/ Reply(t, id) \/ WriteReply(t, id)
      BY <3>3 DEF EndHandler, Release, Reply, WriteReply
    <3>4. CASE CallOut(t, id) \/ CallOutCleanup(t, id) \/ CallOutEmit(t, id)
      BY <3>4 DEF CallOut, CallOutCleanup, CallOutEmit
    <3>5. CASE Leave(t, id) \/ Terminate(t, id)
      BY <3>5 DEF Leave, Terminate
    <3> QED
      BY <2>2, <3>1, <3>2, <3>3, <3>4, <3>5 DEF ThreadRuns
  <2> QED
    BY <1>3, <2>1, <2>2 DEF Serves
<1>4. ASSUME NEW e \in Conn, ReaderRuns(e) PROVE UNCHANGED nworkers \/ GetFreeWorker(e)
  <2>1. CASE ReaderCheck(e) \/ RecvDisconnected(e) \/ NotifyDisconnect(e) \/ ReaderCleanup(e)
             \/ ReaderEmit(e) \/ ReaderExit(e)
    BY <2>1 DEF ReaderCheck, RecvDisconnected, NotifyDisconnect, ReaderCleanup, ReaderEmit, ReaderExit, Only
  <2>2. CASE RecvMessage(e) \/ AcquireWaiting(e) \/ RegisterWorker(e) \/ CountWorker(e)
    BY <2>2 DEF RecvMessage, AcquireWaiting, RegisterWorker, CountWorker
  <2>3. CASE FindWaiting(e) \/ Garbled(e) \/ Deliver(e) \/ Post(e)
    BY <2>3 DEF FindWaiting, Garbled, Deliver, Post
  <2> QED
    BY <1>4, <2>1, <2>2, <2>3 DEF ReaderRuns
<1>5. ASSUME NEW e, Break(e) PROVE UNCHANGED nworkers
  BY <1>5 DEF Break
<1>6. CASE Quiescent
  BY <1>6 DEF Quiescent, vars
<1> QED
  BY <1>1, <1>2, <1>3, <1>4, <1>5, <1>6 DEF Next

\* The greater of one and a number.
LEMMA MaxFacts == \A n \in Nat : /\ Max({1, n}) \in Nat /\ 1 <= Max({1, n}) /\ n <= Max({1, n})
<1> SUFFICES ASSUME NEW n \in Nat PROVE Max({1, n}) \in Nat /\ 1 <= Max({1, n}) /\ n <= Max({1, n})
  OBVIOUS
<1>1. \E x \in {1, n} : \A y \in {1, n} : x >= y
  OBVIOUS
<1>2. Max({1, n}) \in {1, n} /\ \A y \in {1, n} : Max({1, n}) >= y
  BY <1>1 DEF Max
<1> QED
  BY <1>2

\* A process creates no more workers than there are clients elsewhere, besides
\* the first: getFreeWorker finds one, as each is free again before its caller
\* can know that the call is over.
THEOREM NoMoreWorkers ==
    ASSUME NothingFails, TidsDiffer, IsFiniteSet(Client) PROVE SafeSpec => []WorkersBounded
<1>1. \A p \in Proc : Cardinality(Elsewhere(p)) \in Nat
  <2>1. \A p \in Proc : Elsewhere(p) \in SUBSET Client
    BY DEF Elsewhere
  <2> QED
    BY <2>1, FS_Subset, FS_CardinalityType
<1>2. WorkersBounded <=> \A p \in Proc : nworkers[p] <= Max({1, Cardinality(Elsewhere(p))})
  BY DEF WorkersBounded, Elsewhere
<1>3. Init => WorkersBounded
  <2> SUFFICES ASSUME Init, NEW p \in Proc PROVE nworkers[p] <= Max({1, Cardinality(Elsewhere(p))})
    BY <1>2
  <2>1. nworkers[p] \in {0, 1}
    BY DEF Init
  <2>2. 1 <= Max({1, Cardinality(Elsewhere(p))}) /\ Max({1, Cardinality(Elsewhere(p))}) \in Nat
    BY <1>1, MaxFacts
  <2> QED
    BY <2>1, <2>2
<1>4. IInv /\ WorkersBounded /\ [Next]_vars => WorkersBounded'
  <2> SUFFICES ASSUME IInv, WorkersBounded, [Next]_vars,
                      NEW p \in Proc
      PROVE  nworkers'[p] <= Max({1, Cardinality(Elsewhere(p))})
    BY DEF WorkersBounded, Elsewhere
  <2>1. nworkers[p] <= Max({1, Cardinality(Elsewhere(p))})
    BY <1>2
  <2>2. CASE UNCHANGED nworkers
    BY <2>1, <2>2
  <2>3. ASSUME NEW e \in Conn, GetFreeWorker(e)
        PROVE  nworkers'[p] <= Max({1, Cardinality(Elsewhere(p))})
    <3>1. Owner[e] \in Proc /\ nworkers \in [Proc -> 0..MaxWorkers] /\ conn[e].reader = "worker"
      BY <2>3, OwnerFacts, IInvParts DEF GetFreeWorker, Reading, TypeOK
    <3>2. CASE free_workers[Owner[e]] # <<>> \/ p # Owner[e]
      <4>1. nworkers'[p] = nworkers[p]
        BY <2>3, <3>1, <3>2 DEF GetFreeWorker
      <4> QED
        BY <2>1, <4>1
    <3>3. CASE free_workers[Owner[e]] = <<>> /\ p = Owner[e]
      <4>1. nworkers'[p] = nworkers[p] + 1
        BY <2>3, <3>1, <3>3 DEF GetFreeWorker
      <4>2. nworkers[p] + 1 <= Cardinality(Elsewhere(p))
        BY <3>1, <3>3, RoomForWorker
      <4>3. Cardinality(Elsewhere(p)) <= Max({1, Cardinality(Elsewhere(p))})
            /\ Max({1, Cardinality(Elsewhere(p))}) \in Nat
        BY <1>1, MaxFacts
      <4>4. nworkers[p] + 1 \in Nat
        <5>1. MaxWorkers \in Nat
          BY ThreadAssumption
        <5> QED
          BY <3>1, <5>1
      <4> QED
        BY <1>1, <4>1, <4>2, <4>3, <4>4
    <3> QED
      BY <3>2, <3>3
  <2> QED
    BY <2>2, <2>3, WorkersCreated
<1> QED
  BY <1>3, <1>4, AlwaysRight, PTL DEF SafeSpec

-----------------------------------------------------------------------------
(* Which connections calls take.                                           *)

\* The connection that is chosen has the service; the one in use does not, if
\* it is another.
LEMMA ResolveUsesUsed ==
    ASSUME TypeOK, NEW t \in Thread, NEW s, Resolve(t, s) # None
    PROVE  LET used == thread[t].used_connection IN
           used # None /\ Resolve(t, s) # used
             => ~ Provides[Resolve(t, s)] \subseteq Provides[used]
<1> DEFINE used == thread[t].used_connection
<1> SUFFICES ASSUME used # None, Resolve(t, s) # used
             PROVE  ~ Provides[Resolve(t, s)] \subseteq Provides[used]
  OBVIOUS
<1>1. s \notin Provides[used] /\ Resolve(t, s) = acquireConnection(Process(t), s)
  BY DEF Resolve, checkConnection
<1>2. PICK p \in Proc : p = Process(t)
  BY Processes
<1>3. Order[p] \in Seq(Conn)
  BY TopologyAssumption
<1>4. PICK n \in Nat : DOMAIN Order[p] = 1..n
  BY <1>3
<1>5. PICK has : has = {i \in 1..n : s \in Provides[Order[p][i]]}
  OBVIOUS
<1>6. acquireConnection(p, s) = IF has = {} THEN None ELSE Order[p][Min(has)]
  BY <1>4, <1>5 DEF acquireConnection, checkConnection
<1>7. has # {} /\ Resolve(t, s) = Order[p][Min(has)]
  BY <1>1, <1>2, <1>6
<1>8. Min(has) \in has
  <2>1. has \in SUBSET Nat
    BY <1>5
  <2> QED
    BY <1>7, <2>1, LeastFacts
<1>9. s \in Provides[Resolve(t, s)]
  BY <1>5, <1>7, <1>8
<1> QED
  BY <1>1, <1>9

\* A call that has been made keeps its connection, and the one used before.
MadeStays == \A id \in CallId :
    /\ SameMade(id)
    /\ rpc'[id].client # "none" => rpc[id].client # "none"

\* Only a stub's call makes a call.
LEMMA ThreadMakesNone ==
    ASSUME IInv, NEW t \in Thread, NEW id, ThreadRuns(t, id)
    PROVE  MadeStays
<1>1. rpc \in [CallId -> RpcRec]
  BY DEF IInv, TypeOK
<1>2. \A end, pc : end \in {"client", "server"} /\ Goto(id, end, pc) /\ (end = "client" => rpc[id].client # "none")
        => MadeStays
  BY <1>1 DEF Goto, RpcRec, MadeStays, SameMade
<1>3. \A pc : /\ Calling(t, id, pc) => rpc[id].client = pc
              /\ Serving(t, id, pc) => rpc[id].server = pc
  BY DEF Calling, Serving
<1>4. CASE Acquire(t, id)
  BY <1>2, <1>3, <1>4 DEF Acquire
<1>5. CASE Register(t, id)
  BY <1>2, <1>3, <1>5 DEF Register
<1>6. CASE CountFirst(t, id)
  BY <1>2, <1>3, <1>6 DEF CountFirst
<1>7. CASE Send(t, id)
  BY <1>2, <1>3, <1>7 DEF Send
<1>8. CASE Write(t, id)
  BY <1>2, <1>3, <1>8 DEF Write
<1>9. CASE Unsent(t, id)
  <2>1. rpc' = [rpc EXCEPT ![id].client = "leaked", ![id].res = "Disconnected"]
    BY <1>9 DEF Unsent
  <2>2. rpc[id].client = "unsent"
    BY <1>3, <1>9 DEF Unsent
  <2> QED
    BY <1>1, <2>1, <2>2 DEF RpcRec, MadeStays, SameMade
<1>10. CASE TakeReturn(t, id)
  <2>1. rpc' = [rpc EXCEPT ![id].client = "return", ![id].res = "Success",
                           ![id].reply = thread[t].wakeup_data.id]
    BY <1>10 DEF TakeReturn
  <2>2. rpc[id].client = "wait"
    BY <1>3, <1>10 DEF TakeReturn
  <2> QED
    BY <1>1, <2>1, <2>2 DEF RpcRec, MadeStays, SameMade
<1>11. CASE Return(t, id)
  BY <1>2, <1>3, <1>11 DEF Return
<1>12. CASE EndHandler(t, id)
  <2>1. PICK r, pc : rpc' = [rpc EXCEPT ![id].served = r, ![id].server = pc]
    BY <1>12 DEF EndHandler
  <2> QED
    BY <1>1, <2>1 DEF RpcRec, MadeStays, SameMade
<1>13. CASE Release(t, id)
  <2>1. rpc' = [rpc EXCEPT ![id].server = "reply", ![id].rtid = thread[t].original_tid]
    BY <1>13 DEF Release
  <2> QED
    BY <1>1, <2>1 DEF RpcRec, MadeStays, SameMade
<1>14. \/ rpc' = Unanswered(id)
       \/ rpc' = Answered(id)
       \/ rpc' = [rpc EXCEPT ![id].server = "sending"]
       => MadeStays
  BY <1>1 DEF Unanswered, Answered, RpcRec, MadeStays, SameMade
<1>15. CASE Reply(t, id)
  BY <1>14, <1>15 DEF Reply
<1>16. CASE WriteReply(t, id)
  BY <1>14, <1>16 DEF WriteReply
<1>17. CASE CallOut(t, id)
  BY <1>2, <1>17 DEF CallOut
<1>18. CASE CallOutCleanup(t, id)
  BY <1>2, <1>18 DEF CallOutCleanup
<1>19. CASE CallOutEmit(t, id)
  BY <1>2, <1>19 DEF CallOutEmit
<1>20. CASE Leave(t, id)
  <2>1. rpc[id].server = "leave"
    BY <1>3, <1>20 DEF Leave
  <2>2. PICK k \in CallId : k = id
    <3>1. thread[t].stack \in Seq(Frame) /\ thread[t].stack # <<>> /\ Last(thread[t].stack) = <<"handleCall", id>>
      BY <1>20 DEF Leave, Serving, IInv, TypeOK, ThreadRec
    <3>2. <<"handleCall", id>> \in Frame
      BY <3>1, FrontFacts
    <3> QED
      BY <3>2 DEF Frame
  <2>3. rpc[id].served = "Success"
    BY <2>1, <2>2, IInvParts DEF EndsAgree, Through
  <2>4. rpc' = [rpc EXCEPT ![id].server = "done"]
    BY <1>20, <2>3 DEF Leave
  <2> QED
    BY <1>1, <2>4 DEF RpcRec, MadeStays, SameMade
<1>21. CASE Terminate(t, id)
  BY <1>21 DEF Terminate, MadeStays, SameMade
<1>22. CASE TakeReturnThrown(t, id)
  BY <1>2, <1>3, <1>22 DEF TakeReturnThrown
<1> QED
  BY <1>4, <1>5, <1>6, <1>7, <1>8, <1>9, <1>10, <1>11, <1>12, <1>13, <1>15, <1>16,
     <1>17, <1>18, <1>19, <1>20, <1>21, <1>22 DEF ThreadRuns

LEMMA HandleCallMakesNone ==
    ASSUME IInv, NEW t \in Thread, HandleCall(t)
    PROVE  MadeStays
<1>1. rpc \in [CallId -> RpcRec]
  BY DEF IInv, TypeOK
<1>2. rpc' = rpc \/ \E id, e : rpc' = [rpc EXCEPT ![id].server = "running", ![id].via = e]
  BY DEF HandleCall
<1>3. CASE rpc' = rpc
  BY <1>3 DEF MadeStays, SameMade
<1>4. ASSUME NEW id, NEW e, rpc' = [rpc EXCEPT ![id].server = "running", ![id].via = e]
      PROVE  MadeStays
  BY <1>1, <1>4 DEF RpcRec, MadeStays, SameMade
<1> QED
  BY <1>2, <1>3, <1>4

LEMMA ReaderMakesNone ==
    ASSUME IInv, NEW e \in Conn, ReaderRuns(e) \/ Break(e)
    PROVE  MadeStays
<1>1. rpc \in [CallId -> RpcRec]
  BY DEF IInv, TypeOK
<1>2. CASE Post(e)
  <2>1. rpc' = rpc \/ \E id : rpc' = [rpc EXCEPT ![id].server = "posted"]
    BY <1>2 DEF Post, Goto
  <2> QED
    BY <1>1, <2>1 DEF RpcRec, MadeStays, SameMade
<1>3. CASE ~ Post(e)
  <2>1. rpc' = rpc
    BY <1>3 DEF ReaderRuns, Break, ReaderCheck, RecvMessage, RecvDisconnected, AcquireWaiting,
                GetFreeWorker, RegisterWorker, CountWorker, FindWaiting, Garbled, Deliver,
                NotifyDisconnect, ReaderCleanup, ReaderEmit, ReaderExit, Only
  <2> QED
    BY <2>1 DEF MadeStays, SameMade
<1> QED
  BY <1>2, <1>3

\* A call made goes over the connection in use, unless that lacks the service;
\* later steps change neither.
LEMMA UsedFirstStep == IInv /\ UsedFirst /\ [Next]_vars => UsedFirst'
<1> SUFFICES ASSUME IInv, UsedFirst, [Next]_vars PROVE UsedFirst'
  OBVIOUS
<1>1. MadeStays => UsedFirst'
  BY DEF MadeStays, SameMade, UsedFirst
<1>2. ASSUME NEW t \in Created, NEW s \in Service, ClientCall(t, s) PROVE UsedFirst'
  <2>1. t \in Thread
    BY DEF Created, Thread
  <2>2. PICK id, e : /\ e = Resolve(t, s) /\ e # None
                     /\ rpc' = [rpc EXCEPT ![id] = [@ EXCEPT
                                  !.client = "acquire", !.conn = e,
                                  !.used = thread[t].used_connection,
                                  !.tid = thread[t].original_tid]]
    BY <1>2 DEF ClientCall
  <2>3. rpc \in [CallId -> RpcRec]
    BY DEF IInv, TypeOK
  <2>4. \A k \in CallId : k # id => rpc'[k] = rpc[k]
    BY <2>2, <2>3
  <2>5. id \in CallId => rpc'[id].conn = e /\ rpc'[id].used = thread[t].used_connection
    BY <2>2, <2>3 DEF RpcRec
  <2>6. thread[t].used_connection # None /\ e # thread[t].used_connection
          => ~ Provides[e] \subseteq Provides[thread[t].used_connection]
    BY <2>1, <2>2, ResolveUsesUsed DEF IInv
  <2> QED
    BY <2>4, <2>5, <2>6 DEF UsedFirst
<1>3. ASSUME NEW t \in Created, Serves(t) PROVE UsedFirst'
  <2>1. t \in Thread
    BY DEF Created, Thread
  <2>2. MadeStays
    BY <1>3, <2>1, HandleCallMakesNone, ThreadMakesNone DEF Serves
  <2> QED
    BY <1>1, <2>2
<1>4. ASSUME NEW e \in Conn, ReaderRuns(e) \/ Break(e) PROVE UsedFirst'
  BY <1>1, <1>4, ReaderMakesNone
<1>5. CASE Quiescent \/ UNCHANGED vars
  BY <1>1, <1>5 DEF Quiescent, vars, MadeStays, SameMade
<1> QED
  BY <1>2, <1>3, <1>4, <1>5 DEF Next

\* A handler calls back over the connection its own call came over, whatever
\* other connections there are; it goes elsewhere only for what that lacks.
THEOREM CallsGoBack == ASSUME NothingFails, TidsDiffer PROVE SafeSpec => []CallbackGoesBack
<1>1. Init => UsedFirst
  BY InitRests DEF UsedFirst, AllRest
<1>2. IInv /\ UsedFirst => CallbackGoesBack
  <2> SUFFICES ASSUME IInv, UsedFirst, NEW t \in Thread, NEW i \in 2..Len(thread[t].stack),
                      thread[t].stack[i][1] = "client_call",
                      rpc[thread[t].stack[i][2]].conn # ServedAt(thread[t].stack[i - 1][2])
      PROVE  ~ Provides[rpc[thread[t].stack[i][2]].conn] \subseteq Provides[ServedAt(thread[t].stack[i - 1][2])]
    BY DEF CallbackGoesBack
  <2>1. thread[t].stack \in Seq(Frame)
    BY DEF IInv, TypeOK, ThreadRec
  <2>2. PICK j \in 1..Len(thread[t].stack) - 1 : j = i - 1 /\ j + 1 = i /\ j \in 1..Len(thread[t].stack)
    BY <2>1
  <2>3. PICK f \in Frame, g \in Frame : f = thread[t].stack[j] /\ g = thread[t].stack[i]
    BY <2>1, <2>2
  <2>4. NextFrame(t, j) /\ FramesPlaced
    BY <2>2, IInvParts DEF FramesNest
  <2>5. PICK made \in CallId, callee \in CallId : made = g[2] /\ callee = f[2]
    BY DEF Frame
  <2>6. rpc[made].used = ServedAt(callee) /\ f[1] = "handleCall"
    BY <2>2, <2>3, <2>4, <2>5 DEF NextFrame, Frame
  <2>7. rpc[made].client # "none"
    BY <2>3, <2>4, <2>5 DEF FramesPlaced, IsOpen
  <2>8. rpc[callee].conn \in Conn /\ ServedAt(callee) \in Conn
    <3>1. rpc[callee].server # "none"
      BY <2>2, <2>3, <2>4, <2>5, <2>6 DEF FramesPlaced, Inside
    <3>2. rpc[callee].client # "none"
      BY <3>1, IInvParts DEF EndsAgree
    <3>3. rpc[callee].conn \in Conn
      BY <3>2, IInvParts DEF EndsAgree
    <3> QED
      BY <3>3, TopologyAssumption DEF ServedAt
  <2>9. rpc[made].used # None
    BY <2>6, <2>8, NoneAssumption
  <2> QED
    BY <2>2, <2>3, <2>5, <2>6, <2>7, <2>9 DEF UsedFirst
<1> QED
  BY <1>1, <1>2, UsedFirstStep, AlwaysRight, PTL DEF SafeSpec

-----------------------------------------------------------------------------
(***************************************************************************)
(* What Calls implements: processes that call each other are to their      *)
(* callers what RemoteCalls says, and to the clients of nested calls what  *)
(* Chains says: each step of Calls is a step of either, or changes nothing *)
(* that is seen there.                                                     *)
(***************************************************************************)

-----------------------------------------------------------------------------
(* Numbers in ascending order.                                             *)

\* How many numbers there are up to one, and which are at place i.
Rank(numbers, m) == Cardinality({k \in numbers : k <= m})
At(numbers, i) == {m \in numbers : Rank(numbers, m) = i}

\* A list of numbers in their order, when one is added that is greater than all.
LEMMA AscendingAdd ==
    ASSUME NEW S \in SUBSET Nat, IsFiniteSet(S), NEW n \in Nat, \A m \in S : m < n,
           NEW T, T = S \cup {n}
    PROVE  /\ Cardinality(S) \in Nat
           /\ DOMAIN Ascending(S) = 1..Cardinality(S)
           /\ DOMAIN Ascending(T) = 1..Cardinality(S) + 1
           /\ \A i \in 1..Cardinality(S) : Ascending(T)[i] = Ascending(S)[i]
           /\ Ascending(T)[Cardinality(S) + 1] = n
<1> DEFINE N == Cardinality(S)
<1>1. N \in Nat /\ Cardinality(T) = N + 1
  <2>1. n \notin S
    OBVIOUS
  <2> QED
    BY <2>1, FS_CardinalityType, FS_AddElement
<1>2. \A R : Ascending(R) = [i \in 1..Cardinality(R) |-> CHOOSE m \in At(R, i) : TRUE]
  BY DEF Ascending, At, Rank
<1>3. \A m \in S : Rank(T, m) = Rank(S, m)
  <2> SUFFICES ASSUME NEW m \in S PROVE Rank(T, m) = Rank(S, m)
    OBVIOUS
  <2>1. {k \in T : k <= m} = {k \in S : k <= m}
    <3>1. m \in Nat /\ m < n /\ ~(n <= m)
      OBVIOUS
    <3> QED
      BY <3>1
  <2> QED
    BY <2>1 DEF Rank
<1>4. Rank(T, n) = N + 1
  <2>1. \A k \in T : k <= n
    OBVIOUS
  <2>2. {k \in T : k <= n} = T
    BY <2>1
  <2> QED
    BY <1>1, <2>2 DEF Rank
<1>5. \A m \in S : Rank(S, m) \in Nat /\ Rank(S, m) <= N
  <2> SUFFICES ASSUME NEW m \in S PROVE Rank(S, m) \in Nat /\ Rank(S, m) <= N
    OBVIOUS
  <2>1. {k \in S : k <= m} \in SUBSET S
    OBVIOUS
  <2>2. IsFiniteSet({k \in S : k <= m}) /\ Cardinality({k \in S : k <= m}) <= N
    BY <2>1, FS_Subset
  <2> QED
    BY <2>2, FS_CardinalityType DEF Rank
<1>6. ASSUME NEW i \in 1..N PROVE At(T, i) = At(S, i)
  <2>1. i # N + 1
    BY <1>1
  <2>2. \A m : m \in At(T, i) <=> m \in At(S, i)
    BY <1>3, <1>4, <2>1 DEF At
  <2> QED
    BY <2>2
<1>7. At(T, N + 1) = {n}
  <2>1. \A m \in S : Rank(T, m) # N + 1
    BY <1>1, <1>3, <1>5
  <2>2. \A m : m \in At(T, N + 1) <=> m = n
    BY <1>4, <2>1 DEF At
  <2> QED
    BY <2>2
<1>8. DOMAIN Ascending(S) = 1..N /\ DOMAIN Ascending(T) = 1..N + 1
  BY <1>1, <1>2
<1>9. \A i \in 1..N : Ascending(S)[i] = CHOOSE m \in At(S, i) : TRUE
  BY <1>2
<1>10. \A i \in 1..N + 1 : Ascending(T)[i] = CHOOSE m \in At(T, i) : TRUE
  BY <1>1, <1>2
<1>11. \A i \in 1..N : i \in 1..N + 1
  BY <1>1
<1>12. Ascending(T)[N + 1] = n
  <2>1. N + 1 \in 1..N + 1
    BY <1>1
  <2>2. Ascending(T)[N + 1] = CHOOSE m \in {n} : TRUE
    BY <1>7, <1>10, <2>1
  <2> QED
    BY <2>2
<1>13. \A i \in 1..N : Ascending(T)[i] = Ascending(S)[i]
  BY <1>6, <1>9, <1>10, <1>11
<1> QED
  BY <1>1, <1>8, <1>12, <1>13

\* No numbers make an empty list.
LEMMA AscendingNone == Ascending({}) = <<>> /\ Cardinality({}) = 0
<1>1. Cardinality({}) = 0
  BY FS_EmptySet
<1>2. Ascending({}) = [i \in 1..0 |-> CHOOSE m \in At({}, i) : TRUE]
  BY <1>1 DEF Ascending, At, Rank
<1> QED
  BY <1>1, <1>2

\* A list that the number comes last of is the list with it appended, and
\* without it the list but for its last.
LEMMA AscendingList ==
    ASSUME NEW S \in SUBSET Nat, IsFiniteSet(S), NEW n \in Nat, \A m \in S : m < n,
           NEW T, T = S \cup {n}
    PROVE  /\ \A X : Ascending(S) \in Seq(X) /\ n \in X =>
                Ascending(T) = Append(Ascending(S), n) /\ Ascending(T) \in Seq(X)
           /\ \A X : Ascending(T) \in Seq(X) =>
                /\ Ascending(S) \in Seq(X)
                /\ Len(Ascending(T)) = Len(Ascending(S)) + 1
                /\ Ascending(T)[Len(Ascending(T))] = n
                /\ \A i \in 1..Len(Ascending(S)) : Ascending(S)[i] = Ascending(T)[i]
<1> DEFINE N == Cardinality(S)
<1>1. \A R : Ascending(R) = [i \in DOMAIN Ascending(R) |-> Ascending(R)[i]]
  <2> TAKE R
  <2>1. PICK c : c = Cardinality(R)
    OBVIOUS
  <2>2. Ascending(R) = [i \in 1..c |-> CHOOSE m \in At(R, i) : TRUE]
    BY <2>1 DEF Ascending, At, Rank
  <2> QED
    BY <2>2
<1>2. PICK s, t : s = Ascending(S) /\ t = Ascending(T)
  OBVIOUS
<1>3. /\ N \in Nat
      /\ DOMAIN s = 1..N /\ DOMAIN t = 1..N + 1
      /\ \A i \in 1..N : t[i] = s[i]
      /\ t[N + 1] = n
  BY <1>2, AscendingAdd
<1> HIDE DEF N
<1>4. ASSUME NEW X, s \in Seq(X), n \in X PROVE t = Append(s, n) /\ t \in Seq(X)
  <2>1. Len(s) = N
    BY <1>3, <1>4
  <2>2. \A i \in 1..N + 1 : t[i] = Append(s, n)[i]
    BY <1>3, <1>4, <2>1
  <2>3. Append(s, n) \in Seq(X) /\ Len(Append(s, n)) = N + 1
    BY <1>4, <2>1
  <2>4. t = [i \in 1..N + 1 |-> t[i]]
    BY <1>2, <1>3, <1>1
  <2>5. Append(s, n) = [i \in 1..N + 1 |-> Append(s, n)[i]]
    <3>1. \A r \in Seq(X) : r = [i \in 1..Len(r) |-> r[i]]
      OBVIOUS
    <3> QED
      BY <2>3, <3>1
  <2> QED
    BY <2>2, <2>3, <2>4, <2>5
<1>5. ASSUME NEW X, t \in Seq(X) PROVE s \in Seq(X) /\ Len(t) = Len(s) + 1 /\ Len(s) = N
  <2>1. Len(t) = N + 1
    BY <1>3, <1>5
  <2>2. s = [i \in 1..N |-> t[i]]
    <3>1. s = [i \in 1..N |-> s[i]]
      BY <1>1, <1>2, <1>3
    <3> QED
      BY <1>3, <3>1
  <2>3. \A i \in 1..N : t[i] \in X
    BY <1>3, <1>5, <2>1
  <2> QED
    BY <1>3, <2>1, <2>2, <2>3
<1> QED
  BY <1>2, <1>3, <1>4, <1>5

-----------------------------------------------------------------------------
(* The thread a client has in a process.                                   *)

Held(p, c, t) == t \in Waiting(p) /\ thread[t].original_tid = Tid[c]

BoundsAre == \A p \in Proc, c \in Client :
    /\ p = Home[c] => ThreadIn(p, c) = c
    /\ p # Home[c] =>
         /\ \A t \in Thread : Held(p, c, t) => ThreadIn(p, c) = t
         /\ (\A t \in Thread : ~Held(p, c, t)) => ThreadIn(p, c) = None

\* It is the client itself, or who waits under its thread id.
LEMMA BoundFacts == IInv => BoundsAre
<1> SUFFICES ASSUME IInv, NEW p \in Proc, NEW c \in Client
    PROVE  /\ p = Home[c] => ThreadIn(p, c) = c
           /\ p # Home[c] =>
                /\ \A t \in Thread : Held(p, c, t) => ThreadIn(p, c) = t
                /\ (\A t \in Thread : ~Held(p, c, t)) => ThreadIn(p, c) = None
  BY DEF BoundsAre
<1>1. p # Home[c] => ThreadIn(p, c) = findWaitingThread(p, Tid[c])
  BY DEF ThreadIn
<1>2. \A t \in Thread : Held(p, c, t) => findWaitingThread(p, Tid[c]) = t
  BY Found DEF Held
<1>3. (\A t \in Thread : ~Held(p, c, t)) => findWaitingThread(p, Tid[c]) = None
  <2>1. \A t \in Waiting(p) : t \in Thread
    BY IInvParts, ListFacts DEF ListsAre
  <2>2. PICK tid : tid = Tid[c]
    OBVIOUS
  <2>3. (\A t \in Waiting(p) : thread[t].original_tid # tid) => findWaitingThread(p, tid) = None
    BY IInvParts, FindFacts
  <2> QED
    BY <2>1, <2>2, <2>3 DEF Held
<1> QED
  BY <1>1, <1>2, <1>3 DEF ThreadIn

\* So it is after a step.
LEMMA BoundFactsNext == IInv' => BoundsAre'
  BY BoundFacts, PTL

\* It stays, if who waits under the thread id does.
LEMMA BoundSame ==
    ASSUME IInv, IInv', NEW p \in Proc, NEW c \in Client,
           p # Home[c] => \A t \in Thread : Held(p, c, t)' <=> Held(p, c, t)
    PROVE  ThreadIn(p, c)' = ThreadIn(p, c)
<1>1. CASE p = Home[c]
  BY <1>1, BoundFacts, BoundFactsNext DEF BoundsAre
<1>2. CASE p # Home[c] /\ \E t \in Thread : Held(p, c, t)
  BY <1>2, BoundFacts, BoundFactsNext DEF BoundsAre
<1>3. CASE p # Home[c] /\ \A t \in Thread : ~Held(p, c, t)
  BY <1>3, BoundFacts, BoundFactsNext DEF BoundsAre
<1> QED
  BY <1>1, <1>2, <1>3

\* Nobody else waits under the thread id.
LEMMA HeldAlone ==
    IInv => \A p \in Proc, c \in Client : \A t, u \in Thread :
              Held(p, c, t) /\ Held(p, c, u) => t = u
<1> SUFFICES ASSUME IInv, NEW p \in Proc, NEW c \in Client, NEW t \in Thread, NEW u \in Thread,
                    Held(p, c, t), Held(p, c, u)
    PROVE  t = u
  OBVIOUS
<1>1. Listed(p)
  BY IInvParts, UniqueTidIs DEF WaitingRight
<1> QED
  BY <1>1 DEF Held, Listed

-----------------------------------------------------------------------------
(* The open calls of a client.                                             *)

NumbersAre == \A c \in Client :
    /\ OpenNumbers(c) \in SUBSET Nat /\ IsFiniteSet(OpenNumbers(c))
    /\ \A n : n \in OpenNumbers(c) <=> n \in 1..Budget[c] /\ IsOpen(<<c, n>>)

\* They have the numbers in OpenNumbers(c).
LEMMA OpenNumbersAre == Calm => NumbersAre
<1> SUFFICES ASSUME Calm, NEW c \in Client
    PROVE  /\ OpenNumbers(c) \in SUBSET Nat /\ IsFiniteSet(OpenNumbers(c))
           /\ \A n : n \in OpenNumbers(c) <=> n \in 1..Budget[c] /\ IsOpen(<<c, n>>)
  BY DEF NumbersAre
<1>1. Budget[c] \in Nat
  BY ThreadAssumption
<1>2. \A n \in 1..Budget[c] : rpc[<<c, n>>].client # "leaked"
  BY CallIds DEF Calm
<1>3. \A n : n \in OpenNumbers(c) <=> n \in 1..Budget[c] /\ IsOpen(<<c, n>>)
  BY <1>2 DEF OpenNumbers, IsOpen
<1>4. OpenNumbers(c) \in SUBSET (1..Budget[c])
  BY <1>3
<1>5. IsFiniteSet(1..Budget[c])
  BY <1>1, FS_Interval
<1>6. IsFiniteSet(OpenNumbers(c))
  BY <1>4, <1>5, FS_Subset
<1>7. OpenNumbers(c) \in SUBSET Nat
  BY <1>4
<1> QED
  BY <1>3, <1>6, <1>7

\* So they have after a step.
LEMMA OpenNumbersAreNext == Calm' => NumbersAre'
  BY OpenNumbersAre, PTL

OrderOf(c) ==
    /\ Open(c) \in Seq(1..Budget[c])
    /\ \A i \in 1..Len(Open(c)) : IsOpen(<<c, Open(c)[i]>>)
    /\ \A n \in 1..Budget[c] : IsOpen(<<c, n>>) => \E i \in 1..Len(Open(c)) : Open(c)[i] = n
    /\ \A i, j \in 1..Len(Open(c)) : i < j => Open(c)[i] < Open(c)[j]

\* The innermost call of a client is the last of those; the others wait.
LEMMA LastOpen ==
    ASSUME IInv, NEW c \in Client, OrderOf(c), Open(c) # <<>>
    PROVE  LET n == Len(Open(c))
               last == <<c, Last(Open(c))>>
           IN  /\ n \in Nat \ {0} /\ Last(Open(c)) = Open(c)[n] /\ Last(Open(c)) \in 1..Budget[c]
               /\ last \in CallId /\ IsOpen(last)
               /\ \A k \in CallId : k[1] = c /\ IsOpen(k) /\ k # last =>
                    Before(k, last) /\ rpc[k].client = "wait" /\ rpc[k].server = "running"
<1>1. PICK s \in Seq(1..Budget[c]) : s = Open(c)
  BY DEF OrderOf
<1>2. Len(s) \in Nat \ {0} /\ Last(s) = s[Len(s)] /\ s[Len(s)] \in 1..Budget[c]
  BY <1>1, FrontFacts
<1>3. PICK l \in CallId : l = <<c, Last(s)>>
  BY <1>2, CallIds
<1>4. IsOpen(l)
  BY <1>1, <1>2, <1>3 DEF OrderOf
<1>5. ASSUME NEW k \in CallId, k[1] = c, IsOpen(k), k # l
      PROVE  Before(k, l) /\ rpc[k].client = "wait" /\ rpc[k].server = "running"
  <2>1. k = <<c, k[2]>> /\ k[2] \in 1..Budget[c]
    BY <1>5, CallIds
  <2>2. PICK i \in 1..Len(s) : s[i] = k[2]
    BY <1>1, <1>5, <2>1 DEF OrderOf
  <2>3. i # Len(s)
    BY <1>2, <1>3, <1>5, <2>1, <2>2
  <2>4. i < Len(s) /\ Len(s) \in 1..Len(s)
    BY <1>2, <2>3
  <2>5. s[i] < s[Len(s)]
    BY <1>1, <2>4 DEF OrderOf
  <2>6. l[1] = c /\ l[2] = s[Len(s)]
    BY <1>2, <1>3
  <2>7. Before(k, l)
    BY <1>5, <2>2, <2>5, <2>6 DEF Before
  <2> QED
    BY <1>4, <1>5, <2>7, IInvParts DEF CallsNest
<1> QED
  BY <1>1, <1>2, <1>3, <1>4, <1>5

\* An open call that does not wait, or whose handler does not run, is the last.
LEMMA IsLastOpen ==
    ASSUME IInv, NEW k \in CallId, OrderOf(k[1]), IsOpen(k)
    PROVE  LET c == k[1] IN
           /\ c \in Client /\ Open(c) # <<>>
           /\ rpc[k].client # "wait" \/ rpc[k].server # "running"
                \/ (\A l \in CallId : Before(k, l) => ~IsOpen(l))
              => k = <<c, Last(Open(c))>>
<1>1. PICK c \in Client : c = k[1]
  BY CallIds
<1>2. k = <<c, k[2]>> /\ k[2] \in 1..Budget[c]
  BY <1>1, CallIds
<1>3. PICK i \in 1..Len(Open(c)) : Open(c)[i] = k[2]
  BY <1>1, <1>2 DEF OrderOf
<1>4. Open(c) # <<>>
  <2>1. Open(c) \in Seq(1..Budget[c])
    BY <1>1 DEF OrderOf
  <2> QED
    BY <1>3, <2>1
<1>5. PICK l : l = <<c, Last(Open(c))>>
  OBVIOUS
<1>6. /\ l \in CallId /\ IsOpen(l)
      /\ k # l => Before(k, l) /\ rpc[k].client = "wait" /\ rpc[k].server = "running"
  BY <1>1, <1>4, <1>5, LastOpen
<1> QED
  BY <1>1, <1>4, <1>5, <1>6

\* Elements of a list, and the numbers they are.
LEMMA InList ==
    /\ \A S : \A s \in Seq(S) : \A i \in 1..Len(s) : s[i] \in S
    /\ \A b, i : i \in 1..b => i \in Nat
<1>1. \A S : \A s \in Seq(S) : \A i \in 1..Len(s) : s[i] \in S
  OBVIOUS
<1>2. \A b, i : i \in 1..b => i \in Nat
  OBVIOUS
<1> QED
  BY <1>1, <1>2


\* The open calls of a client stay, if they stay open and no other opens.
LEMMA OpenStays ==
    ASSUME IInv, IInv', NEW c \in Client, OrderOf(c),
           \A k \in CallId : k[1] = c => (IsOpen(k)' <=> IsOpen(k))
    PROVE  Open(c)' = Open(c) /\ OrderOf(c)'
<1>1. \A n \in 1..Budget[c] : IsOpen(<<c, n>>)' <=> IsOpen(<<c, n>>)
  BY CallIds
<1>2. OpenNumbers(c)' = OpenNumbers(c)
  <2>1. \A n : n \in OpenNumbers(c)' <=> n \in OpenNumbers(c)
    BY <1>1, IInvParts, OpenNumbersAre, OpenNumbersAreNext DEF NumbersAre, IInv
  <2> QED
    BY <2>1
<1>3. Open(c)' = Open(c)
  BY <1>2 DEF Open, Ascending
<1>4. OrderOf(c)'
  <2>1. PICK s \in Seq(1..Budget[c]) : s = Open(c)
    BY DEF OrderOf
  <2>2. \A i \in 1..Len(s) : s[i] \in 1..Budget[c]
    BY <2>1, InList
  <2> QED
    BY <1>1, <1>3, <2>1, <2>2 DEF OrderOf
<1> QED
  BY <1>3, <1>4

\* A call that opens after them comes last.
LEMMA OpenGains ==
    ASSUME IInv, IInv', NEW id \in CallId, OrderOf(id[1]), IsOpen(id)', ~IsOpen(id),
           \A k \in CallId : k[1] = id[1] /\ k # id => (IsOpen(k)' <=> IsOpen(k)),
           \A k \in CallId : k[1] = id[1] /\ IsOpen(k) => Before(k, id)
    PROVE  Open(id[1])' = Append(Open(id[1]), id[2]) /\ OrderOf(id[1])'
<1>1. PICK c \in Client, n \in 1..Budget[id[1]] : c = id[1] /\ n = id[2] /\ id = <<c, n>> /\ n \in Nat
  BY CallIds
<1>2. \A m \in 1..Budget[c] : /\ m # n => (IsOpen(<<c, m>>)' <=> IsOpen(<<c, m>>))
                              /\ IsOpen(<<c, m>>) => m < n
  <2> SUFFICES ASSUME NEW m \in 1..Budget[c]
      PROVE  /\ m # n => (IsOpen(<<c, m>>)' <=> IsOpen(<<c, m>>))
             /\ IsOpen(<<c, m>>) => m < n
    OBVIOUS
  <2>1. PICK k \in CallId : k = <<c, m>> /\ k[1] = c /\ k[2] = m
    BY CallIds
  <2> QED
    BY <1>1, <2>1 DEF Before
<1>3. PICK S : S = OpenNumbers(c)
  OBVIOUS
<1>4. PICK T : T = OpenNumbers(c)'
  OBVIOUS
<1>5. /\ S \in SUBSET Nat /\ IsFiniteSet(S)
      /\ \A m : m \in S <=> m \in 1..Budget[c] /\ IsOpen(<<c, m>>)
  BY <1>3, IInvParts, OpenNumbersAre DEF NumbersAre
<1>6. \A m : m \in T <=> m \in 1..Budget[c] /\ IsOpen(<<c, m>>)'
  BY <1>4, OpenNumbersAreNext DEF NumbersAre, IInv
<1>7. T = S \cup {n}
  <2>1. \A m : m \in T <=> m \in S \/ m = n
    BY <1>1, <1>2, <1>5, <1>6
  <2> QED
    BY <2>1
<1>8. \A m \in S : m < n
  BY <1>2, <1>5
<1>9. PICK s \in Seq(1..Budget[c]) : s = Open(c)
  BY <1>1 DEF OrderOf
<1>10. Open(c)' = Append(s, n)
  <2>1. Ascending(S) = s /\ Ascending(T) = Open(c)'
    BY <1>3, <1>4, <1>9 DEF Open, Ascending
  <2>2. PICK X : X = 1..Budget[c]
    OBVIOUS
  <2>3. Ascending(S) \in Seq(X) /\ n \in X
    BY <1>1, <1>9, <2>1, <2>2
  <2>4. n \in Nat
    BY <1>1
  <2>5. Ascending(T) = Append(Ascending(S), n)
    BY <1>5, <1>7, <1>8, <2>3, <2>4, AscendingList
  <2> QED
    BY <2>1, <2>5
<1>11. PICK t : t = Open(c)'
  OBVIOUS
<1>12. /\ t \in Seq(1..Budget[c]) /\ Len(s) \in Nat /\ Len(t) = Len(s) + 1
       /\ \A i \in 1..Len(s) : t[i] = s[i]
       /\ t[Len(s) + 1] = n
  BY <1>1, <1>9, <1>10, <1>11, AppendFacts
<1>13. /\ \A i \in 1..Len(s) : s[i] \in 1..Budget[c] /\ IsOpen(<<c, s[i]>>) /\ s[i] < n
       /\ \A m \in 1..Budget[c] : IsOpen(<<c, m>>) => \E i \in 1..Len(s) : s[i] = m
       /\ \A i, j \in 1..Len(s) : i < j => s[i] < s[j]
  <2>1. \A i \in 1..Len(s) : s[i] \in 1..Budget[c]
    BY <1>9, InList
  <2> QED
    BY <1>1, <1>2, <1>9, <2>1 DEF OrderOf
<1>14. \A i \in 1..Len(t) : i \in 1..Len(s) \/ i = Len(s) + 1
  BY <1>12
<1>15. \A i \in 1..Len(t) : IsOpen(<<c, t[i]>>)'
  <2> SUFFICES ASSUME NEW i \in 1..Len(t) PROVE IsOpen(<<c, t[i]>>)'
    OBVIOUS
  <2>1. CASE i = Len(s) + 1
    BY <1>1, <1>12, <2>1
  <2>2. CASE i \in 1..Len(s)
    <3>1. t[i] \in 1..Budget[c] /\ IsOpen(<<c, t[i]>>) /\ t[i] < n
      BY <1>12, <1>13, <2>2
    <3> QED
      BY <1>1, <1>2, <3>1
  <2> QED
    BY <1>14, <2>1, <2>2
<1>16. \A m \in 1..Budget[c] : IsOpen(<<c, m>>)' => \E i \in 1..Len(t) : t[i] = m
  <2> SUFFICES ASSUME NEW m \in 1..Budget[c], IsOpen(<<c, m>>)' PROVE \E i \in 1..Len(t) : t[i] = m
    OBVIOUS
  <2>1. CASE m = n
    BY <1>12, <2>1
  <2>2. CASE m # n
    <3>1. PICK i \in 1..Len(s) : s[i] = m
      BY <1>2, <1>13, <2>2
    <3> QED
      BY <1>12, <3>1
  <2> QED
    BY <2>1, <2>2
<1>17. \A i, j \in 1..Len(t) : i < j => t[i] < t[j]
  <2> SUFFICES ASSUME NEW i \in 1..Len(t), NEW j \in 1..Len(t), i < j PROVE t[i] < t[j]
    OBVIOUS
  <2>1. i \in 1..Len(s)
    BY <1>12, <1>14
  <2>2. CASE j \in 1..Len(s)
    BY <1>12, <1>13, <2>1, <2>2
  <2>3. CASE j = Len(s) + 1
    <3>1. t[j] = n /\ t[i] = s[i] /\ s[i] < n
      BY <1>12, <1>13, <2>1, <2>3
    <3> QED
      BY <3>1
  <2> QED
    BY <1>14, <2>2, <2>3
<1>18. OrderOf(c)'
  BY <1>11, <1>12, <1>15, <1>16, <1>17 DEF OrderOf
<1> QED
  BY <1>1, <1>9, <1>10, <1>18

\* The last of them returns.
LEMMA OpenLoses ==
    ASSUME IInv, IInv', NEW id \in CallId, OrderOf(id[1]), IsOpen(id), ~IsOpen(id)',
           \A k \in CallId : k[1] = id[1] /\ k # id => (IsOpen(k)' <=> IsOpen(k)),
           \A k \in CallId : k[1] = id[1] /\ k # id /\ IsOpen(k) => Before(k, id)
    PROVE  LET s == Open(id[1])
               t == Open(id[1])'
           IN  /\ s \in Seq(1..Budget[id[1]]) /\ t \in Seq(1..Budget[id[1]])
               /\ Len(s) = Len(t) + 1 /\ s[Len(s)] = id[2]
               /\ \A i \in 1..Len(t) : t[i] = s[i]
               /\ OrderOf(id[1])'
<1>1. PICK c \in Client, n \in 1..Budget[id[1]] : c = id[1] /\ n = id[2] /\ id = <<c, n>> /\ n \in Nat
  BY CallIds
<1>2. \A m \in 1..Budget[c] : /\ m # n => (IsOpen(<<c, m>>)' <=> IsOpen(<<c, m>>))
                              /\ m # n /\ IsOpen(<<c, m>>) => m < n
  <2> SUFFICES ASSUME NEW m \in 1..Budget[c]
      PROVE  /\ m # n => (IsOpen(<<c, m>>)' <=> IsOpen(<<c, m>>))
             /\ m # n /\ IsOpen(<<c, m>>) => m < n
    OBVIOUS
  <2>1. PICK k \in CallId : k = <<c, m>> /\ k[1] = c /\ k[2] = m
    BY CallIds
  <2> QED
    BY <1>1, <2>1 DEF Before
<1>3. PICK S : S = OpenNumbers(c)
  OBVIOUS
<1>4. PICK T : T = OpenNumbers(c)'
  OBVIOUS
<1>5. \A m : m \in S <=> m \in 1..Budget[c] /\ IsOpen(<<c, m>>)
  BY <1>3, IInvParts, OpenNumbersAre DEF NumbersAre
<1>6. /\ T \in SUBSET Nat /\ IsFiniteSet(T)
      /\ \A m : m \in T <=> m \in 1..Budget[c] /\ IsOpen(<<c, m>>)'
  BY <1>4, OpenNumbersAreNext DEF NumbersAre, IInv
<1>7. S = T \cup {n}
  <2>1. \A m : m \in S <=> m \in T \/ m = n
    BY <1>1, <1>2, <1>5, <1>6
  <2> QED
    BY <2>1
<1>8. \A m \in T : m < n
  <2>1. n \notin T
    BY <1>1, <1>6
  <2> QED
    BY <1>2, <1>5, <1>7, <2>1
<1>9. PICK s \in Seq(1..Budget[c]) : s = Open(c)
  BY <1>1 DEF OrderOf
<1>10. PICK t : t = Open(c)'
  OBVIOUS
<1>11. /\ t \in Seq(1..Budget[c]) /\ Len(s) = Len(t) + 1 /\ s[Len(s)] = n
       /\ \A i \in 1..Len(t) : t[i] = s[i]
  <2>1. Ascending(S) = s /\ Ascending(T) = t
    BY <1>3, <1>4, <1>9, <1>10 DEF Open, Ascending
  <2>2. \A X : s \in Seq(X) =>
          /\ t \in Seq(X) /\ Len(s) = Len(t) + 1 /\ s[Len(s)] = n
          /\ \A i \in 1..Len(t) : t[i] = s[i]
    BY <1>1, <1>6, <1>7, <1>8, <2>1, AscendingList
  <2> QED
    BY <1>9, <2>2
<1>12. /\ \A i \in 1..Len(s) : s[i] \in 1..Budget[c] /\ IsOpen(<<c, s[i]>>)
       /\ \A m \in 1..Budget[c] : IsOpen(<<c, m>>) => \E i \in 1..Len(s) : s[i] = m
       /\ \A i, j \in 1..Len(s) : i < j => s[i] < s[j]
  <2>1. \A i \in 1..Len(s) : s[i] \in 1..Budget[c]
    BY <1>9, InList
  <2> QED
    BY <1>1, <1>9, <2>1 DEF OrderOf
<1>13. Len(t) \in Nat /\ \A i \in 1..Len(t) : i \in 1..Len(s) /\ i < Len(s) /\ Len(s) \in 1..Len(s)
  BY <1>9, <1>11
<1>14. \A i \in 1..Len(t) : IsOpen(<<c, t[i]>>)'
  <2> SUFFICES ASSUME NEW i \in 1..Len(t) PROVE IsOpen(<<c, t[i]>>)'
    OBVIOUS
  <2>1. s[i] \in 1..Budget[c] /\ IsOpen(<<c, s[i]>>) /\ s[i] < n
    <3>1. s[i] < s[Len(s)]
      BY <1>12, <1>13
    <3> QED
      BY <1>11, <1>12, <1>13, <3>1
  <2>2. s[i] \in Nat /\ s[i] # n
    BY <1>1, <2>1, InList
  <2> QED
    BY <1>2, <1>11, <2>1, <2>2
<1>15. \A m \in 1..Budget[c] : IsOpen(<<c, m>>)' => \E i \in 1..Len(t) : t[i] = m
  <2> SUFFICES ASSUME NEW m \in 1..Budget[c], IsOpen(<<c, m>>)' PROVE \E i \in 1..Len(t) : t[i] = m
    OBVIOUS
  <2>1. m # n
    BY <1>1
  <2>2. PICK i \in 1..Len(s) : s[i] = m
    BY <1>2, <1>12, <2>1
  <2>3. i \in 1..Len(t)
    BY <1>11, <1>13, <2>1, <2>2
  <2> QED
    BY <1>11, <2>2, <2>3
<1>16. \A i, j \in 1..Len(t) : i < j => t[i] < t[j]
  BY <1>11, <1>12, <1>13
<1>17. OrderOf(c)'
  BY <1>10, <1>11, <1>14, <1>15, <1>16 DEF OrderOf
<1> QED
  BY <1>1, <1>9, <1>10, <1>11, <1>17

-----------------------------------------------------------------------------
(* What RemoteCalls and Chains see of a step.                              *)

\* Call k stays open or closed, and at its stage at both ends.
ChainStill(k) ==
    /\ IsOpen(k)' <=> IsOpen(k)
    /\ rpc'[k].conn = rpc[k].conn
    /\ Stage(k)' = Stage(k)
CallStill(k) ==
    /\ ChainStill(k)
    /\ rpc'[k].client = "none" <=> rpc[k].client = "none"
    /\ rpc'[k].client \in {"return", "done"} <=> rpc[k].client \in {"return", "done"}
ResultStays(k) == rpc'[k].res = rpc[k].res
BoundsStay == \A p \in Proc, c \in Client, t \in Thread :
    p # Home[c] => (Held(p, c, t)' <=> Held(p, c, t))

\* The variables of RemoteCalls.
LEMMA PromiseVars ==
    /\ Promise!vars = <<[id \in CallId |-> HandlerOf(id)], [id \in CallId |-> OutcomeOf(id)]>>
    /\ Promise!Init <=> /\ [id \in CallId |-> HandlerOf(id)] = [id \in CallId |-> "none"]
                        /\ [id \in CallId |-> OutcomeOf(id)] = [id \in CallId |-> "none"]
  BY DEF Promise!vars, Promise!Init, HandlerOf, OutcomeOf

\* The calls that a step does not touch.
LEMMA OthersStill ==
    ASSUME NEW id \in CallId, CallsBut(id)
    PROVE  \A k \in CallId : k # id => CallStill(k) /\ ResultStays(k)
  BY DEF CallsBut, CallStill, ChainStill, ResultStays, IsOpen, Stage

\* How a call that stays is to RemoteCalls.
LEMMA StillSame ==
    ASSUME NEW k \in CallId, CallStill(k), ResultStays(k)
    PROVE  HandlerOf(k)' = HandlerOf(k) /\ OutcomeOf(k)' = OutcomeOf(k)
<1>1. HandlerOf(k)' = HandlerOf(k)
  BY DEF CallStill, ChainStill, Stage, HandlerOf
<1>2. OutcomeOf(k)' = OutcomeOf(k)
  BY DEF CallStill, ChainStill, ResultStays, OutcomeOf
<1> QED
  BY <1>1, <1>2

-----------------------------------------------------------------------------
(* What is served goes on to be, by some thread.                           *)

\* No stack changes, and no call comes to be served.
LEMMA StayServed ==
    ASSUME ServedFramed, \A u \in Thread : thread'[u].stack = thread[u].stack,
           \A k \in CallId : rpc'[k].server \in Inside => rpc[k].server \in Inside
    PROVE  ServedFramed'
<1>1. \A u \in Thread : Frames(u)' = Frames(u)
  BY DEF Frames
<1> QED
  BY <1>1 DEF ServedFramed

\* A thread begins to serve a call.
LEMMA PushServed ==
    ASSUME IInv, TypeOK', ServedFramed, NEW t \in Thread, NEW f \in Frame, Pushed(t, f),
           \A k \in CallId : rpc'[k].server \in Inside =>
              rpc[k].server \in Inside \/ f = <<"handleCall", k>>
    PROVE  ServedFramed'
<1>1. \A u \in Thread : \A g \in Frame : g \in Frames(u) => g \in Frames(u)'
  BY PushedSet
<1>2. f \in Frames(t)'
  BY PushedSet
<1> QED
  BY <1>1, <1>2, IsFrame DEF ServedFramed

\* A frame goes, that of a call that is served no more or of client_call.
LEMMA PopServed ==
    ASSUME IInv, TypeOK', ServedFramed, NEW t \in Thread, NEW f \in Frame, OnTop(t, f), Popped(t),
           \A k \in CallId : rpc'[k].server \in Inside =>
              rpc[k].server \in Inside /\ f # <<"handleCall", k>>
    PROVE  ServedFramed'
<1>1. \A u \in Thread : \A g \in Frame : g \in Frames(u) /\ g # f => g \in Frames(u)'
  BY PoppedSet
<1> QED
  BY <1>1, IsFrame DEF ServedFramed

-----------------------------------------------------------------------------
(* The clients whose calls a step leaves open and closed.                  *)

\* What Chains sees of client c.
SameChain(c) == ChainOf(c)' = ChainOf(c) /\ AtOf(c)' = AtOf(c)

\* How the chain of a client is read off its open calls.
ChainRight(c) ==
    /\ ChainOf(c) \in Seq(Proc)
    /\ Len(Open(c)) \in Nat /\ Len(ChainOf(c)) = Len(Open(c))
    /\ \A i \in 1..Len(Open(c)) :
         /\ <<c, Open(c)[i]>> \in CallId /\ IsOpen(<<c, Open(c)[i]>>)
         /\ ChainOf(c)[i] = Owner[ServedAt(<<c, Open(c)[i]>>)]

\* It is a list of processes, one for each open call.
LEMMA ChainFacts ==
    ASSUME IInv, NEW c \in Client, OrderOf(c) PROVE ChainRight(c)
<1>1. PICK s \in Seq(1..Budget[c]) : s = Open(c)
  BY DEF OrderOf
<1>2. Len(s) \in Nat /\ DOMAIN s = 1..Len(s)
  BY <1>1
<1>3. \A i \in 1..Len(s) : <<c, s[i]>> \in CallId /\ IsOpen(<<c, s[i]>>)
  <2>1. \A i \in 1..Len(s) : s[i] \in 1..Budget[c]
    BY <1>1, InList
  <2> QED
    BY <1>1, <2>1, CallIds DEF OrderOf
<1>4. ChainOf(c) = [i \in 1..Len(s) |-> Owner[ServedAt(<<c, s[i]>>)]]
  BY <1>1, <1>2 DEF ChainOf
<1>5. \A i \in 1..Len(s) : Owner[ServedAt(<<c, s[i]>>)] \in Proc
  <2>1. \A i \in 1..Len(s) : ServedAt(<<c, s[i]>>) \in Conn
    BY <1>3, CallFacts DEF IsOpen
  <2> QED
    BY <2>1, OwnerFacts
<1>6. ChainOf(c) \in Seq(Proc) /\ Len(ChainOf(c)) = Len(s)
  BY <1>2, <1>4, <1>5
<1> QED
  BY <1>1, <1>2, <1>3, <1>4, <1>6 DEF ChainRight

\* All clients' open calls are in their order, and their chains are right.
OrderedAll == \A c \in Client : OrderOf(c)
ChainsRight == \A c \in Client : ChainRight(c)

\* The chains are right if the calls are in order.
LEMMA ChainsFacts == IInv /\ OrderedAll => ChainsRight
  BY ChainFacts DEF OrderedAll, ChainsRight

\* So they are after a step.
LEMMA ChainsFactsNext == IInv' /\ OrderedAll' => ChainsRight'
  BY ChainsFacts, PTL

\* That is what OpenOrdered says.
LEMMA OrderedIs == OpenOrdered <=> OrderedAll
  BY DEF OpenOrdered, OrderedAll, OrderOf

\* A client whose calls stay open and closed.
LEMMA ChainStays ==
    ASSUME IInv, IInv', NEW c \in Client, OrderOf(c),
           \A k \in CallId : k[1] = c => (IsOpen(k)' <=> IsOpen(k)) /\ rpc'[k].conn = rpc[k].conn
    PROVE  Open(c)' = Open(c) /\ OrderOf(c)' /\ ChainOf(c)' = ChainOf(c)
<1>1. Open(c)' = Open(c) /\ OrderOf(c)'
  BY OpenStays
<1>2. ChainRight(c)
  BY ChainFacts
<1>3. PICK s \in Seq(1..Budget[c]) : s = Open(c)
  BY DEF OrderOf
<1>4. DOMAIN s = 1..Len(s)
  BY <1>3
<1>5. \A i \in 1..Len(s) : LET k == <<c, s[i]>> IN k \in CallId /\ rpc'[k].conn = rpc[k].conn
  BY <1>2, <1>3 DEF ChainRight
<1>6. ChainOf(c)' = ChainOf(c)
  <2>1. \A i \in 1..Len(s) : Owner[ServedAt(<<c, s[i]>>)]' = Owner[ServedAt(<<c, s[i]>>)]
    BY <1>5 DEF ServedAt
  <2>2. ChainOf(c) = [i \in 1..Len(s) |-> Owner[ServedAt(<<c, s[i]>>)]]
    BY <1>3, <1>4 DEF ChainOf
  <2>3. ChainOf(c)' = [i \in 1..Len(s) |-> Owner[ServedAt(<<c, s[i]>>)]']
    BY <1>1, <1>3, <1>4 DEF ChainOf
  <2> QED
    BY <2>1, <2>2, <2>3
<1> QED
  BY <1>1, <1>6

\* A client whose calls stay at their stages too.
LEMMA ClientStays ==
    ASSUME IInv, IInv', NEW c \in Client, OrderOf(c),
           \A k \in CallId : k[1] = c => ChainStill(k)
    PROVE  Open(c)' = Open(c) /\ OrderOf(c)' /\ SameChain(c)
<1>1. Open(c)' = Open(c) /\ OrderOf(c)' /\ ChainOf(c)' = ChainOf(c)
  BY ChainStays DEF ChainStill
<1>2. PICK s \in Seq(1..Budget[c]) : s = Open(c)
  BY DEF OrderOf
<1>3. CASE s = <<>>
  BY <1>1, <1>2, <1>3 DEF AtOf, SameChain
<1>4. CASE s # <<>>
  <2>1. <<c, Last(s)>> \in CallId
    BY <1>2, <1>4, LastOpen
  <2>2. Stage(<<c, Last(s)>>)' = Stage(<<c, Last(s)>>)
    BY <2>1 DEF ChainStill
  <2> QED
    BY <1>1, <1>2, <1>4, <2>2 DEF AtOf, SameChain
<1> QED
  BY <1>1, <1>3, <1>4

\* All clients but one, when one call changes.
LEMMA OthersStay ==
    ASSUME IInv, IInv', RefinementInv, NEW id \in CallId, CallsBut(id)
    PROVE  /\ OrderOf(id[1]) /\ id[1] \in Client
           /\ \A d \in Client : d # id[1] => OrderOf(d)' /\ SameChain(d)
<1>1. \A d \in Client : OrderOf(d)
  BY OrderedIs DEF RefinementInv, OrderedAll
<1>2. id[1] \in Client
  BY CallIds
<1>3. ASSUME NEW d \in Client, d # id[1] PROVE OrderOf(d)' /\ SameChain(d)
  <2>1. \A k \in CallId : k[1] = d => ChainStill(k)
    BY <1>3, OthersStill DEF CallStill
  <2> QED
    BY <1>1, <2>1, ClientStays
<1> QED
  BY <1>1, <1>2, <1>3

\* The results of calls, when one call changes.
LEMMA ResultsStay ==
    ASSUME RefinementInv, NEW id \in CallId, CallsBut(id),
           rpc'[id].res = IF rpc'[id].client \in {"return", "done"} THEN "Success" ELSE None
    PROVE  ResultRight'
  BY DEF RefinementInv, ResultRight, CallsBut

\* A client's last call says where the client is.
LEMMA WhereClientIs ==
    ASSUME IInv, NEW id \in CallId, OrderOf(id[1]), IsOpen(id),
           \/ rpc[id].client # "wait" \/ rpc[id].server # "running"
           \/ \A l \in CallId : Before(id, l) => ~IsOpen(l)
    PROVE  LET c == id[1] IN
           /\ c \in Client /\ Open(c) # <<>> /\ id = <<c, Last(Open(c))>>
           /\ AtOf(c) = Stage(id)
           /\ Owner[ServedAt(id)] \in Proc
           /\ ChainOf(c) # <<>>
<1>1. id[1] \in Client /\ Open(id[1]) # <<>> /\ id = <<id[1], Last(Open(id[1]))>>
  BY IsLastOpen
<1>2. PICK c \in Client : c = id[1]
  BY <1>1
<1>3. AtOf(c) = Stage(id)
  BY <1>1, <1>2 DEF AtOf
<1>4. Owner[ServedAt(id)] \in Proc
  BY CallFacts, OwnerFacts DEF IsOpen
<1>5. ChainOf(c) # <<>>
  <2>1. ChainRight(c)
    BY <1>2, ChainFacts
  <2>2. PICK s \in Seq(1..Budget[c]) : s = Open(c)
    BY <1>2 DEF OrderOf
  <2>3. Len(s) # 0
    BY <1>1, <1>2, <2>2
  <2> QED
    BY <2>1, <2>2, <2>3 DEF ChainRight
<1> QED
  BY <1>1, <1>2, <1>3, <1>4, <1>5

\* A handler on top of a stack is that of its client's last call.
LEMMA TopLast ==
    ASSUME IInv, NEW t \in Thread, NEW id \in CallId, OnTop(t, <<"handleCall", id>>),
           rpc[id].server \in {"running", "release"}
    PROVE  /\ IsOpen(id) /\ rpc[id].client = "wait"
           /\ \/ rpc[id].server # "running"
              \/ \A l \in CallId : Before(id, l) => ~IsOpen(l)
<1>1. IsOpen(id) /\ rpc[id].client = "wait"
  BY CallFacts, IInvParts DEF EndsAgree, Through, IsOpen
<1>2. thread[t].stack # <<>> /\ Last(thread[t].stack) = <<"handleCall", id>>
  BY IInvParts DEF OnTop, StacksTyped, Last
<1>3. \A l \in CallId : Before(id, l) => ~IsOpen(l)
  BY <1>1, <1>2, IInvParts DEF Covered
<1> QED
  BY <1>1, <1>3

-----------------------------------------------------------------------------
(* Steps of RemoteCalls and Chains, told by what they see.                 *)

Refines ==
    /\ RefinementInv'
    /\ Promise!Next \/ UNCHANGED Promise!vars
    /\ UNCHANGED Nested!vars \/ Nested!Next

\* The variables of Chains.
LEMMA NestedVars ==
    Nested!vars = <<[c \in Client |-> ChainOf(c)], [c \in Client |-> AtOf(c)],
                    [c \in Client |-> [p \in Proc |-> ThreadIn(p, c)]]>>
  BY DEF Nested!vars

\* Clients keep their threads, if who waits for them stays.
LEMMA BoundsStaySame ==
    ASSUME IInv, IInv', BoundsStay
    PROVE  \A p \in Proc, c \in Client : ThreadIn(p, c)' = ThreadIn(p, c)
  BY BoundSame DEF BoundsStay

\* Nothing that RemoteCalls and Chains see.
LEMMA Quiet ==
    ASSUME IInv, IInv', RefinementInv, ServedFramed', BoundsStay,
           \A k \in CallId : CallStill(k) /\ ResultStays(k)
    PROVE  Refines
<1>1. UNCHANGED Promise!vars
  BY StillSame, PromiseVars DEF Promise!vars, HandlerOf, OutcomeOf
<1>2. \A c \in Client : OrderOf(c)
  BY OrderedIs DEF RefinementInv, OrderedAll
<1>3. \A c \in Client : OrderOf(c)' /\ SameChain(c)
  BY <1>2, ClientStays DEF CallStill
<1>4. UNCHANGED Nested!vars
  BY <1>3, BoundsStaySame DEF Nested!vars, SameChain
<1>5. ResultRight'
  BY DEF RefinementInv, ResultRight, CallStill, ChainStill, ResultStays
<1>6. OpenOrdered'
  BY <1>3 DEF OpenOrdered, OrderOf
<1> QED
  BY <1>1, <1>4, <1>5, <1>6 DEF Refines, RefinementInv

\* One call does what RemoteCalls says it may.
LEMMA PromiseSteps ==
    ASSUME NEW id \in CallId, \A k \in CallId : k # id => CallStill(k) /\ ResultStays(k)
    PROVE  LET h == HandlerOf(id)
               o == OutcomeOf(id)
           IN
           /\ h' = h /\ o' = o => UNCHANGED Promise!vars
           /\ h' = h /\ o = "none" /\ o' = "pending" => Promise!Next
           /\ h = "none" /\ o = "pending" /\ h' = "running" /\ o' = o => Promise!Next
           /\ h = "running" /\ h' = "over" /\ o' = o => Promise!Next
           /\ h = "over" /\ h' = h /\ o = "pending" /\ o' = "Success" => Promise!Next
<1>1. \A k \in CallId : k # id => HandlerOf(k)' = HandlerOf(k) /\ OutcomeOf(k)' = OutcomeOf(k)
  BY StillSame
<1>2. HandlerOf(id)' = HandlerOf(id) /\ OutcomeOf(id)' = OutcomeOf(id) => UNCHANGED Promise!vars
  BY <1>1 DEF Promise!vars, HandlerOf, OutcomeOf
<1>3. HandlerOf(id)' = HandlerOf(id) /\ OutcomeOf(id) = "none" /\ OutcomeOf(id)' = "pending" => Promise!Invoke(id)
  BY <1>1 DEF Promise!Invoke, HandlerOf, OutcomeOf
<1>4. HandlerOf(id) = "none" /\ OutcomeOf(id) = "pending" /\ HandlerOf(id)' = "running"
        /\ OutcomeOf(id)' = OutcomeOf(id) => Promise!Start(id)
  BY <1>1 DEF Promise!Start, HandlerOf, OutcomeOf
<1>5. HandlerOf(id) = "running" /\ HandlerOf(id)' = "over" /\ OutcomeOf(id)' = OutcomeOf(id) => Promise!End(id)
  BY <1>1 DEF Promise!End, HandlerOf, OutcomeOf
<1>6. HandlerOf(id) = "over" /\ HandlerOf(id)' = HandlerOf(id) /\ OutcomeOf(id) = "pending"
        /\ OutcomeOf(id)' = "Success" => Promise!Succeed(id)
  BY <1>1 DEF Promise!Succeed, HandlerOf, OutcomeOf
<1> QED
  BY <1>2, <1>3, <1>4, <1>5, <1>6 DEF Promise!Next

\* The process of a client's last call, or its own.
PlaceOf(c) == IF Open(c) = <<>> THEN Home[c] ELSE Owner[ServedAt(<<c, Last(Open(c))>>)]

\* To Chains that is where the client is.
LEMMA PlaceIs ==
    ASSUME IInv, NEW c \in Client, OrderOf(c) PROVE Nested!Place(c) = PlaceOf(c)
<1>1. ChainRight(c)
  BY ChainFacts
<1>2. PICK s \in Seq(1..Budget[c]) : s = Open(c)
  BY DEF OrderOf
<1>3. PICK r \in Seq(Proc) : r = ChainOf(c)
  BY <1>1 DEF ChainRight
<1>4. Nested!Place(c) = IF r = <<>> THEN Home[c] ELSE r[Len(r)]
  BY <1>3 DEF Nested!Place
<1>5. CASE s = <<>>
  BY <1>1, <1>2, <1>3, <1>4, <1>5 DEF ChainRight, PlaceOf
<1>6. CASE s # <<>>
  <2>1. Len(s) \in Nat \ {0} /\ Last(s) = s[Len(s)]
    BY <1>2, <1>6, FrontFacts
  <2>2. Len(r) = Len(s) /\ r # <<>> /\ Len(s) \in 1..Len(s)
    BY <1>1, <1>2, <1>3, <2>1 DEF ChainRight
  <2>3. r[Len(r)] = Owner[ServedAt(<<c, s[Len(s)]>>)]
    BY <1>1, <1>2, <1>3, <2>2 DEF ChainRight
  <2> QED
    BY <1>2, <1>4, <1>6, <2>1, <2>2, <2>3 DEF PlaceOf
<1> QED
  BY <1>5, <1>6

\* The threads of all clients, when that of one in one process changes.
BoundAt(P, c, w) ==
    [d \in Client |-> [p \in Proc |-> ThreadIn(p, d)]]'
      = [[d \in Client |-> [p \in Proc |-> ThreadIn(p, d)]] EXCEPT ![c] = [@ EXCEPT ![P] = w]]

\* So it is written when no other thread of a client changes.
LEMMA BoundsChange ==
    ASSUME NEW P \in Proc, NEW c \in Client, NEW w, ThreadIn(P, c)' = w,
           \A p \in Proc, d \in Client : p # P \/ d # c => ThreadIn(p, d)' = ThreadIn(p, d)
    PROVE  BoundAt(P, c, w)
<1>1. PICK b : b = [d \in Client |-> [p \in Proc |-> ThreadIn(p, d)]]
  OBVIOUS
<1>2. PICK r : r = [b EXCEPT ![c] = [@ EXCEPT ![P] = w]]
  OBVIOUS
<1>3. r = [d \in Client |-> [p \in Proc |-> IF p = P /\ d = c THEN w ELSE ThreadIn(p, d)]]
  BY <1>1, <1>2
<1>4. \A d \in Client : \A p \in Proc :
        ThreadIn(p, d)' = IF p = P /\ d = c THEN w ELSE ThreadIn(p, d)
  OBVIOUS
<1>5. [d \in Client |-> [p \in Proc |-> ThreadIn(p, d)]]' = r
  BY <1>3, <1>4
<1> QED
  BY <1>1, <1>2, <1>5 DEF BoundAt

\* The threads that clients have in processes stay, or stay but one.
SameBounds == \A p \in Proc, d \in Client : ThreadIn(p, d)' = ThreadIn(p, d)
BoundsBut(P, c) == \A p \in Proc, d \in Client :
    p # P \/ d # c => ThreadIn(p, d)' = ThreadIn(p, d)

\* One client does what Chains says it may.
LEMMA NestedSteps ==
    ASSUME NEW c \in Client, \A d \in Client : d # c => SameChain(d), NEW P, P = Nested!Place(c)
    PROVE  /\ SameChain(c) /\ SameBounds => UNCHANGED Nested!vars
           /\ \A p \in Proc :
                AtOf(c) = "running" /\ AtOf(c)' = "called" /\ ChainOf(c)' = Append(ChainOf(c), p)
                  /\ SameBounds => Nested!Next
           /\ \A i \in 1..MaxWorkers :
                AtOf(c) = "called" /\ SameChain(c) /\ P \in Proc /\ ThreadIn(P, c) = None
                  /\ (\A d \in Client : ThreadIn(P, d) # <<P, i>>)
                  /\ ThreadIn(P, c)' = <<P, i>> /\ BoundsBut(P, c) => Nested!Next
           /\ AtOf(c) = "called" /\ AtOf(c)' = "running" /\ ChainOf(c)' = ChainOf(c)
                /\ P \in Proc /\ ThreadIn(P, c) # None /\ SameBounds => Nested!Next
           /\ AtOf(c) = "running" /\ AtOf(c)' = "over" /\ ChainOf(c)' = ChainOf(c)
                /\ ChainOf(c) # <<>> /\ SameBounds => Nested!Next
           /\ AtOf(c) = "over" /\ AtOf(c)' = "returned" /\ ChainOf(c)' = ChainOf(c)
                /\ P \in Nested!Passed(c) /\ SameBounds => Nested!Next
           /\ AtOf(c) = "over" /\ AtOf(c)' = "returned" /\ ChainOf(c)' = ChainOf(c)
                /\ P \in Proc /\ P \notin Nested!Passed(c)
                /\ ThreadIn(P, c)' = None /\ BoundsBut(P, c) => Nested!Next
           /\ AtOf(c) = "returned" /\ AtOf(c)' = "running"
                /\ ChainOf(c)' = SubSeq(ChainOf(c), 1, Len(ChainOf(c)) - 1) /\ SameBounds => Nested!Next
<1>1. SameChain(c) /\ SameBounds => UNCHANGED Nested!vars
  BY DEF Nested!vars, SameChain, SameBounds
<1>2. ASSUME AtOf(c) = "running", AtOf(c)' = "called",
             NEW p \in Proc, ChainOf(c)' = Append(ChainOf(c), p), SameBounds
      PROVE  Nested!Next
  <2>1. Nested!Call(c, p)
    BY <1>2 DEF Nested!Call, SameChain, SameBounds
  <2> QED
    BY <2>1 DEF Nested!Next
<1>3. ASSUME AtOf(c) = "called", SameChain(c), P \in Proc, ThreadIn(P, c) = None, NEW i \in 1..MaxWorkers,
             \A d \in Client : ThreadIn(P, d) # <<P, i>>, ThreadIn(P, c)' = <<P, i>>, BoundsBut(P, c)
      PROVE  Nested!Next
  <2>1. PICK w : w = <<P, i>>
    OBVIOUS
  <2>2. BoundAt(P, c, w)
    BY <1>3, <2>1, BoundsChange DEF BoundsBut
  <2>3. w \in {P} \X (1..MaxWorkers)
    BY <2>1
  <2>4. Nested!Bind(c)
    BY <1>1, <1>3, <2>1, <2>2, <2>3 DEF Nested!Bind, SameChain, BoundAt
  <2> QED
    BY <2>4 DEF Nested!Next
<1>4. ASSUME AtOf(c) = "called", AtOf(c)' = "running", ChainOf(c)' = ChainOf(c),
             P \in Proc, ThreadIn(P, c) # None, SameBounds
      PROVE  Nested!Next
  <2>1. Nested!Serve(c)
    BY <1>4 DEF Nested!Serve, SameChain, SameBounds
  <2> QED
    BY <2>1 DEF Nested!Next
<1>5. ASSUME AtOf(c) = "running", AtOf(c)' = "over", ChainOf(c)' = ChainOf(c), ChainOf(c) # <<>>, SameBounds
      PROVE  Nested!Next
  <2>1. Nested!Finish(c)
    BY <1>5 DEF Nested!Finish, SameChain, SameBounds
  <2> QED
    BY <2>1 DEF Nested!Next
<1>6. ASSUME AtOf(c) = "over", AtOf(c)' = "returned", ChainOf(c)' = ChainOf(c), P \in Nested!Passed(c), SameBounds
      PROVE  Nested!Next
  <2>1. Nested!Release(c)
    BY <1>6 DEF Nested!Release, SameChain, SameBounds
  <2> QED
    BY <2>1 DEF Nested!Next
<1>7. ASSUME AtOf(c) = "over", AtOf(c)' = "returned", ChainOf(c)' = ChainOf(c),
             P \in Proc, P \notin Nested!Passed(c),
             ThreadIn(P, c)' = None, BoundsBut(P, c)
      PROVE  Nested!Next
  <2>1. BoundAt(P, c, None)
    BY <1>7, BoundsChange DEF BoundsBut
  <2>2. Nested!Release(c)
    BY <1>7, <2>1 DEF Nested!Release, SameChain, BoundAt
  <2> QED
    BY <2>2 DEF Nested!Next
<1>8. ASSUME AtOf(c) = "returned", AtOf(c)' = "running",
             ChainOf(c)' = SubSeq(ChainOf(c), 1, Len(ChainOf(c)) - 1), SameBounds
      PROVE  Nested!Next
  <2>1. Nested!Resume(c)
    BY <1>8 DEF Nested!Resume, SameChain, SameBounds
  <2> QED
    BY <2>1 DEF Nested!Next
<1> QED
  BY <1>1, <1>2, <1>3, <1>4, <1>5, <1>6, <1>7, <1>8

-----------------------------------------------------------------------------
(* Steps that RemoteCalls and Chains do not see.                           *)

\* The lists stay, and the thread id of every thread.
LEMMA BoundsKept ==
    ASSUME waiting_threads' = waiting_threads,
           \A u \in Thread : thread'[u].original_tid = thread[u].original_tid
    PROVE  BoundsStay
  BY DEF BoundsStay, Held, Waiting

\* client_call goes on, short of its return.
LEMMA ClientQuiet ==
    ASSUME IInv, IInv', RefinementInv, NEW t \in Thread, NEW id \in CallId, ClientMoves(t, id),
           rpc[id].client # "wait", ResultStays(id), BoundsStay
    PROVE  Refines
<1>1. CallsBut(id) /\ SameMade(id) /\ rpc'[id].server = rpc[id].server
  BY DEF ClientMoves
<1>2. /\ rpc[id].client \notin {"none", "done", "return"}
      /\ rpc'[id].client \notin {"none", "done", "return"}
  BY DEF ClientMoves, IsOpen
<1>3. CallStill(id)
  BY <1>1, <1>2 DEF CallStill, ChainStill, IsOpen, Stage, SameMade
<1>4. \A k \in CallId : CallStill(k) /\ ResultStays(k)
  BY <1>1, <1>3, OthersStill
<1>5. ServedFramed'
  <2>1. \A k \in CallId : rpc'[k].server \in Inside => rpc[k].server \in Inside
    BY <1>1 DEF CallsBut
  <2>2. \A u \in Thread : thread'[u].stack = thread[u].stack
    BY DEF ClientMoves, StacksStay
  <2> QED
    BY <2>1, <2>2, StayServed DEF RefinementInv
<1> QED
  BY <1>4, <1>5, Quiet

\* handleCall goes on, once the return may be sent.
LEMMA ServerQuiet ==
    ASSUME IInv, IInv', RefinementInv, NEW t \in Thread, NEW id \in CallId, ServerMoves(t, id),
           rpc[id].server \notin {"running", "release"}, ResultStays(id),
           waiting_threads' = waiting_threads
    PROVE  Refines
<1>1. CallsBut(id) /\ SameMade(id) /\ rpc'[id].client = rpc[id].client
  BY DEF ServerMoves
<1>2. /\ rpc[id].server \in Inside \ {"running", "release"}
      /\ rpc'[id].server \in Inside \ {"running", "release"}
  BY DEF ServerMoves
<1>3. CallStill(id)
  BY <1>1, <1>2 DEF CallStill, ChainStill, IsOpen, Stage, SameMade, Inside
<1>4. \A k \in CallId : CallStill(k) /\ ResultStays(k)
  BY <1>1, <1>3, OthersStill
<1>5. ServedFramed'
  <2>1. \A k \in CallId : rpc'[k].server \in Inside => rpc[k].server \in Inside
    BY <1>1, <1>2 DEF CallsBut
  <2>2. \A u \in Thread : thread'[u].stack = thread[u].stack
    BY DEF ServerMoves, StacksStay
  <2> QED
    BY <2>1, <2>2, StayServed DEF RefinementInv
<1>6. BoundsStay
  BY BoundsKept DEF ServerMoves, StacksStay
<1> QED
  BY <1>4, <1>5, <1>6, Quiet

\* No call moves, and no stack does.
LEMMA ReaderQuiet ==
    ASSUME IInv, IInv', RefinementInv, rpc' = rpc, waiting_threads' = waiting_threads,
           \A u \in Thread : /\ thread'[u].stack = thread[u].stack
                             /\ thread'[u].original_tid = thread[u].original_tid
    PROVE  Refines
<1>1. \A k \in CallId : CallStill(k) /\ ResultStays(k)
  BY DEF CallStill, ChainStill, ResultStays, IsOpen, Stage
<1>2. ServedFramed'
  BY StayServed DEF RefinementInv
<1> QED
  BY <1>1, <1>2, BoundsKept, Quiet

\* acquireWaitingThread finds the thread itself, in an outer call, or nobody.
LEMMA AcquireRefines ==
    ASSUME IInv, RefinementInv, NEW t \in Thread, NEW id \in CallId, Acquire(t, id)
    PROVE  Refines
<1>1. IInv' /\ ClientMoves(t, id)
  BY AcquireKeeps
<1>2. rpc[id].client = "acquire" /\ waiting_threads' = waiting_threads
  BY DEF Acquire, Calling
<1>3. rpc \in [CallId -> RpcRec]
  BY IInvParts DEF TypeOK
<1>4. ResultStays(id)
  BY <1>3, GotoClient DEF Acquire, ResultStays, ClientPC
<1>5. BoundsStay
  BY <1>1, <1>2, BoundsKept DEF ClientMoves, StacksStay
<1> QED
  BY <1>1, <1>2, <1>4, <1>5, ClientQuiet

\* recursion_count of the first call.
LEMMA CountFirstRefines ==
    ASSUME IInv, RefinementInv, NEW t \in Thread, NEW id \in CallId, CountFirst(t, id)
    PROVE  Refines
<1>1. IInv' /\ ClientMoves(t, id)
  BY CountFirstKeeps
<1>2. rpc[id].client = "count" /\ waiting_threads' = waiting_threads
  BY DEF CountFirst, Calling
<1>3. rpc \in [CallId -> RpcRec]
  BY IInvParts DEF TypeOK
<1>4. ResultStays(id)
  BY <1>3, GotoClient DEF CountFirst, ResultStays, ClientPC
<1>5. BoundsStay
  BY <1>1, <1>2, BoundsKept DEF ClientMoves, StacksStay
<1> QED
  BY <1>1, <1>2, <1>4, <1>5, ClientQuiet

\* sendMessage lets the call be written.
LEMMA SendRefines ==
    ASSUME IInv, RefinementInv, NEW t \in Thread, NEW id \in CallId, Send(t, id)
    PROVE  Refines
<1>1. IInv' /\ ClientMoves(t, id)
  BY SendKeeps
<1>2. rpc[id].client = "send" /\ waiting_threads' = waiting_threads
  BY DEF Send, Calling
<1>3. rpc \in [CallId -> RpcRec]
  BY IInvParts DEF TypeOK
<1>4. ResultStays(id)
  BY <1>3, GotoClient DEF Send, ResultStays, ClientPC
<1>5. BoundsStay
  BY <1>1, <1>2, BoundsKept DEF ClientMoves, StacksStay
<1> QED
  BY <1>1, <1>2, <1>4, <1>5, ClientQuiet

\* The call is on its way, which to RemoteCalls it was when it was made.
LEMMA WriteRefines ==
    ASSUME IInv, RefinementInv, NEW t \in Thread, NEW id \in CallId, Write(t, id)
    PROVE  Refines
<1>1. IInv' /\ ClientMoves(t, id)
  BY WriteKeeps
<1>2. rpc[id].client = "sending" /\ waiting_threads' = waiting_threads
  BY DEF Write, Calling
<1>3. rpc \in [CallId -> RpcRec]
  BY IInvParts DEF TypeOK
<1>4. ResultStays(id)
  BY <1>3, GotoClient DEF Write, ResultStays, ClientPC
<1>5. BoundsStay
  BY <1>1, <1>2, BoundsKept DEF ClientMoves, StacksStay
<1> QED
  BY <1>1, <1>2, <1>4, <1>5, ClientQuiet

\* sendMessage lets the return be written; to Chains it has been sent since the
\* thread was unregistered.
LEMMA ReplyRefines ==
    ASSUME IInv, RefinementInv, NEW t \in Thread, NEW id \in CallId, Reply(t, id)
    PROVE  Refines
<1>1. IInv' /\ ServerMoves(t, id)
  BY ReplyKeeps
<1>2. rpc[id].server = "reply" /\ waiting_threads' = waiting_threads
  BY DEF Reply, Serving
<1>3. rpc \in [CallId -> RpcRec]
  BY IInvParts DEF TypeOK
<1>4. ResultStays(id)
  BY <1>3 DEF Reply, Unanswered, ResultStays, RpcRec
<1> QED
  BY <1>1, <1>2, <1>4, ServerQuiet

\* The return is on its way.
LEMMA WriteReplyRefines ==
    ASSUME IInv, RefinementInv, NEW t \in Thread, NEW id \in CallId, WriteReply(t, id)
    PROVE  Refines
<1>1. IInv' /\ ServerMoves(t, id)
  BY WriteReplyKeeps
<1>2. rpc[id].server = "sending" /\ waiting_threads' = waiting_threads
  BY DEF WriteReply, Serving
<1>3. rpc \in [CallId -> RpcRec]
  BY IInvParts DEF TypeOK
<1>4. ResultStays(id)
  BY <1>3 DEF WriteReply, Answered, Unanswered, ResultStays, RpcRec
<1> QED
  BY <1>1, <1>2, <1>4, ServerQuiet

\* The connection counts one incoming call less.
LEMMA CallOutRefines ==
    ASSUME IInv, RefinementInv, NEW t \in Thread, NEW id \in CallId, CallOut(t, id)
    PROVE  Refines
<1>1. IInv' /\ ServerMoves(t, id)
  BY CallOutKeeps
<1>2. rpc[id].server = "callout" /\ waiting_threads' = waiting_threads
  BY DEF CallOut, Serving
<1>3. rpc \in [CallId -> RpcRec]
  BY IInvParts DEF TypeOK
<1>4. ResultStays(id)
  BY <1>3, GotoServer DEF CallOut, ResultStays, ServerPC
<1> QED
  BY <1>1, <1>2, <1>4, ServerQuiet

\* No cleanup is due, as no connection is Closed.
LEMMA CallOutCleanupRefines ==
    ASSUME IInv, RefinementInv, NEW t \in Thread, NEW id \in CallId, CallOutCleanup(t, id)
    PROVE  Refines
<1>1. IInv' /\ ServerMoves(t, id)
  BY CallOutCleanupKeeps
<1>2. rpc[id].server = "cleanup" /\ waiting_threads' = waiting_threads
  BY DEF CallOutCleanup, Serving
<1>3. rpc \in [CallId -> RpcRec]
  BY IInvParts DEF TypeOK
<1>4. ResultStays(id)
  BY <1>3, GotoServer DEF CallOutCleanup, ResultStays, ServerPC
<1> QED
  BY <1>1, <1>2, <1>4, ServerQuiet

\* handleCall returns.
LEMMA LeaveRefines ==
    ASSUME IInv, RefinementInv, NEW t \in Thread, NEW id \in CallId, Leave(t, id)
    PROVE  Refines
<1>1. IInv' /\ HandlerLeaves(t, id)
  BY LeaveKeeps
<1>2. rpc[id].server = "leave" /\ waiting_threads' = waiting_threads
  BY DEF Leave, Serving
<1>3. rpc \in [CallId -> RpcRec] /\ rpc[id].served = "Success" /\ TypeOK'
  BY <1>1, <1>2, IInvParts, CallFacts DEF TypeOK, Through, IInv
<1>4. ResultStays(id)
  BY <1>3 DEF Leave, ResultStays, RpcRec
<1>5. CallStill(id)
  BY <1>1 DEF HandlerLeaves, CallStill, ChainStill, IsOpen, Stage, SameMade
<1>6. \A k \in CallId : CallStill(k) /\ ResultStays(k)
  BY <1>1, <1>4, <1>5, OthersStill DEF HandlerLeaves
<1>7. ServedFramed'
  <2>1. PICK f \in Frame : f = <<"handleCall", id>>
    BY IsFrame
  <2>2. \A k \in CallId : rpc'[k].server \in Inside => rpc[k].server \in Inside /\ f # <<"handleCall", k>>
    BY <1>1, <2>1 DEF HandlerLeaves, CallsBut, Inside
  <2>3. OnTop(t, f) /\ Popped(t)
    BY <1>1, <2>1 DEF HandlerLeaves
  <2> QED
    BY <1>3, <2>2, <2>3, PopServed DEF RefinementInv
<1>8. BoundsStay
  BY <1>1, <1>2, BoundsKept DEF HandlerLeaves, Popped
<1> QED
  BY <1>1, <1>6, <1>7, <1>8, Quiet

-----------------------------------------------------------------------------
(* The reader.                                                             *)

\* What it does but for registering a worker and handing over a call.
LEMMA ReaderRefines ==
    ASSUME IInv, RefinementInv, TidsDiffer, NEW e \in Conn,
           \/ ReaderCheck(e) \/ RecvMessage(e) \/ AcquireWaiting(e) \/ GetFreeWorker(e)
           \/ CountWorker(e) \/ FindWaiting(e) \/ Deliver(e)
    PROVE  Refines
<1>1. IInv'
  BY ReaderCheckKeeps, RecvMessageKeeps, AcquireWaitingKeeps, GetFreeWorkerKeeps,
     CountWorkerKeeps, FindWaitingKeeps, DeliverKeeps
<1>2. rpc' = rpc /\ waiting_threads' = waiting_threads
  BY DEF ReaderCheck, RecvMessage, AcquireWaiting, GetFreeWorker, CountWorker, FindWaiting, Deliver, Only
<1>3. thread \in [Thread -> ThreadRec]
  BY IInvParts DEF TypeOK
<1>4. \A u \in Thread : /\ thread'[u].stack = thread[u].stack
                        /\ thread'[u].original_tid = thread[u].original_tid
  <2>1. CASE thread' = thread
    BY <2>1
  <2>2. CASE \E w : thread' = [thread EXCEPT ![w].recursion_count = @ + 1]
                  \/ thread' = [thread EXCEPT ![w].recursion_count = 1]
    <3>1. PICK w : \/ thread' = [thread EXCEPT ![w].recursion_count = @ + 1]
                   \/ thread' = [thread EXCEPT ![w].recursion_count = 1]
      BY <2>2
    <3> SUFFICES ASSUME NEW u \in Thread
        PROVE  thread'[u].stack = thread[u].stack /\ thread'[u].original_tid = thread[u].original_tid
      OBVIOUS
    <3>3. PICK r \in ThreadRec : r = thread[u]
      BY <1>3
    <3>4. \/ thread'[u] = r
          \/ thread'[u] = [r EXCEPT !.recursion_count = @ + 1]
          \/ thread'[u] = [r EXCEPT !.recursion_count = 1]
      BY <1>3, <3>1, <3>3
    <3> QED
      BY <3>3, <3>4 DEF ThreadRec
  <2>3. CASE Deliver(e)
    <3>1. conn[e].reader = "data"
      BY <2>3 DEF Deliver, Reading
    <3>2. conn[e].thr \in Thread
      BY <3>1, AimedFacts DEF Aims, Aiming
    <3>3. /\ ThreadsBut(conn[e].thr) /\ SameId(conn[e].thr) /\ SameRun(conn[e].thr)
      BY <2>3, <3>2, IInvParts, DeliverDoes
    <3> QED
      BY <3>3 DEF ThreadsBut, SameId, SameRun
  <2> QED
    BY <2>1, <2>2, <2>3 DEF ReaderCheck, RecvMessage, AcquireWaiting, GetFreeWorker, CountWorker,
                            FindWaiting, Only, CountUp
<1> QED
  BY <1>1, <1>2, <1>4, ReaderQuiet

\* It hands over a message: of the stages of calls only that changes, which is
\* called, posted or not.
LEMMA PostRefines ==
    ASSUME IInv, RefinementInv, NEW e \in Conn, Post(e)
    PROVE  Refines
<1>1. IInv'
  BY PostCallKeeps, PostReturnKeeps
<1>2. PICK m : m = conn[e].msg
  OBVIOUS
<1>3. PICK w : w = conn[e].thr
  OBVIOUS
<1>4. /\ m \in Msg /\ m.id \in CallId
      /\ m.cmd = "CmdCall" => rpc[m.id].server = "none"
      /\ w \in Thread
  BY <1>2, <1>3, PostFacts
<1>5. /\ waiting_threads' = waiting_threads
      /\ ThreadsBut(w) /\ SameId(w) /\ SameRun(w)
      /\ m.cmd = "CmdCall" => CallAt(m.id, rpc[m.id].client, "posted")
      /\ m.cmd # "CmdCall" => rpc' = rpc
  BY <1>2, <1>3, <1>4, IInvParts, PostDoes
<1>6. \A u \in Thread : /\ thread'[u].stack = thread[u].stack
                        /\ thread'[u].original_tid = thread[u].original_tid
  BY <1>5 DEF ThreadsBut, SameId, SameRun
<1>7. CASE m.cmd # "CmdCall"
  BY <1>1, <1>5, <1>6, <1>7, ReaderQuiet
<1>8. CASE m.cmd = "CmdCall"
  <2>1. PICK id \in CallId : id = m.id
    BY <1>4
  <2>2. /\ CallsBut(id) /\ SameMade(id) /\ rpc'[id].client = rpc[id].client
        /\ rpc[id].server = "none" /\ rpc'[id].server = "posted"
    BY <1>4, <1>5, <1>8, <2>1 DEF CallAt
  <2>3. rpc \in [CallId -> RpcRec]
    BY IInvParts DEF TypeOK
  <2>4. rpc' = [rpc EXCEPT ![id]["server"] = "posted"]
    BY <1>2, <1>8, <2>1 DEF Post, Goto
  <2>5. ResultStays(id)
    BY <2>3, <2>4 DEF ResultStays, RpcRec
  <2>6. CallStill(id)
    BY <2>2 DEF CallStill, ChainStill, IsOpen, Stage, SameMade
  <2>7. \A k \in CallId : CallStill(k) /\ ResultStays(k)
    BY <2>2, <2>5, <2>6, OthersStill
  <2>8. ServedFramed'
    <3>1. \A k \in CallId : rpc'[k].server \in Inside => rpc[k].server \in Inside
      BY <2>2 DEF CallsBut, Inside
    <3> QED
      BY <1>6, <3>1, StayServed DEF RefinementInv
  <2> QED
    BY <1>1, <1>5, <1>6, <2>7, <2>8, BoundsKept, Quiet
<1> QED
  BY <1>7, <1>8

\* Nothing happens.
LEMMA StutterRefines ==
    ASSUME IInv, RefinementInv, UNCHANGED vars PROVE Refines
<1>1. IInv'
  BY StutterKeeps
<1>2. rpc' = rpc /\ waiting_threads' = waiting_threads /\ thread' = thread
  BY DEF vars
<1> QED
  BY <1>1, <1>2, ReaderQuiet

-----------------------------------------------------------------------------
(* Clients come and go in the list of their own process.                   *)

\* Who is held for a client elsewhere is no client.
LEMMA HeldWorker ==
    ASSUME IInv, TidsDiffer, NEW p \in Proc, NEW c \in Client, NEW t \in Thread, p # Home[c], Held(p, c, t)
    PROVE  t \notin Client /\ t \in Worker /\ Process(t) = p
<1>1. Process(t) = p /\ thread[t].original_tid = Tid[c]
  BY IInvParts DEF Held, WaitingRight
<1>2. t \notin Client
  <2> SUFFICES ASSUME t \in Client PROVE FALSE
    OBVIOUS
  <2>1. thread[t].original_tid = Tid[t]
    BY IInvParts DEF WaitingRight
  <2>2. t = c
    BY <1>1, <2>1 DEF TidsDiffer
  <2> QED
    BY <1>1, <2>2 DEF Process
<1> QED
  BY <1>1, <1>2 DEF Thread

\* Whoever is held for a client elsewhere is a worker of that process.
HeldWorkers == \A p \in Proc, c \in Client, t \in Thread :
    p # Home[c] /\ Held(p, c, t) => t \notin Client /\ t \in Worker /\ Process(t) = p

\* So they are ...
LEMMA HeldWorkersIs == TidsDiffer /\ IInv => HeldWorkers
  BY HeldWorker DEF HeldWorkers

\* ... and are after a step.
LEMMA HeldWorkersNext == TidsDiffer /\ IInv' => HeldWorkers'
<1>1. TidsDiffer' <=> TidsDiffer
  BY DEF TidsDiffer
<1> QED
  BY <1>1, HeldWorkersIs, PTL

\* The list of one process changes by a client.
LEMMA ClientComes ==
    ASSUME IInv, IInv', TidsDiffer, NEW t \in Client,
           \A p \in Proc, u \in Thread : u # t => (u \in Waiting(p)' <=> u \in Waiting(p)),
           \A u \in Thread : thread'[u].original_tid = thread[u].original_tid
    PROVE  BoundsStay
<1> SUFFICES ASSUME NEW p \in Proc, NEW c \in Client, NEW u \in Thread, p # Home[c]
    PROVE  Held(p, c, u)' <=> Held(p, c, u)
  BY DEF BoundsStay
<1>1. CASE u = t
  BY <1>1, HeldWorkersIs, HeldWorkersNext DEF HeldWorkers
<1>2. CASE u # t
  BY <1>2 DEF Held
<1> QED
  BY <1>1, <1>2

\* addWaitingThread.
LEMMA RegisterRefines ==
    ASSUME IInv, RefinementInv, TidsDiffer, NEW t \in Thread, NEW id \in CallId, Register(t, id)
    PROVE  Refines
<1>1. IInv' /\ ClientMoves(t, id)
  BY RegisterKeeps
<1>2. rpc[id].client = "add" /\ OnTop(t, <<"client_call", id>>)
  BY <1>1 DEF Register, Calling, ClientMoves
<1>3. rpc \in [CallId -> RpcRec]
  BY IInvParts DEF TypeOK
<1>4. ResultStays(id)
  BY <1>3, GotoClient DEF Register, ResultStays, ClientPC
<1>5. t \in Client
  <2>1. AddsIt(t, id)
    BY <1>2, TopPlaced DEF AddsIt
  <2> QED
    BY <2>1, AddingFacts
<1>6. BoundsStay
  <2>1. PICK p \in Proc : p = Process(t)
    BY Processes
  <2>2. /\ waiting_threads'[p] = Append(waiting_threads[p], t)
        /\ \A q \in Proc \ {p} : waiting_threads'[q] = waiting_threads[q]
    BY <2>1, IInvParts, RegisterDoes
  <2>3. /\ Waiting(p)' = Waiting(p) \cup {t}
        /\ \A q \in Proc : q # p => Waiting(q)' = Waiting(q)
    BY <1>1, <2>2, IInvParts, WaitingMore DEF IInv
  <2>4. \A q \in Proc, u \in Thread : u # t => (u \in Waiting(q)' <=> u \in Waiting(q))
    BY <2>3
  <2>5. \A u \in Thread : thread'[u].original_tid = thread[u].original_tid
    BY <1>1 DEF ClientMoves, StacksStay
  <2> QED
    BY <1>1, <1>5, <2>4, <2>5, ClientComes
<1> QED
  BY <1>1, <1>2, <1>4, <1>6, ClientQuiet

-----------------------------------------------------------------------------
(* Steps of a call that RemoteCalls or Chains see.                         *)

\* What the results of calls are to RemoteCalls.
LEMMA Outcomes ==
    ASSUME RefinementInv, NEW k \in CallId
    PROVE  OutcomeOf(k) = IF rpc[k].client = "none" THEN "none"
                          ELSE IF rpc[k].client \in {"return", "done"} THEN "Success" ELSE "pending"
<1>1. None # "Success"
  BY ResultAssumption DEF Result
<1> QED
  BY <1>1 DEF OutcomeOf, RefinementInv, ResultRight

\* Whoever was ordered is.
LEMMA OrderedStill ==
    ASSUME NEW c \in Client, OrderOf(c)', \A d \in Client : d # c => OrderOf(d)' PROVE OpenOrdered'
  BY DEF OpenOrdered, OrderOf

\* The return of a call is taken: to RemoteCalls it has succeeded.
LEMMA TakeReturnRefines ==
    ASSUME IInv, RefinementInv, NEW t \in Thread, NEW id \in CallId, TakeReturn(t, id)
    PROVE  Refines
<1>1. IInv' /\ ClientMoves(t, id)
  BY TakeReturnKeeps
<1>2. rpc[id].client = "wait" /\ waiting_threads' = waiting_threads
  BY DEF TakeReturn, Calling
<1>3. /\ CallsBut(id) /\ SameMade(id) /\ rpc'[id].server = rpc[id].server
      /\ rpc[id].server \in Through /\ rpc'[id].client = "return"
  BY <1>1, <1>2 DEF ClientMoves
<1>4. rpc \in [CallId -> RpcRec]
  BY IInvParts DEF TypeOK
<1>5. rpc'[id].res = "Success"
  BY <1>4 DEF TakeReturn, RpcRec
<1>6. ResultRight'
  BY <1>3, <1>5, ResultsStay
<1>7. ServedFramed'
  <2>1. \A k \in CallId : rpc'[k].server \in Inside => rpc[k].server \in Inside
    BY <1>3 DEF CallsBut
  <2>2. \A u \in Thread : thread'[u].stack = thread[u].stack
    BY <1>1 DEF ClientMoves, StacksStay
  <2> QED
    BY <2>1, <2>2, StayServed DEF RefinementInv
<1>8. PICK c \in Client : c = id[1]
  BY CallIds
<1>9. \A d \in Client : d # c => OrderOf(d)' /\ SameChain(d)
  BY <1>1, <1>3, <1>8, OthersStay
<1>10. OrderOf(c)' /\ SameChain(c)
  <2>1. ChainStill(id)
    BY <1>2, <1>3 DEF ChainStill, IsOpen, Stage, SameMade
  <2>2. \A k \in CallId : ChainStill(k)
    BY <1>3, <2>1, OthersStill DEF CallStill
  <2>3. OrderOf(c)
    BY <1>1, <1>3, <1>8, OthersStay
  <2> QED
    BY <1>1, <2>2, <2>3, ClientStays
<1>11. RefinementInv'
  BY <1>6, <1>7, <1>9, <1>10, OrderedStill DEF RefinementInv
<1>12. Promise!Next
  <2>1. HandlerOf(id)' = HandlerOf(id) /\ HandlerOf(id) = "over"
    BY <1>3 DEF HandlerOf, Through
  <2>2. OutcomeOf(id) = "pending"
    BY <1>2, Outcomes
  <2>3. OutcomeOf(id)' = "Success"
    BY <1>3, <1>5, ResultAssumption DEF OutcomeOf, Result
  <2> QED
    BY <1>3, <2>1, <2>2, <2>3, OthersStill, PromiseSteps
<1>13. UNCHANGED Nested!vars
  <2>1. SameBounds
    BY <1>1, <1>2, BoundsKept, BoundsStaySame DEF ClientMoves, StacksStay, SameBounds
  <2> QED
    BY <1>9, <1>10, <2>1, NestedSteps
<1> QED
  BY <1>11, <1>12, <1>13 DEF Refines

-----------------------------------------------------------------------------
\* A step after which a client's open calls are those they were, but the last
\* is at another stage of its handler.
LEMMA HandlerMoves ==
    ASSUME IInv, IInv', RefinementInv, NEW id \in CallId, CallsBut(id), SameMade(id),
           rpc'[id].client = rpc[id].client, ResultStays(id), IsOpen(id),
           \/ rpc[id].client # "wait" \/ rpc[id].server # "running"
           \/ \A l \in CallId : Before(id, l) => ~IsOpen(l),
           NEW c, c = id[1]
    PROVE  /\ c \in Client
           /\ \A d \in Client : d # c => SameChain(d)
           /\ ChainOf(c)' = ChainOf(c) /\ ChainOf(c) # <<>>
           /\ AtOf(c) = Stage(id) /\ AtOf(c)' = Stage(id)'
           /\ Nested!Place(c) = Owner[ServedAt(id)] /\ Owner[ServedAt(id)] \in Proc
           /\ OpenOrdered' /\ ResultRight'
           /\ OutcomeOf(id)' = OutcomeOf(id)
<1>1. OrderOf(c) /\ c \in Client
  BY OthersStay
<1>2. \A d \in Client : d # c => OrderOf(d)' /\ SameChain(d)
  BY OthersStay
<1>3. /\ Open(c) # <<>> /\ id = <<c, Last(Open(c))>>
      /\ AtOf(c) = Stage(id)
      /\ Owner[ServedAt(id)] \in Proc
      /\ ChainOf(c) # <<>>
  BY <1>1, WhereClientIs
<1>4. Open(c)' = Open(c) /\ OrderOf(c)' /\ ChainOf(c)' = ChainOf(c)
  <2>1. \A k \in CallId : (IsOpen(k)' <=> IsOpen(k)) /\ rpc'[k].conn = rpc[k].conn
    BY DEF CallsBut, SameMade, IsOpen
  <2> QED
    BY <1>1, <2>1, ChainStays
<1>5. AtOf(c)' = Stage(id)'
  <2>1. PICK s : s = Open(c)
    OBVIOUS
  <2>2. s # <<>> /\ id = <<c, Last(s)>> /\ Open(c)' = s
    BY <1>3, <1>4, <2>1
  <2> QED
    BY <2>2 DEF AtOf, Stage
<1>6. Nested!Place(c) = Owner[ServedAt(id)]
  BY <1>1, <1>3, PlaceIs DEF PlaceOf
<1>7. OpenOrdered'
  BY <1>1, <1>2, <1>4, OrderedStill
<1>8. ResultRight'
  BY ResultsStay DEF ResultStays, RefinementInv, ResultRight
<1>9. OutcomeOf(id)' = OutcomeOf(id)
  BY DEF OutcomeOf, ResultStays
<1> QED
  BY <1>1, <1>2, <1>3, <1>4, <1>5, <1>6, <1>7, <1>8, <1>9

\* A handler comes to its end.
LEMMA EndHandlerRefines ==
    ASSUME IInv, RefinementInv, NothingFails, NEW t \in Thread, NEW id \in CallId, EndHandler(t, id)
    PROVE  Refines
<1>1. IInv' /\ ServerMoves(t, id)
  BY EndHandlerKeeps
<1>2. /\ OnTop(t, <<"handleCall", id>>) /\ rpc[id].server = "running"
      /\ waiting_threads' = waiting_threads
      /\ CallsBut(id) /\ SameMade(id)
      /\ rpc'[id].client = rpc[id].client /\ rpc'[id].server = "release"
  BY EndHandlerDoes, IInvParts
<1>3. rpc \in [CallId -> RpcRec]
  BY IInvParts DEF TypeOK
<1>4. ResultStays(id)
  BY <1>3 DEF EndHandler, ResultStays, RpcRec
<1>5. /\ IsOpen(id)
      /\ \/ rpc[id].client # "wait" \/ rpc[id].server # "running"
         \/ \A l \in CallId : Before(id, l) => ~IsOpen(l)
  BY <1>2, TopLast
<1>6. PICK c : c = id[1]
  OBVIOUS
<1>7. /\ c \in Client
      /\ \A d \in Client : d # c => SameChain(d)
      /\ ChainOf(c)' = ChainOf(c) /\ ChainOf(c) # <<>>
      /\ AtOf(c) = Stage(id) /\ AtOf(c)' = Stage(id)'
      /\ OpenOrdered' /\ ResultRight'
      /\ OutcomeOf(id)' = OutcomeOf(id)
  BY <1>1, <1>2, <1>4, <1>5, <1>6, HandlerMoves
<1>8. ServedFramed'
  <2>1. \A k \in CallId : rpc'[k].server \in Inside => rpc[k].server \in Inside
    BY <1>2 DEF CallsBut, Inside
  <2>2. \A u \in Thread : thread'[u].stack = thread[u].stack
    BY <1>1 DEF ServerMoves, StacksStay
  <2> QED
    BY <2>1, <2>2, StayServed DEF RefinementInv
<1>9. Promise!Next
  <2>1. HandlerOf(id) = "running" /\ HandlerOf(id)' = "over"
    BY <1>2 DEF HandlerOf
  <2> QED
    BY <1>2, <1>7, <2>1, OthersStill, PromiseSteps
<1>10. Nested!Next
  <2>1. SameBounds
    BY <1>1, <1>2, BoundsKept, BoundsStaySame DEF ServerMoves, StacksStay, SameBounds
  <2>2. AtOf(c) = "running" /\ AtOf(c)' = "over"
    BY <1>2, <1>7 DEF Stage
  <2> QED
    BY <1>7, <2>1, <2>2, NestedSteps
<1> QED
  BY <1>7, <1>8, <1>9, <1>10 DEF Refines, RefinementInv

\* A thread begins to serve a call.
LEMMA HandleCallRefines ==
    ASSUME IInv, RefinementInv, TidsDiffer, NEW t \in Thread, HandleCall(t)
    PROVE  Refines
<1>1. IInv'
  BY HandleCallKeeps
<1>2. PICK id \in CallId : TakesCall(t, id)
  BY HandleCallKeeps
<1>3. /\ Pushed(t, <<"handleCall", id>>)
      /\ CallsBut(id) /\ SameMade(id)
      /\ rpc'[id].client = rpc[id].client /\ rpc[id].client = "wait"
      /\ rpc[id].server = "posted" /\ rpc'[id].server = "running"
      /\ thread[t].original_tid = Tid[id[1]]
      /\ Owner[ServedAt(id)] = Process(t)
      /\ Process(t) = Home[id[1]] => t = id[1]
  BY <1>2 DEF TakesCall
<1>4. rpc \in [CallId -> RpcRec] /\ waiting_threads' = waiting_threads
  BY IInvParts DEF TypeOK, HandleCall
<1>5. Boxed(t)
  <2>1. thread[t].wakeup > 0
    BY DEF HandleCall
  <2> QED
    BY <2>1 DEF Boxed
<1>6. ResultStays(id)
  <2>1. CASE rpc' = rpc
    BY <2>1 DEF ResultStays
  <2>2. CASE \E k, f : rpc' = [rpc EXCEPT ![k].server = "running", ![k].via = f]
    BY <1>4, <2>2 DEF ResultStays, RpcRec
  <2> QED
    BY <2>1, <2>2 DEF HandleCall
<1>7. IsOpen(id)
  BY <1>3 DEF IsOpen
<1>8. PICK c : c = id[1]
  OBVIOUS
<1>9. /\ c \in Client
      /\ \A d \in Client : d # c => SameChain(d)
      /\ ChainOf(c)' = ChainOf(c)
      /\ AtOf(c) = Stage(id) /\ AtOf(c)' = Stage(id)'
      /\ Nested!Place(c) = Process(t) /\ Process(t) \in Proc
      /\ OpenOrdered' /\ ResultRight'
      /\ OutcomeOf(id)' = OutcomeOf(id)
  BY <1>1, <1>3, <1>6, <1>7, <1>8, HandlerMoves
<1>10. ServedFramed'
  <2>1. PICK f \in Frame : f = <<"handleCall", id>>
    BY IsFrame
  <2>2. \A k \in CallId : rpc'[k].server \in Inside => rpc[k].server \in Inside \/ f = <<"handleCall", k>>
    BY <1>3, <2>1 DEF CallsBut
  <2>3. Pushed(t, f) /\ TypeOK'
    BY <1>1, <1>3, <2>1 DEF IInv
  <2> QED
    BY <2>2, <2>3, PushServed DEF RefinementInv
<1>11. Promise!Next
  <2>1. HandlerOf(id) = "none" /\ HandlerOf(id)' = "running"
    BY <1>3 DEF HandlerOf
  <2>2. OutcomeOf(id) = "pending"
    BY <1>3, Outcomes
  <2> QED
    BY <1>3, <1>9, <2>1, <2>2, OthersStill, PromiseSteps
<1>12. Nested!Next
  <2>1. SameBounds
    BY <1>1, <1>3, <1>4, BoundsKept, BoundsStaySame DEF Pushed, SameBounds
  <2>2. AtOf(c) = "called" /\ AtOf(c)' = "running"
    BY <1>3, <1>9 DEF Stage
  <2>3. ThreadIn(Process(t), c) # None
    <3>1. CASE Process(t) = Home[c]
      <4>1. ThreadIn(Process(t), c) = c
        BY <1>9, <3>1, BoundFacts DEF BoundsAre
      <4>2. c # None
        BY <1>9, Processes DEF Thread
      <4> QED
        BY <4>1, <4>2
    <3>2. CASE Process(t) # Home[c]
      <4>1. Held(Process(t), c, t)
        BY <1>3, <1>5, <1>8, BoxedWaits DEF Held
      <4>2. ThreadIn(Process(t), c) = t
        BY <1>9, <3>2, <4>1, BoundFacts DEF BoundsAre
      <4> QED
        BY <4>2, Processes
    <3> QED
      BY <3>1, <3>2
  <2> QED
    BY <1>9, <2>1, <2>2, <2>3, NestedSteps
<1> QED
  BY <1>9, <1>10, <1>11, <1>12 DEF Refines, RefinementInv

-----------------------------------------------------------------------------
(* Who is unregistered, and where its client has been.                     *)

\* What the stacks say of one frame.
LEMMA FrameFacts ==
    IInv => \A t \in Thread, k \in CallId :
      /\ <<"client_call", k>> \in Frames(t) =>
           IsOpen(k) /\ Owner[rpc[k].conn] = Process(t)
      /\ <<"handleCall", k>> \in Frames(t) =>
           /\ rpc[k].server \in Inside /\ Owner[ServedAt(k)] = Process(t)
      /\ \A h \in {"client_call", "handleCall"} : <<h, k>> \in Frames(t) =>
           /\ Process(t) = Home[k[1]] => t = k[1]
           /\ t \in Client => k[1] = t
<1> SUFFICES ASSUME IInv, NEW t \in Thread, NEW k \in CallId,
                    NEW h \in {"client_call", "handleCall"}, <<h, k>> \in Frames(t)
             PROVE  /\ h = "client_call" => IsOpen(k) /\ Owner[rpc[k].conn] = Process(t)
                    /\ h = "handleCall" => rpc[k].server \in Inside /\ Owner[ServedAt(k)] = Process(t)
                    /\ Process(t) = Home[k[1]] => t = k[1]
                    /\ t \in Client => k[1] = t
  OBVIOUS
<1>1. PICK f \in Frame : f = <<h, k>>
  BY IsFrame
<1>2. PICK i \in 1..Len(thread[t].stack) : thread[t].stack[i] = f
  BY <1>1, IInvParts DEF FramesTyped
<1>3. f[1] = h /\ f[2] = k
  BY <1>1
<1> QED
  BY <1>2, <1>3, IInvParts DEF FramesPlaced, FramesOwned

\* Who waits once t has been unregistered.
LEMMA UnregisteredWaits ==
    ASSUME IInv, NEW t \in Thread, Unregistered(t)
    PROVE  /\ thread[t].recursion_count = 1 =>
                /\ Waiting(Process(t))' = Waiting(Process(t)) \ {t}
                /\ \A q \in Proc : q # Process(t) => Waiting(q)' = Waiting(q)
           /\ thread[t].recursion_count # 1 => waiting_threads' = waiting_threads
<1>1. CASE thread[t].recursion_count = 1
  <2>1. PICK p \in Proc : p = Process(t)
    BY Processes
  <2>2. /\ \E n \in 1..Len(waiting_threads[p]) :
              /\ waiting_threads[p][n] = t
              /\ waiting_threads'[p] = RemoveAt(waiting_threads[p], n)
        /\ \A q \in Proc \ {p} : waiting_threads'[q] = waiting_threads[q]
    BY <1>1, <2>1 DEF Unregistered
  <2>3. Listed(p)
    BY IInvParts, UniqueTidIs DEF WaitingRight
  <2>4. /\ Waiting(p)' = Waiting(p) \ {t}
        /\ \A q \in Proc : q # p => Waiting(q)' = Waiting(q)
    BY <2>2, <2>3, IInvParts, WaitingLess
  <2> QED
    BY <1>1, <2>1, <2>4
<1>2. CASE thread[t].recursion_count # 1
  BY <1>2 DEF Unregistered
<1> QED
  BY <1>1, <1>2

\* Where a client has been: in the processes its open calls but the last are in.
LEMMA PassedIs ==
    ASSUME IInv, NEW id \in CallId, OrderOf(id[1]), Open(id[1]) # <<>>,
           id = <<id[1], Last(Open(id[1]))>>
    PROVE  \A p : p \in Nested!Passed(id[1]) <=>
             \/ p = Home[id[1]]
             \/ \E k \in CallId : /\ k[1] = id[1] /\ k # id /\ IsOpen(k)
                                  /\ Owner[ServedAt(k)] = p
<1>1. PICK c \in Client : c = id[1]
  BY CallIds
<1>2. PICK s \in Seq(1..Budget[c]) : s = Open(c)
  BY <1>1 DEF OrderOf
<1>3. PICK ch \in Seq(Proc) : ch = ChainOf(c)
  BY <1>1, ChainFacts DEF ChainRight
<1>4. PICK n \in Nat \ {0} : n = Len(s)
  BY <1>1, <1>2, LastOpen
<1>5. /\ Len(ch) = n
      /\ \A i \in 1..n : /\ <<c, s[i]>> \in CallId /\ IsOpen(<<c, s[i]>>)
                         /\ ch[i] = Owner[ServedAt(<<c, s[i]>>)]
  BY <1>1, <1>2, <1>3, <1>4, ChainFacts DEF ChainRight
<1>6. id = <<c, s[n]>> /\ id[2] = s[n]
  <2>1. Last(Open(c)) = Open(c)[Len(Open(c))]
    BY <1>1, LastOpen
  <2> QED
    BY <1>1, <1>2, <1>4, <2>1
<1>7. Nested!Passed(c) = {Home[c]} \cup {ch[i] : i \in 1..n - 1}
  BY <1>3, <1>5 DEF Nested!Passed
<1>8. ASSUME NEW i \in 1..n - 1
      PROVE  \E k \in CallId : k[1] = c /\ k # id /\ IsOpen(k) /\ Owner[ServedAt(k)] = ch[i]
  <2>1. i \in 1..n /\ i < n /\ n \in 1..n
    BY <1>4
  <2>2. s[i] < s[n] /\ s[i] \in Nat /\ s[n] \in Nat
    BY <1>1, <1>2, <1>4, <2>1, InList DEF OrderOf
  <2>3. PICK k \in CallId : k = <<c, s[i]>>
    BY <1>5, <2>1
  <2>4. k[1] = c /\ k[2] = s[i]
    BY <2>3
  <2>5. k # id
    BY <1>6, <2>2, <2>4
  <2> QED
    BY <1>5, <2>1, <2>3, <2>4, <2>5
<1>9. ASSUME NEW k \in CallId, k[1] = c, k # id, IsOpen(k)
      PROVE  \E i \in 1..n - 1 : ch[i] = Owner[ServedAt(k)]
  <2>1. k = <<c, k[2]>> /\ k[2] \in 1..Budget[c]
    BY <1>9, CallIds
  <2>2. PICK i \in 1..n : s[i] = k[2]
    BY <1>1, <1>2, <1>4, <1>9, <2>1 DEF OrderOf
  <2>3. k = <<c, s[i]>> /\ i # n
    BY <1>6, <1>9, <2>1, <2>2
  <2>4. i \in 1..n - 1
    BY <1>4, <2>3
  <2> QED
    BY <1>5, <2>3, <2>4
<1> QED
  BY <1>1, <1>7, <1>8, <1>9

\* A thread that serves the call of a client elsewhere and has another
\* registration serves, or waits for, an outer call of that client.
LEMMA OuterCall ==
    ASSUME IInv, TidsDiffer, NEW t \in Thread, NEW id \in CallId, ServesIt(t, id),
           rpc[id].server = "release", Process(t) # Home[id[1]],
           Registrations(t) \ {<<"handleCall", id>>} # {}
    PROVE  \E k \in CallId : /\ k[1] = id[1] /\ k # id /\ IsOpen(k)
                             /\ Owner[ServedAt(k)] = Process(t)
<1>1. ~JustAdded(t) /\ t \in Waiting(Process(t)) /\ thread[t].original_tid = Tid[id[1]]
  BY ServesRegistered
<1>2. t \notin Client
  <2>1. t \in Client => id[1] = t
    BY FrameFacts DEF ServesIt
  <2> QED
    BY <2>1 DEF Process
<1>3. rpc[id].client = "wait" /\ Pending(id)
  BY CallFacts, IInvParts DEF EndsAgree, Through, Pending, IsOpen
<1>4. \A k \in CallId : Pending(k) /\ Tid[k[1]] = Tid[id[1]] => k = id
  BY <1>3, OnePending
<1>5. ASSUME NEW k \in CallId, ServesIt(t, k), k # id
      PROVE  k[1] = id[1] /\ IsOpen(k) /\ Owner[ServedAt(k)] = Process(t)
  <2>1. thread[t].original_tid = Tid[k[1]]
    BY <1>5, ServesRegistered
  <2>2. k[1] = id[1]
    BY <1>1, <2>1, Clients DEF TidsDiffer
  <2>3. rpc[k].client \in {"wait", "return", "done"} /\ rpc[k].server \in {"running", "release"}
    BY <1>5, CallFacts DEF ServesIt
  <2>4. rpc[k].client \notin {"return", "done"}
    BY <2>3, IInvParts DEF EndsAgree, Through
  <2>5. Owner[ServedAt(k)] = Process(t)
    BY <1>5, FrameFacts DEF ServesIt
  <2> QED
    BY <2>2, <2>3, <2>4, <2>5 DEF IsOpen
<1>6. PICK x \in Registrations(t) : x # <<"handleCall", id>>
  OBVIOUS
<1>7. \/ \E k \in CallId : x = <<"client_call", k>> \/ x = <<"handleCall", k>> \/ x = <<"posted", k>>
      \/ \E e \in Conn : x = <<"reader", e>>
  BY IInvParts, RegistrationFacts DEF RegistrationsAre
<1>8. CASE \E k \in CallId : x = <<"client_call", k>>
  <2>1. PICK k \in CallId : MakesIt(t, k)
    BY <1>8, IInvParts, RegistrationFacts DEF RegistrationsAre
  <2>2. PICK l \in CallId : ServesIt(t, l) /\ rpc[l].server = "running"
    BY <1>2, <2>1, BelowCall DEF MakesIt
  <2>3. l # id
    BY <2>2
  <2> QED
    BY <1>5, <2>2, <2>3
<1>9. CASE \E k \in CallId : x = <<"handleCall", k>>
  <2>1. PICK k \in CallId : x = <<"handleCall", k>>
    BY <1>9
  <2>2. ServesIt(t, k) /\ k # id
    BY <1>6, <2>1, IInvParts, RegistrationFacts DEF RegistrationsAre
  <2> QED
    BY <1>5, <2>2
<1>10. CASE \E k \in CallId : x = <<"posted", k>>
  <2>1. PICK k \in CallId : HasIt(t, k)
    BY <1>10, IInvParts, RegistrationFacts DEF RegistrationsAre
  <2>2. Boxed(t) /\ thread[t].wakeup_data.id = k /\ rpc[k].server = "posted"
    BY <2>1 DEF HasIt, Boxed
  <2>3. Pending(k) /\ Tid[k[1]] = thread[t].original_tid
    BY <2>2, BoxPending
  <2> QED
    BY <1>1, <1>4, <2>2, <2>3
<1>11. CASE \E e \in Conn : x = <<"reader", e>>
  <2>1. PICK e \in Conn : GetsIt(t, e)
    BY <1>11, IInvParts, RegistrationFacts DEF RegistrationsAre
  <2>2. Holds(e) /\ thread[t].original_tid = conn[e].msg.tid /\ conn[e].msg.cmd = "CmdCall"
    BY <2>1, IInvParts DEF GetsIt, Holds, Holding, Targets
  <2>3. PICK k \in CallId : k = conn[e].msg.id
    BY <2>2, ReaderPending
  <2>4. Pending(k) /\ Tid[k[1]] = thread[t].original_tid /\ rpc[k].server = "none"
    BY <2>2, <2>3, ReaderPending
  <2> QED
    BY <1>1, <1>4, <2>4
<1> QED
  BY <1>7, <1>8, <1>9, <1>10, <1>11

\* The thread of a client, once its last call has been served.
LEMMA ReleaseBounds ==
    ASSUME IInv, IInv', RefinementInv, TidsDiffer, NEW t \in Thread, NEW id \in CallId,
           OnTop(t, <<"handleCall", id>>), rpc[id].server = "release", Unregistered(t),
           \A u \in Thread : thread'[u].original_tid = thread[u].original_tid,
           NEW c, c = id[1], NEW P, P = Process(t)
    PROVE  \/ P \in Nested!Passed(c) /\ SameBounds
           \/ P \notin Nested!Passed(c) /\ ThreadIn(P, c)' = None /\ BoundsBut(P, c)
<1>1. c \in Client /\ P \in Proc /\ c \in Thread
  BY Clients, Processes
<1>2. ServesIt(t, id)
  BY TopPlaced DEF ServesIt
<1>3. /\ ~JustAdded(t) /\ t \in Waiting(P) /\ thread[t].original_tid = Tid[c]
      /\ Held(P, c, t)
  BY <1>2, ServesRegistered DEF Held
<1>4. /\ OrderOf(c) /\ Open(c) # <<>> /\ id = <<c, Last(Open(c))>> /\ IsOpen(id)
  <2>1. OrderOf(c)
    BY <1>1, OrderedIs DEF RefinementInv, OrderedAll
  <2>2. IsOpen(id)
    BY TopLast
  <2> QED
    BY <2>1, <2>2, WhereClientIs
<1>5. \A p : p \in Nested!Passed(c) <=>
        \/ p = Home[c]
        \/ \E k \in CallId : k[1] = c /\ k # id /\ IsOpen(k) /\ Owner[ServedAt(k)] = p
  BY <1>4, PassedIs
<1>6. /\ thread[t].recursion_count = 1 =>
           /\ Waiting(P)' = Waiting(P) \ {t}
           /\ \A q \in Proc : q # P => Waiting(q)' = Waiting(q)
      /\ thread[t].recursion_count # 1 => waiting_threads' = waiting_threads
  BY UnregisteredWaits
<1>7. PICK x : x = <<"handleCall", id>>
  OBVIOUS
<1>8. x \in Registrations(t)
  BY <1>2, <1>7, IInvParts, RegistrationFacts DEF RegistrationsAre
<1>9. thread[t].recursion_count = 1 <=> Registrations(t) \ {x} = {}
  BY <1>3, <1>8, CountsDown
<1>10. CASE P = Home[c]
  <2>1. t = c
    BY <1>2, <1>10, FrameFacts DEF ServesIt
  <2>2. \A p \in Proc, u \in Thread : u # t => (u \in Waiting(p)' <=> u \in Waiting(p))
    <3>1. thread[t].recursion_count # 1 => \A p \in Proc : Waiting(p)' = Waiting(p)
      BY <1>6 DEF Waiting
    <3> QED
      BY <1>6, <3>1
  <2>3. BoundsStay
    BY <1>1, <2>1, <2>2, ClientComes
  <2>4. SameBounds
    BY <2>3, BoundsStaySame DEF SameBounds
  <2> QED
    BY <1>5, <1>10, <2>4
<1>11. CASE P # Home[c] /\ thread[t].recursion_count = 1
  <2>1. ASSUME NEW u \in Thread PROVE ~Held(P, c, u)'
    BY <1>1, <1>3, <1>6, <1>11, HeldAlone DEF Held
  <2>2. ThreadIn(P, c)' = None
    BY <1>1, <1>11, <2>1, BoundFactsNext DEF BoundsAre
  <2>3. BoundsBut(P, c)
    <3> SUFFICES ASSUME NEW p \in Proc, NEW d \in Client, p # P \/ d # c
                 PROVE  ThreadIn(p, d)' = ThreadIn(p, d)
      BY DEF BoundsBut
    <3>1. ASSUME NEW u \in Thread PROVE Held(p, d, u)' <=> Held(p, d, u)
      <4>1. CASE p # P
        BY <1>6, <1>11, <4>1 DEF Held
      <4>2. CASE p = P /\ d # c
        <5>1. thread[u].original_tid = Tid[d] => u # t
          BY <1>1, <1>3, <4>2 DEF TidsDiffer
        <5> QED
          BY <1>6, <1>11, <4>2, <5>1 DEF Held
      <4> QED
        BY <4>1, <4>2
    <3> QED
      BY <3>1, BoundSame
  <2>4. ASSUME NEW k \in CallId, k[1] = c, k # id, IsOpen(k), Owner[ServedAt(k)] = P
        PROVE  FALSE
    <3>1. rpc[k].server = "running"
      BY <1>1, <1>4, <2>4, LastOpen
    <3>2. PICK u \in Thread : <<"handleCall", k>> \in Frames(u)
      BY <3>1 DEF RefinementInv, ServedFramed, Inside
    <3>3. ServesIt(u, k) /\ Process(u) = P
      BY <2>4, <3>1, <3>2, FrameFacts DEF ServesIt
    <3>4. Held(P, c, u)
      BY <2>4, <3>3, ServesRegistered DEF Held
    <3>5. u = t
      BY <1>1, <1>3, <3>4, HeldAlone
    <3>6. <<"handleCall", k>> \in Registrations(t)
      BY <3>3, <3>5, IInvParts, RegistrationFacts DEF RegistrationsAre
    <3>7. <<"handleCall", k>> # x
      BY <1>7, <2>4
    <3> QED
      BY <1>9, <1>11, <3>6, <3>7
  <2> QED
    BY <1>5, <1>11, <2>2, <2>3, <2>4
<1>12. CASE P # Home[c] /\ thread[t].recursion_count # 1
  <2>1. BoundsStay
    BY <1>6, <1>12, BoundsKept
  <2>2. SameBounds
    BY <2>1, BoundsStaySame DEF SameBounds
  <2>3. \E k \in CallId : k[1] = c /\ k # id /\ IsOpen(k) /\ Owner[ServedAt(k)] = P
    BY <1>2, <1>7, <1>9, <1>12, OuterCall
  <2> QED
    BY <1>5, <2>2, <2>3
<1> QED
  BY <1>10, <1>11, <1>12

\* releaseWaitingThread, once the handler has come to its end.
LEMMA ReleaseRefines ==
    ASSUME IInv, RefinementInv, TidsDiffer, NEW t \in Thread, NEW id \in CallId, Release(t, id)
    PROVE  Refines
<1>1. IInv' /\ ServerMoves(t, id) /\ Unregistered(t)
  BY ReleaseKeeps
<1>2. rpc[id].server = "release"
  BY DEF Release, Serving
<1>3. rpc \in [CallId -> RpcRec]
  BY IInvParts DEF TypeOK
<1>4. ResultStays(id) /\ rpc'[id].server = "reply"
  BY <1>3 DEF Release, ResultStays, RpcRec
<1>5. /\ OnTop(t, <<"handleCall", id>>) /\ CallsBut(id) /\ SameMade(id)
      /\ rpc'[id].client = rpc[id].client
      /\ \A u \in Thread : /\ thread'[u].stack = thread[u].stack
                           /\ thread'[u].original_tid = thread[u].original_tid
  BY <1>1 DEF ServerMoves, StacksStay
<1>6. /\ IsOpen(id)
      /\ \/ rpc[id].client # "wait" \/ rpc[id].server # "running"
         \/ \A l \in CallId : Before(id, l) => ~IsOpen(l)
  BY <1>2, <1>5, TopLast
<1>7. PICK c : c = id[1]
  OBVIOUS
<1>8. PICK P : P = Process(t)
  OBVIOUS
<1>9. /\ c \in Client
      /\ \A d \in Client : d # c => SameChain(d)
      /\ ChainOf(c)' = ChainOf(c)
      /\ AtOf(c) = Stage(id) /\ AtOf(c)' = Stage(id)'
      /\ Nested!Place(c) = Owner[ServedAt(id)] /\ Owner[ServedAt(id)] \in Proc
      /\ OpenOrdered' /\ ResultRight'
      /\ OutcomeOf(id)' = OutcomeOf(id)
  BY <1>1, <1>4, <1>5, <1>6, <1>7, HandlerMoves
<1>10. ServedFramed'
  <2>1. \A k \in CallId : rpc'[k].server \in Inside => rpc[k].server \in Inside
    BY <1>2, <1>5 DEF CallsBut, Inside
  <2> QED
    BY <1>5, <2>1, StayServed DEF RefinementInv
<1>11. UNCHANGED Promise!vars
  <2>1. HandlerOf(id)' = HandlerOf(id)
    BY <1>2, <1>4 DEF HandlerOf
  <2> QED
    BY <1>5, <1>9, <2>1, OthersStill, PromiseSteps
<1>12. Nested!Next
  <2>1. Nested!Place(c) = P
    BY <1>5, <1>8, <1>9, TopPlaced
  <2>2. AtOf(c) = "over" /\ AtOf(c)' = "returned"
    BY <1>2, <1>4, <1>9 DEF Stage
  <2>3. \/ P \in Nested!Passed(c) /\ SameBounds
        \/ P \notin Nested!Passed(c) /\ ThreadIn(P, c)' = None /\ BoundsBut(P, c)
    BY <1>1, <1>2, <1>5, <1>7, <1>8, ReleaseBounds
  <2> QED
    BY <1>9, <2>1, <2>2, <2>3, NestedSteps
<1> QED
  BY <1>9, <1>10, <1>11, <1>12 DEF Refines, RefinementInv

-----------------------------------------------------------------------------
(* Calls return, and begin.                                                *)

\* The chain of a client whose last call returns.
LEMMA ChainLoses ==
    ASSUME IInv, IInv', RefinementInv, NEW id \in CallId, CallsBut(id), IsOpen(id), ~IsOpen(id)',
           rpc[id].client # "wait", NEW c, c = id[1]
    PROVE  /\ OpenOrdered'
           /\ ChainOf(c)' = SubSeq(ChainOf(c), 1, Len(ChainOf(c)) - 1)
           /\ AtOf(c)' = "running"
<1>1. /\ OrderOf(c) /\ c \in Client
      /\ \A d \in Client : d # c => OrderOf(d)'
  BY OthersStay
<1>2. Open(c) # <<>> /\ id = <<c, Last(Open(c))>>
  BY <1>1, WhereClientIs
<1>3. \A k \in CallId : k[1] = c /\ IsOpen(k) /\ k # id =>
        Before(k, id) /\ rpc[k].client = "wait" /\ rpc[k].server = "running"
  BY <1>1, <1>2, LastOpen
<1>4. PICK s \in Seq(1..Budget[c]) : s = Open(c)
  BY <1>1 DEF OrderOf
<1>5. PICK t \in Seq(1..Budget[c]) : t = Open(c)' /\ Len(s) = Len(t) + 1 /\ \A i \in 1..Len(t) : t[i] = s[i]
  <2>1. \A k \in CallId : k # id => (IsOpen(k)' <=> IsOpen(k))
    BY DEF CallsBut, IsOpen
  <2> QED
    BY <1>1, <1>3, <1>4, <2>1, OpenLoses
<1>6. OrderOf(c)'
  <2>1. \A k \in CallId : k # id => (IsOpen(k)' <=> IsOpen(k))
    BY DEF CallsBut, IsOpen
  <2> QED
    BY <1>1, <1>3, <2>1, OpenLoses
<1>7. OrderedAll'
  BY <1>1, <1>6 DEF OrderedAll
<1>8. PICK n \in Nat : n = Len(t)
  BY <1>5
<1>9. PICK ch \in Seq(Proc) : ch = ChainOf(c)
  BY <1>1, ChainFacts DEF ChainRight
<1>10. PICK th \in Seq(Proc) : th = ChainOf(c)'
  BY <1>1, <1>7, ChainsFactsNext DEF ChainsRight, ChainRight
<1>11. /\ Len(ch) = n + 1
       /\ \A i \in 1..n + 1 : ch[i] = Owner[ServedAt(<<c, s[i]>>)]
  BY <1>1, <1>4, <1>5, <1>8, <1>9, ChainFacts DEF ChainRight
<1>12. /\ Len(th) = n
       /\ \A i \in 1..n : /\ <<c, t[i]>> \in CallId /\ IsOpen(<<c, t[i]>>)'
                          /\ th[i] = Owner[ServedAt(<<c, t[i]>>)']
  <2>1. ChainRight(c)'
    BY <1>1, <1>7, ChainsFactsNext DEF ChainsRight
  <2>2. /\ Len(th) = n
        /\ \A i \in 1..n : /\ <<c, Open(c)'[i]>> \in CallId /\ IsOpen(<<c, Open(c)[i]>>)'
                           /\ th[i] = Owner[ServedAt(<<c, Open(c)[i]>>)']
    BY <1>5, <1>8, <1>10, <2>1 DEF ChainRight
  <2>3. \A i : IsOpen(<<c, Open(c)[i]>>)' <=> IsOpen(<<c, t[i]>>)'
    BY <1>5 DEF IsOpen
  <2>4. \A i : ServedAt(<<c, Open(c)[i]>>)' = ServedAt(<<c, t[i]>>)'
    BY <1>5 DEF ServedAt
  <2> QED
    BY <1>5, <2>2, <2>3, <2>4
<1>13. \A i \in 1..n : /\ th[i] = ch[i] /\ <<c, t[i]>> # id
                       /\ IsOpen(<<c, t[i]>>) /\ rpc'[<<c, t[i]>>] = rpc[<<c, t[i]>>]
  <2> SUFFICES ASSUME NEW i \in 1..n
               PROVE  /\ th[i] = ch[i] /\ <<c, t[i]>> # id
                      /\ IsOpen(<<c, t[i]>>) /\ rpc'[<<c, t[i]>>] = rpc[<<c, t[i]>>]
    OBVIOUS
  <2>1. PICK k \in CallId : k = <<c, t[i]>>
    BY <1>12
  <2>2. IsOpen(k)' /\ th[i] = Owner[ServedAt(k)']
    BY <1>12, <2>1
  <2>3. k # id
    BY <2>2
  <2>4. rpc'[k] = rpc[k]
    BY <2>3 DEF CallsBut
  <2>5. i \in 1..n + 1 /\ t[i] = s[i]
    BY <1>5, <1>8
  <2>6. ch[i] = Owner[ServedAt(k)]
    BY <1>11, <2>1, <2>5
  <2> QED
    BY <2>1, <2>2, <2>3, <2>4, <2>6 DEF IsOpen, ServedAt
<1>14. th = SubSeq(ch, 1, Len(ch) - 1)
  <2>1. /\ Len(SubSeq(ch, 1, n)) = n /\ SubSeq(ch, 1, n) \in Seq(Proc)
        /\ \A i \in 1..n : SubSeq(ch, 1, n)[i] = ch[i]
    BY <1>9, <1>11
  <2>2. PICK r \in Seq(Proc) : r = SubSeq(ch, 1, n) /\ Len(r) = n /\ \A i \in 1..n : r[i] = ch[i]
    BY <2>1
  <2>3. Len(th) = Len(r) /\ \A i \in 1..Len(th) : th[i] = r[i]
    BY <1>12, <1>13, <2>2
  <2>4. th = r
    BY <2>3, SeqEqual
  <2> QED
    BY <1>11, <2>2, <2>4
<1>15. AtOf(c)' = "running"
  <2>1. CASE t = <<>>
    BY <1>5, <2>1 DEF AtOf
  <2>2. CASE t # <<>>
    <3>1. n \in 1..n /\ Last(t) = t[n]
      BY <1>5, <1>8, <2>2 DEF Last
    <3>2. PICK k \in CallId : k = <<c, t[n]>>
      BY <1>12, <3>1
    <3>3. k # id /\ IsOpen(k) /\ rpc'[k] = rpc[k] /\ k[1] = c
      BY <1>13, <3>1, <3>2
    <3>4. rpc'[k].server = "running"
      BY <1>3, <3>3
    <3>5. AtOf(c)' = Stage(k)'
      BY <1>5, <2>2, <3>1, <3>2 DEF AtOf, Stage
    <3> QED
      BY <3>4, <3>5 DEF Stage
  <2> QED
    BY <2>1, <2>2
<1>16. OpenOrdered'
  BY <1>1, <1>6, OrderedStill
<1> QED
  BY <1>9, <1>10, <1>14, <1>15, <1>16

\* The threads that clients have stay, when one of them returns from a call.
LEMMA ReturnBounds ==
    ASSUME IInv, IInv', TidsDiffer, NEW t \in Thread, NEW id \in CallId,
           OnTop(t, <<"client_call", id>>), rpc[id].client = "return", Unregistered(t),
           \A u \in Thread : thread'[u].original_tid = thread[u].original_tid
    PROVE  SameBounds
<1>1. /\ thread[t].recursion_count = 1 =>
           /\ Waiting(Process(t))' = Waiting(Process(t)) \ {t}
           /\ \A q \in Proc : q # Process(t) => Waiting(q)' = Waiting(q)
      /\ thread[t].recursion_count # 1 => waiting_threads' = waiting_threads
  BY UnregisteredWaits
<1>2. MakesIt(t, id)
  BY TopPlaced DEF MakesIt
<1>3. CASE t \in Client
  <2>1. \A p \in Proc, u \in Thread : u # t => (u \in Waiting(p)' <=> u \in Waiting(p))
    <3>1. thread[t].recursion_count # 1 => \A p \in Proc : Waiting(p)' = Waiting(p)
      BY <1>1 DEF Waiting
    <3> QED
      BY <1>1, <3>1
  <2>2. BoundsStay
    BY <1>3, <2>1, ClientComes
  <2> QED
    BY <2>2, BoundsStaySame DEF SameBounds
<1>4. CASE t \notin Client
  <2>1. PICK l \in CallId : ServesIt(t, l)
    BY <1>2, <1>4, BelowCall DEF MakesIt
  <2>2. PICK x : x = <<"client_call", id>>
    OBVIOUS
  <2>3. x \in Registrations(t)
    BY <1>2, <2>2, IInvParts, RegistrationFacts DEF RegistrationsAre
  <2>4. <<"handleCall", l>> \in Registrations(t) /\ <<"handleCall", l>> # x
    BY <2>1, <2>2, IInvParts, RegistrationFacts DEF RegistrationsAre
  <2>5. ~JustAdded(t)
    BY <2>1, ServesRegistered
  <2>6. thread[t].recursion_count # 1
    BY <2>3, <2>4, <2>5, CountsDown
  <2>7. BoundsStay
    BY <1>1, <2>6, BoundsKept
  <2> QED
    BY <2>7, BoundsStaySame DEF SameBounds
<1> QED
  BY <1>3, <1>4

\* client_call returns.
LEMMA ReturnRefines ==
    ASSUME IInv, RefinementInv, TidsDiffer, NEW t \in Thread, NEW id \in CallId, Return(t, id)
    PROVE  Refines
<1>1. IInv' /\ CallReturns(t, id) /\ Unregistered(t)
  BY ReturnKeeps
<1>2. /\ OnTop(t, <<"client_call", id>>) /\ Popped(t) /\ CallsBut(id) /\ SameMade(id)
      /\ rpc'[id].server = rpc[id].server
      /\ rpc[id].client = "return" /\ rpc'[id].client = "done"
      /\ \A u \in Thread : thread'[u].original_tid = thread[u].original_tid
  BY <1>1 DEF CallReturns, Popped
<1>3. rpc \in [CallId -> RpcRec]
  BY IInvParts DEF TypeOK
<1>4. ResultStays(id)
  BY <1>3, GotoClient DEF Return, ResultStays, ClientPC
<1>5. PICK c \in Client : c = id[1]
  BY CallIds
<1>6. IsOpen(id) /\ ~IsOpen(id)'
  BY <1>2 DEF IsOpen
<1>7. /\ OpenOrdered'
      /\ ChainOf(c)' = SubSeq(ChainOf(c), 1, Len(ChainOf(c)) - 1)
      /\ AtOf(c)' = "running"
  BY <1>1, <1>2, <1>5, <1>6, ChainLoses
<1>8. \A d \in Client : d # c => SameChain(d)
  BY <1>1, <1>2, <1>5, OthersStay
<1>9. AtOf(c) = "returned"
  <2>1. OrderOf(c)
    BY <1>1, <1>2, <1>5, OthersStay
  <2>2. AtOf(c) = Stage(id)
    BY <1>2, <1>5, <1>6, <2>1, WhereClientIs
  <2>3. rpc[id].server \in Through
    BY <1>2, IInvParts DEF EndsAgree
  <2> QED
    BY <2>2, <2>3 DEF Stage, Through
<1>10. ResultRight'
  <2>1. rpc[id].res = "Success"
    BY <1>2 DEF RefinementInv, ResultRight
  <2> QED
    BY <1>2, <1>4, <2>1, ResultsStay DEF ResultStays
<1>11. ServedFramed'
  <2>1. PICK f \in Frame : f = <<"client_call", id>>
    BY IsFrame
  <2>2. \A k \in CallId : rpc'[k].server \in Inside => rpc[k].server \in Inside /\ f # <<"handleCall", k>>
    BY <1>2, <2>1 DEF CallsBut
  <2>3. OnTop(t, f) /\ Popped(t) /\ TypeOK'
    BY <1>1, <1>2, <2>1 DEF IInv
  <2> QED
    BY <2>2, <2>3, PopServed DEF RefinementInv
<1>12. UNCHANGED Promise!vars
  <2>1. HandlerOf(id)' = HandlerOf(id) /\ OutcomeOf(id)' = OutcomeOf(id)
    BY <1>2, <1>4 DEF HandlerOf, OutcomeOf, ResultStays
  <2> QED
    BY <1>2, <2>1, OthersStill, PromiseSteps
<1>13. Nested!Next
  <2>1. SameBounds
    BY <1>1, <1>2, ReturnBounds
  <2> QED
    BY <1>7, <1>8, <1>9, <2>1, NestedSteps
<1> QED
  BY <1>7, <1>10, <1>11, <1>12, <1>13 DEF Refines, RefinementInv

\* The chain of a client that makes a call over e.
LEMMA ChainGains ==
    ASSUME IInv, IInv', RefinementInv, NEW id \in CallId, CallsBut(id), ~IsOpen(id), IsOpen(id)',
           \A k \in CallId : k[1] = id[1] /\ IsOpen(k) => Before(k, id),
           NEW e \in Conn, rpc'[id].conn = e, NEW c, c = id[1]
    PROVE  /\ OpenOrdered'
           /\ ChainOf(c)' = Append(ChainOf(c), Owner[Peer[e]])
           /\ AtOf(c)' = Stage(id)'
<1>1. /\ OrderOf(c) /\ c \in Client
      /\ \A d \in Client : d # c => OrderOf(d)'
  BY OthersStay
<1>2. \A k \in CallId : k # id => (IsOpen(k)' <=> IsOpen(k))
  BY DEF CallsBut, IsOpen
<1>3. OrderOf(c)' /\ Open(c)' = Append(Open(c), id[2])
  BY <1>1, <1>2, OpenGains
<1>4. OrderedAll'
  BY <1>1, <1>3 DEF OrderedAll
<1>5. PICK s \in Seq(1..Budget[c]) : s = Open(c)
  BY <1>1 DEF OrderOf
<1>6. PICK n \in Nat : n = Len(s)
  BY <1>5
<1>7. id[2] \in 1..Budget[c] /\ id = <<c, id[2]>>
  BY <1>1, CallIds
<1>8. PICK t \in Seq(1..Budget[c]) :
        /\ t = Open(c)' /\ Len(t) = n + 1 /\ t[n + 1] = id[2] /\ \A i \in 1..n : t[i] = s[i]
  <2>1. PICK B : B = 1..Budget[c]
    OBVIOUS
  <2>2. PICK x \in B : x = id[2]
    BY <1>7, <2>1
  <2>3. s \in Seq(B)
    BY <2>1
  <2>4. /\ Append(s, x) \in Seq(B) /\ Len(Append(s, x)) = n + 1
        /\ \A i \in 1..n : Append(s, x)[i] = s[i]
        /\ Append(s, x)[n + 1] = x
    BY <1>6, <2>3, AppendFacts
  <2> QED
    BY <1>3, <1>5, <2>1, <2>2, <2>4
<1>9. PICK ch \in Seq(Proc) :
        /\ ch = ChainOf(c) /\ Len(ch) = n
        /\ \A i \in 1..n : ch[i] = Owner[ServedAt(<<c, s[i]>>)] /\ IsOpen(<<c, s[i]>>) /\ <<c, s[i]>> \in CallId
  BY <1>1, <1>5, <1>6, ChainFacts DEF ChainRight
<1>10. PICK th \in Seq(Proc) :
         /\ th = ChainOf(c)' /\ Len(th) = n + 1
         /\ \A i \in 1..n + 1 : th[i] = Owner[ServedAt(<<c, t[i]>>)']
  <2>1. ChainRight(c)'
    BY <1>1, <1>4, ChainsFactsNext DEF ChainsRight
  <2>2. PICK r \in Seq(Proc) : r = ChainOf(c)'
    BY <2>1 DEF ChainRight
  <2>3. Len(r) = n + 1 /\ \A i \in 1..n + 1 : r[i] = Owner[ServedAt(<<c, Open(c)[i]>>)']
    BY <1>8, <2>1, <2>2 DEF ChainRight
  <2>4. \A i \in 1..n + 1 : r[i] = Owner[ServedAt(<<c, t[i]>>)']
    BY <1>8, <2>3 DEF ServedAt
  <2> QED
    BY <2>2, <2>3, <2>4
<1>11. \A i \in 1..n : th[i] = ch[i]
  <2> SUFFICES ASSUME NEW i \in 1..n PROVE th[i] = ch[i]
    OBVIOUS
  <2>1. PICK k \in CallId : k = <<c, s[i]>>
    BY <1>9
  <2>2. IsOpen(k) /\ ch[i] = Owner[ServedAt(k)]
    BY <1>9, <2>1
  <2>3. rpc'[k] = rpc[k]
    BY <2>2 DEF CallsBut
  <2>4. i \in 1..n + 1 /\ t[i] = s[i]
    BY <1>8
  <2>5. th[i] = Owner[ServedAt(k)']
    BY <1>10, <2>1, <2>4
  <2> QED
    BY <2>2, <2>3, <2>5 DEF ServedAt
<1>12. th[n + 1] = Owner[Peer[e]] /\ Owner[Peer[e]] \in Proc
  <2>1. n + 1 \in 1..n + 1 /\ <<c, t[n + 1]>> = id
    BY <1>7, <1>8
  <2>2. th[n + 1] = Owner[ServedAt(id)']
    BY <1>10, <2>1
  <2> QED
    BY <2>2, OwnerFacts DEF ServedAt
<1>13. th = Append(ch, Owner[Peer[e]])
  <2>1. PICK p \in Proc : p = Owner[Peer[e]]
    BY <1>12
  <2>2. /\ Append(ch, p) \in Seq(Proc) /\ Len(Append(ch, p)) = n + 1
        /\ \A i \in 1..n : Append(ch, p)[i] = ch[i]
        /\ Append(ch, p)[n + 1] = p
    BY <1>9, AppendFacts
  <2>3. PICK r \in Seq(Proc) :
          /\ r = Append(ch, Owner[Peer[e]]) /\ Len(r) = n + 1
          /\ r[n + 1] = Owner[Peer[e]] /\ \A i \in 1..n : r[i] = ch[i]
    BY <2>1, <2>2
  <2>4. \A i \in 1..n + 1 : i \in 1..n \/ i = n + 1
    OBVIOUS
  <2>5. Len(th) = Len(r) /\ \A i \in 1..Len(th) : th[i] = r[i]
    BY <1>10, <1>11, <1>12, <2>3, <2>4
  <2>6. th = r
    BY <2>5, SeqEqual
  <2> QED
    BY <2>3, <2>6
<1>14. AtOf(c)' = Stage(id)'
  <2>1. t # <<>> /\ Last(t) = id[2]
    BY <1>8 DEF Last
  <2>2. AtOf(c)' = Stage(<<c, Last(t)>>)'
    BY <1>8, <2>1 DEF AtOf, Stage
  <2> QED
    BY <1>7, <2>1, <2>2
<1>15. OpenOrdered'
  BY <1>1, <1>3, OrderedStill
<1> QED
  BY <1>9, <1>10, <1>13, <1>14, <1>15

\* A stub calls.
LEMMA ClientCallRefines ==
    ASSUME IInv, RefinementInv, TidsDiffer, NEW t \in Thread, t \in Created, NEW s, ClientCall(t, s)
    PROVE  Refines
<1>1. IInv'
  BY ClientCallKeeps
<1>2. PICK id \in CallId, e \in Conn : OpensCall(t, id, e)
  BY ClientCallKeeps
<1>3. /\ Pushed(t, <<"client_call", id>>) /\ CallsBut(id)
      /\ rpc'[id].server = rpc[id].server
      /\ rpc[id].client = "none" /\ rpc'[id].client = "acquire"
      /\ rpc'[id].conn = e
      /\ \/ Len(thread[t].stack) = 0 /\ t = id[1]
         \/ \E k \in CallId : /\ OnTop(t, <<"handleCall", k>>)
                              /\ rpc[k].server = "running" /\ k[1] = id[1]
  BY <1>2 DEF OpensCall
<1>4. rpc \in [CallId -> RpcRec] /\ waiting_threads' = waiting_threads
  BY IInvParts DEF TypeOK, ClientCall
<1>5. ResultStays(id)
  BY <1>4 DEF ClientCall, ResultStays, RpcRec
<1>6. PICK c \in Client : c = id[1]
  BY CallIds
<1>7. ~IsOpen(id) /\ IsOpen(id)'
  BY <1>3 DEF IsOpen
<1>8. ASSUME NEW k \in CallId, k[1] = c, IsOpen(k) PROVE Before(k, id)
  <2>1. ~Before(id, k)
    BY <1>3, <1>8, IInvParts DEF CallsNest, IsOpen
  <2> QED
    BY <1>6, <1>7, <1>8, <2>1, CallOrder
<1>9. /\ OpenOrdered'
      /\ ChainOf(c)' = Append(ChainOf(c), Owner[Peer[e]])
      /\ AtOf(c)' = Stage(id)'
  BY <1>1, <1>3, <1>6, <1>7, <1>8, ChainGains
<1>10. OrderOf(c) /\ \A d \in Client : d # c => SameChain(d)
  BY <1>1, <1>3, <1>6, OthersStay
<1>11. rpc[id].server = "none"
  BY <1>3, IInvParts DEF EndsAgree
<1>12. AtOf(c) = "running"
  <2>1. CASE Len(thread[t].stack) = 0 /\ t = id[1]
    <3>1. thread[c].stack = <<>>
      BY <1>6, <2>1, IInvParts DEF StacksTyped
    <3>2. \A k \in CallId : k[1] = c => ~IsOpen(k)
      BY <3>1, IInvParts DEF Covered
    <3>3. Open(c) = <<>>
      BY <1>10, <3>2, LastOpen
    <3> QED
      BY <3>3 DEF AtOf
  <2>2. CASE \E k \in CallId : OnTop(t, <<"handleCall", k>>) /\ rpc[k].server = "running" /\ k[1] = id[1]
    <3>1. PICK k \in CallId : OnTop(t, <<"handleCall", k>>) /\ rpc[k].server = "running" /\ k[1] = c
      BY <1>6, <2>2
    <3>2. /\ IsOpen(k)
          /\ rpc[k].server # "running" \/ \A l \in CallId : Before(k, l) => ~IsOpen(l)
      BY <3>1, TopLast
    <3>3. AtOf(c) = Stage(k)
      BY <1>10, <3>1, <3>2, WhereClientIs
    <3> QED
      BY <3>1, <3>3 DEF Stage
  <2> QED
    BY <1>3, <2>1, <2>2
<1>13. rpc[id].res = None
  BY <1>3 DEF RefinementInv, ResultRight
<1>14. ResultRight'
  BY <1>3, <1>5, <1>13, ResultsStay DEF ResultStays
<1>15. ServedFramed'
  <2>1. PICK f \in Frame : f = <<"client_call", id>>
    BY IsFrame
  <2>2. \A k \in CallId : rpc'[k].server \in Inside => rpc[k].server \in Inside \/ f = <<"handleCall", k>>
    BY <1>3 DEF CallsBut
  <2>3. Pushed(t, f) /\ TypeOK'
    BY <1>1, <1>3, <2>1 DEF IInv
  <2> QED
    BY <2>2, <2>3, PushServed DEF RefinementInv
<1>16. Promise!Next
  <2>1. HandlerOf(id)' = HandlerOf(id)
    BY <1>3 DEF HandlerOf
  <2>2. OutcomeOf(id) = "none" /\ OutcomeOf(id)' = "pending"
    BY <1>3, <1>5, <1>13 DEF OutcomeOf, ResultStays
  <2> QED
    BY <1>3, <2>1, <2>2, OthersStill, PromiseSteps
<1>17. Nested!Next
  <2>1. SameBounds
    BY <1>1, <1>3, <1>4, BoundsKept, BoundsStaySame DEF Pushed, SameBounds
  <2>2. AtOf(c)' = "called"
    BY <1>3, <1>9, <1>11 DEF Stage
  <2>3. Owner[Peer[e]] \in Proc
    BY OwnerFacts
  <2> QED
    BY <1>9, <1>10, <1>12, <2>1, <2>2, <2>3, NestedSteps
<1> QED
  BY <1>9, <1>14, <1>15, <1>16, <1>17 DEF Refines, RefinementInv

\* A thread that comes to wait, where and as whose it does.
LEMMA WorkerComes ==
    ASSUME IInv, IInv', TidsDiffer, NEW w \in Worker, NEW p \in Proc, Process(w) = p,
           NEW c \in Client, p # Home[c],
           w \notin Waiting(p), NobodyWaits(p, Tid[c]),
           waiting_threads'[p] = Append(waiting_threads[p], w),
           \A q \in Proc \ {p} : waiting_threads'[q] = waiting_threads[q],
           thread'[w].original_tid = Tid[c],
           \A u \in Thread : u # w => thread'[u].original_tid = thread[u].original_tid
    PROVE  /\ ThreadIn(p, c) = None /\ ThreadIn(p, c)' = w
           /\ \A d \in Client : ThreadIn(p, d) # w
           /\ BoundsBut(p, c)
<1>1. w \in Thread /\ w \notin Client
  BY WorkerFacts
<1>2. /\ Waiting(p)' = Waiting(p) \cup {w}
      /\ \A q \in Proc : q # p => Waiting(q)' = Waiting(q)
  BY <1>1, IInvParts, WaitingMore DEF IInv
<1>3. \A q \in Proc : w \notin Waiting(q)
  BY <1>1, IInvParts DEF WaitingRight
<1>4. ThreadIn(p, c) = None
  <2>1. \A t \in Thread : ~Held(p, c, t)
    BY DEF NobodyWaits, Held
  <2> QED
    BY <2>1, BoundFacts DEF BoundsAre
<1>5. ThreadIn(p, c)' = w
  <2>1. Held(p, c, w)'
    BY <1>1, <1>2 DEF Held
  <2> QED
    BY <1>1, <2>1, BoundFactsNext DEF BoundsAre
<1>6. ASSUME NEW d \in Client PROVE ThreadIn(p, d) # w
  <2>1. CASE p = Home[d]
    BY <1>1, <2>1, BoundFacts DEF BoundsAre
  <2>2. CASE p # Home[d] /\ \E t \in Thread : Held(p, d, t)
    BY <2>2, BoundFacts DEF BoundsAre, Held
  <2>3. CASE p # Home[d] /\ \A t \in Thread : ~Held(p, d, t)
    <3>1. ThreadIn(p, d) = None
      BY <2>3, BoundFacts DEF BoundsAre
    <3> QED
      BY <1>1, <3>1, Processes
  <2> QED
    BY <2>1, <2>2, <2>3
<1>7. ASSUME NEW q \in Proc, NEW d \in Client, q # p \/ d # c PROVE ThreadIn(q, d)' = ThreadIn(q, d)
  <2>1. ASSUME NEW t \in Thread PROVE Held(q, d, t)' <=> Held(q, d, t)
    <3>1. CASE t # w
      <4>1. t \in Waiting(q)' <=> t \in Waiting(q)
        BY <1>2, <3>1
      <4> QED
        BY <3>1, <4>1 DEF Held
    <3>2. CASE t = w
      <4>1. ~Held(q, d, w)
        BY <1>3 DEF Held
      <4>2. ~Held(q, d, w)'
        BY <1>2, <1>3, <1>7 DEF Held, TidsDiffer
      <4> QED
        BY <3>2, <4>1, <4>2
    <3> QED
      BY <3>1, <3>2
  <2> QED
    BY <2>1, BoundSame
<1> QED
  BY <1>4, <1>5, <1>6, <1>7 DEF BoundsBut

\* setOriginalTid and addWaitingThread, by the reader: a client's call gets the
\* worker it has in that process from then on.
LEMMA RegisterWorkerRefines ==
    ASSUME IInv, RefinementInv, TidsDiffer, NEW e \in Conn, RegisterWorker(e)
    PROVE  Refines
<1>1. conn[e].reader = "add" /\ Holds(e) /\ Aims(e)
  BY DEF RegisterWorker, Reading, Holds, Holding, Aims, Aiming
<1>2. PICK w : w = conn[e].thr
  OBVIOUS
<1>3. PICK p \in Proc : p = Owner[e]
  BY OwnerFacts
<1>4. PICK tid : tid = conn[e].msg.tid
  OBVIOUS
<1>5. /\ w \in Thread /\ w \in Created /\ Process(w) = p /\ thread[w].wakeup = 0
      /\ w \in Worker /\ w \notin Waiting(p)
  BY <1>1, <1>2, <1>3, AimedRight
<1>6. NobodyWaits(p, tid)
  BY <1>1, <1>3, <1>4, IInvParts DEF Targets
<1>7. PICK id \in CallId : id = conn[e].msg.id
  BY <1>1, ReaderPending
<1>8. /\ tid = Tid[id[1]] /\ rpc[id].client = "wait" /\ Pending(id) /\ tid \in TidValue
      /\ rpc[id].server = "none" /\ e = ServedAt(id)
  <2>1. conn[e].msg.cmd = "CmdCall"
    BY <1>1, IInvParts DEF InReader
  <2> QED
    BY <1>1, <1>4, <1>7, <2>1, ReaderPending
<1>9. /\ UNCHANGED <<free_workers, nworkers, wire, rpc, aborted>>
      /\ ThreadsBut(w) /\ SameBox(w) /\ SameRun(w)
      /\ thread'[w].recursion_count = thread[w].recursion_count
      /\ thread'[w].original_tid = tid
      /\ waiting_threads'[p] = Append(waiting_threads[p], w)
      /\ \A q \in Proc \ {p} : waiting_threads'[q] = waiting_threads[q]
      /\ ReaderAt(e, "count", conn[e].msg, w)
      /\ TypeOK' /\ Calm'
  BY <1>2, <1>3, <1>4, <1>5, <1>8, IInvParts, RegisterWorkerDoes, ZenonT(60)
<1>10. IInv'
  BY RegisterWorkerKeeps
<1>11. /\ \A u \in Thread : u # w => thread'[u].original_tid = thread[u].original_tid
       /\ \A u \in Thread : thread'[u].stack = thread[u].stack
  BY <1>9 DEF ThreadsBut, SameRun
<1>12. \A k \in CallId : CallStill(k) /\ ResultStays(k)
  BY <1>9 DEF CallStill, ChainStill, ResultStays, IsOpen, Stage
<1>13. PICK c \in Client : c = id[1]
  BY Clients
<1>14. p # Home[c]
  <2>1. PICK d \in Elsewhere(p) : tid = Tid[d]
    BY <1>1, <1>3, <1>4, CallsElsewhere
  <2>2. d = c
    BY <1>8, <1>13, <2>1 DEF Elsewhere, TidsDiffer
  <2> QED
    BY <2>1, <2>2 DEF Elsewhere
<1>15. /\ ThreadIn(p, c) = None /\ ThreadIn(p, c)' = w
       /\ \A d \in Client : ThreadIn(p, d) # w
       /\ BoundsBut(p, c)
  BY <1>5, <1>6, <1>8, <1>9, <1>10, <1>11, <1>13, <1>14, WorkerComes
<1>16. \A d \in Client : OrderOf(d)
  BY OrderedIs DEF RefinementInv, OrderedAll
<1>17. \A d \in Client : OrderOf(d)' /\ SameChain(d)
  BY <1>10, <1>12, <1>16, ClientStays DEF CallStill
<1>18. /\ AtOf(c) = "called" /\ Nested!Place(c) = p
  <2>1. /\ IsOpen(id) /\ (rpc[id].client # "wait" \/ rpc[id].server # "running")
    BY <1>8 DEF IsOpen
  <2>2. /\ Open(c) # <<>> /\ id = <<c, Last(Open(c))>> /\ AtOf(c) = Stage(id)
    BY <1>13, <1>16, <2>1, WhereClientIs
  <2>3. Nested!Place(c) = Owner[ServedAt(id)]
    BY <1>16, <2>2, PlaceIs DEF PlaceOf
  <2> QED
    BY <1>3, <1>8, <2>2, <2>3 DEF Stage
<1>19. Nested!Next
  <2>1. PICK i \in 1..MaxWorkers : w = <<p, i>>
    BY <1>5, WorkerFacts DEF Worker
  <2> QED
    BY <1>15, <1>17, <1>18, <2>1, NestedSteps
<1>20. UNCHANGED Promise!vars
  <2>1. HandlerOf(id)' = HandlerOf(id) /\ OutcomeOf(id)' = OutcomeOf(id)
    BY <1>12, StillSame
  <2> QED
    BY <1>12, <2>1, PromiseSteps
<1>21. RefinementInv'
  <2>1. ResultRight' /\ ServedFramed'
    BY <1>9, <1>11, StayServed DEF RefinementInv, ResultRight
  <2>2. OpenOrdered'
    BY <1>17 DEF OpenOrdered, OrderOf
  <2> QED
    BY <2>1, <2>2 DEF RefinementInv
<1> QED
  BY <1>19, <1>20, <1>21 DEF Refines

-----------------------------------------------------------------------------
(* Every step.                                                             *)

\* Whatever a thread does in a call is a step of RemoteCalls and Chains.
LEMMA ThreadRunsRefines ==
    ASSUME IInv, RefinementInv, NothingFails, TidsDiffer, NEW t \in Thread, NEW id \in CallId,
           ThreadRuns(t, id)
    PROVE  Refines
<1>1. CASE Acquire(t, id) \/ Register(t, id) \/ CountFirst(t, id)
  BY <1>1, AcquireRefines, RegisterRefines, CountFirstRefines
<1>2. CASE Send(t, id) \/ Write(t, id)
  BY <1>2, SendRefines, WriteRefines
<1>3. CASE TakeReturn(t, id) \/ Return(t, id)
  BY <1>3, TakeReturnRefines, ReturnRefines
<1>4. CASE EndHandler(t, id) \/ Release(t, id)
  BY <1>4, EndHandlerRefines, ReleaseRefines
<1>5. CASE Reply(t, id) \/ WriteReply(t, id)
  BY <1>5, ReplyRefines, WriteReplyRefines
<1>6. CASE CallOut(t, id) \/ CallOutCleanup(t, id) \/ Leave(t, id)
  BY <1>6, CallOutRefines, CallOutCleanupRefines, LeaveRefines
<1> QED
  BY <1>1, <1>2, <1>3, <1>4, <1>5, <1>6, ThreadNever DEF ThreadRuns

\* So is whatever a thread does.
LEMMA ServesRefines ==
    ASSUME IInv, RefinementInv, NothingFails, TidsDiffer, NEW t \in Thread, Serves(t) PROVE Refines
<1>1. CASE HandleCall(t)
  BY <1>1, HandleCallRefines
<1>2. CASE thread[t].stack # <<>> /\ ThreadRuns(t, Last(thread[t].stack)[2])
  <2>1. thread[t].stack \in Seq(Frame)
    <3>1. thread[t] \in ThreadRec
      BY IInvParts DEF TypeOK
    <3> QED
      BY <3>1 DEF ThreadRec
  <2>2. Last(thread[t].stack) \in Frame
    BY <1>2, <2>1, FrontFacts
  <2>3. Last(thread[t].stack)[2] \in CallId
    BY <2>2 DEF Frame
  <2> QED
    BY <1>2, <2>3, ThreadRunsRefines
<1> QED
  BY <1>1, <1>2 DEF Serves

\* And whatever a reader does.
LEMMA ReaderRunsRefines ==
    ASSUME IInv, RefinementInv, NothingFails, TidsDiffer, NEW e \in Conn, ReaderRuns(e) PROVE Refines
<1>1. CASE \/ ReaderCheck(e) \/ RecvMessage(e) \/ AcquireWaiting(e) \/ GetFreeWorker(e)
           \/ CountWorker(e) \/ FindWaiting(e) \/ Deliver(e)
  BY <1>1, ReaderRefines
<1>2. CASE RegisterWorker(e)
  BY <1>2, RegisterWorkerRefines
<1>3. CASE Post(e)
  BY <1>3, PostRefines
<1> QED
  BY <1>1, <1>2, <1>3, ReaderNever DEF ReaderRuns

\* Every step of Calls is one of RemoteCalls and of Chains, or changes nothing
\* that they see.
LEMMA NextRefines == NothingFails /\ TidsDiffer /\ IInv /\ RefinementInv /\ [Next]_vars => Refines
<1> SUFFICES ASSUME NothingFails, TidsDiffer, IInv, RefinementInv, [Next]_vars PROVE Refines
  OBVIOUS
<1>1. CASE UNCHANGED vars
  BY <1>1, StutterRefines
<1>2. ASSUME NEW t \in Created, NEW s \in Service, ClientCall(t, s) PROVE Refines
  <2>1. t \in Thread
    BY DEF Created, Thread
  <2> QED
    BY <1>2, <2>1, ClientCallRefines
<1>3. ASSUME NEW t \in Created, Serves(t) PROVE Refines
  <2>1. t \in Thread
    BY DEF Created, Thread
  <2> QED
    BY <1>3, <2>1, ServesRefines
<1>4. ASSUME NEW e \in Conn, ReaderRuns(e) PROVE Refines
  BY <1>4, ReaderRunsRefines
<1>5. ASSUME NEW e \in Conn, Break(e) PROVE Refines
  BY <1>5, ReaderNever
<1>6. CASE Quiescent
  BY <1>6, StutterRefines DEF Quiescent
<1> QED
  BY <1>1, <1>2, <1>3, <1>4, <1>5, <1>6 DEF Next

\* At the start nobody calls, and clients have their own threads.
LEMMA InitRefines == Init => RefinementInv /\ Promise!Init /\ Nested!Init
<1> SUFFICES ASSUME Init PROVE RefinementInv /\ Promise!Init /\ Nested!Init
  OBVIOUS
<1>1. TypeOK /\ AllRest /\ IInv
  BY InitRests, InitHolds
<1>2. \A k \in CallId : /\ rpc[k].client = "none" /\ rpc[k].server = "none" /\ rpc[k].res = None
                        /\ ~IsOpen(k)
  BY DEF Init, IsOpen
<1>3. ASSUME NEW c \in Client PROVE Open(c) = <<>> /\ OpenNumbers(c) = {}
  <2>1. OpenNumbers(c) = {}
    BY <1>2, CallIds DEF OpenNumbers
  <2> QED
    BY <2>1, AscendingNone DEF Open
<1>4. RefinementInv
  <2>1. ResultRight /\ ServedFramed
    BY <1>2 DEF ResultRight, ServedFramed, Inside
  <2>2. ASSUME NEW c \in Client PROVE OrderOf(c)
    <3>1. Open(c) \in Seq(1..Budget[c]) /\ Len(Open(c)) = 0 /\ 1..Len(Open(c)) = {}
      <4>1. \A S : <<>> \in Seq(S)
        OBVIOUS
      <4>2. Open(c) = <<>> /\ Len(<<>>) = 0 /\ 1..0 = {}
        BY <1>3
      <4> QED
        BY <4>1, <4>2
    <3>2. \A n \in 1..Budget[c] : ~IsOpen(<<c, n>>)
      BY <1>2, CallIds
    <3> QED
      BY <3>1, <3>2 DEF OrderOf
  <2> QED
    BY <2>1, <2>2 DEF RefinementInv, OpenOrdered, OrderOf
<1>5. Promise!Init
  BY <1>2, PromiseVars DEF HandlerOf, OutcomeOf
<1>6. ASSUME NEW c \in Client PROVE ChainOf(c) = <<>> /\ AtOf(c) = "running"
  BY <1>3 DEF ChainOf, AtOf
<1>7. ASSUME NEW c \in Client, NEW p \in Proc PROVE ThreadIn(p, c) = IF p = Home[c] THEN c ELSE None
  <2>1. \A t \in Thread : ~Held(p, c, t)
    BY <1>1 DEF AllRest, Held
  <2> QED
    BY <1>1, <2>1, BoundFacts DEF BoundsAre
<1>8. Nested!Init
  BY <1>6, <1>7 DEF Nested!Init
<1> QED
  BY <1>4, <1>5, <1>8

-----------------------------------------------------------------------------
(* What calls are to their clients.                                        *)

\* What is known of the calls of clients, besides IInv, always holds.
LEMMA AlwaysOrdered ==
    ASSUME NothingFails, TidsDiffer PROVE SafeSpec => [](IInv /\ RefinementInv)
<1>1. Init => IInv /\ RefinementInv
  BY InitHolds, InitRefines
<1>2. (IInv /\ RefinementInv) /\ [Next]_vars => (IInv /\ RefinementInv)'
  BY NextKeeps, NextRefines DEF Refines
<1> QED
  BY <1>1, <1>2, PTL DEF SafeSpec

\* client_call keeps its promise.
THEOREM PromiseKept ==
    ASSUME NothingFails, TidsDiffer PROVE SafeSpec => ImplementsRemoteCalls
<1>1. Init => Promise!Init
  BY InitRefines
<1>2. IInv /\ RefinementInv /\ [Next]_vars => [Promise!Next]_(Promise!vars)
  BY NextRefines DEF Refines
<1> QED
  BY <1>1, <1>2, AlwaysOrdered, PTL DEF SafeSpec, ImplementsRemoteCalls, Promise!Spec

\* Nested calls are one thread of control.
THEOREM ChainsKept ==
    ASSUME NothingFails, TidsDiffer PROVE SafeSpec => ImplementsChains
<1>1. Init => Nested!Init
  BY InitRefines
<1>2. IInv /\ RefinementInv /\ [Next]_vars
        => [UNCHANGED Nested!vars \/ Nested!Next]_(Nested!vars)
  BY NextRefines DEF Refines
<1> QED
  BY <1>1, <1>2, AlwaysOrdered, PTL DEF SafeSpec, ImplementsChains

\* A stack is a list of frames.
LEMMA StackTyped == IInv => \A t \in Thread : thread[t].stack \in Seq(Frame)
<1> SUFFICES ASSUME IInv, NEW t \in Thread PROVE thread[t].stack \in Seq(Frame)
  OBVIOUS
<1>1. thread[t] \in ThreadRec
  BY IInvParts DEF TypeOK
<1> QED
  BY <1>1 DEF ThreadRec

\* Who runs for a client is on top of its stack in its last call's handler, or
\* is the client itself, in no call.
LEMMA WhoCalls ==
    ASSUME IInv, NEW c \in Client, NEW t \in Thread, CallsFor(t) = c
    PROVE  \/ t = c /\ thread[c].stack = <<>> /\ \A k \in CallId : k[1] = c => ~IsOpen(k)
           \/ \E k \in CallId : /\ k[1] = c /\ OnTop(t, <<"handleCall", k>>) /\ IsOpen(k)
                                /\ rpc[k].server = "running"
                                /\ \A l \in CallId : Before(k, l) => ~IsOpen(l)
<1>1. c # None
  BY Processes DEF Thread
<1>2. CASE thread[t].stack = <<>>
  BY <1>1, <1>2, IInvParts DEF CallsFor, Covered
<1>3. CASE thread[t].stack # <<>>
  <2>1. PICK f \in Frame : f = Last(thread[t].stack)
    <3>1. thread[t].stack \in Seq(Frame)
      BY StackTyped
    <3> QED
      BY <1>3, <3>1, FrontFacts
  <2>2. f[1] = "handleCall" /\ rpc[f[2]].server = "running" /\ f[2][1] = c
    BY <1>1, <1>3, <2>1 DEF CallsFor
  <2>3. PICK k \in CallId : k = f[2] /\ f = <<"handleCall", k>>
    BY <2>2 DEF Frame
  <2>4. OnTop(t, <<"handleCall", k>>)
    <3>1. PICK s \in Seq(Frame) : s = thread[t].stack /\ s # <<>>
      BY <1>3, StackTyped
    <3>2. Len(s) > 0 /\ s[Len(s)] = Last(s)
      BY <3>1 DEF Last
    <3> QED
      BY <2>1, <2>3, <3>1, <3>2 DEF OnTop
  <2> QED
    BY <2>2, <2>3, <2>4, TopLast
<1> QED
  BY <1>2, <1>3

\* The handler of a client's last call, while it runs, is on top of a stack, of
\* the thread the client has there.
LEMMA LastRuns ==
    ASSUME IInv, RefinementInv, NEW id \in CallId, IsOpen(id), rpc[id].server = "running",
           \A l \in CallId : Before(id, l) => ~IsOpen(l),
           NEW c, c = id[1], NEW p, p = Owner[ServedAt(id)]
    PROVE  \E u \in Thread : /\ OnTop(u, <<"handleCall", id>>) /\ u \in Created
                             /\ CallsFor(u) = c /\ ThreadIn(p, c) = u
<1>1. PICK u \in Thread : <<"handleCall", id>> \in Frames(u)
  BY DEF RefinementInv, ServedFramed, Inside
<1>2. PICK s \in Seq(Frame) : s = thread[u].stack
  BY StackTyped
<1>3. PICK i \in 1..Len(s) : s[i] = <<"handleCall", id>>
  BY <1>1, <1>2 DEF Frames
<1>4. i = Len(s)
  <2> SUFFICES ASSUME i # Len(s) PROVE FALSE
    OBVIOUS
  <2>1. i \in 1..Len(s) - 1 /\ i + 1 \in 1..Len(s) /\ s[i + 1] \in Frame
    BY <1>2, <1>3
  <2>2. PICK g \in Frame : g = s[i + 1]
    BY <2>1
  <2>3. NextFrame(u, i)
    BY <1>2, <2>1, IInvParts DEF FramesNest
  <2>4. g[1] = "client_call" /\ Before(id, g[2])
    BY <1>2, <1>3, <2>2, <2>3 DEF NextFrame, Frame
  <2>5. IsOpen(g[2]) /\ g[2] \in CallId
    BY <1>2, <2>1, <2>2, <2>4, IInvParts DEF FramesPlaced, Frame
  <2> QED
    BY <2>4, <2>5
<1>5. OnTop(u, <<"handleCall", id>>) /\ thread[u].stack # <<>> /\ Last(thread[u].stack) = <<"handleCall", id>>
  <2>1. s # <<>>
    BY <1>3
  <2> QED
    BY <1>2, <1>3, <1>4, <2>1 DEF OnTop, Last
<1>6. u \in Created
  BY <1>5, RunsCreated
<1>7. CallsFor(u) = c
  BY <1>5 DEF CallsFor
<1>8. c \in Client /\ p \in Proc /\ Process(u) = p /\ (p = Home[c] => u = c)
  <2>1. Owner[ServedAt(id)] = Process(u) /\ (Process(u) = Home[id[1]] => u = id[1])
    BY <1>1, FrameFacts
  <2>2. Process(u) \in Proc
    BY Processes
  <2> QED
    BY <2>1, <2>2, CallIds
<1>9. ThreadIn(p, c) = u
  <2>1. CASE p = Home[c]
    BY <1>8, <2>1, BoundFacts DEF BoundsAre
  <2>2. CASE p # Home[c]
    <3>1. ServesIt(u, id)
      BY <1>1 DEF ServesIt
    <3>2. Held(p, c, u)
      BY <1>8, <3>1, ServesRegistered DEF Held
    <3> QED
      BY <1>8, <2>2, <3>2, BoundFacts DEF BoundsAre
  <2> QED
    BY <2>1, <2>2
<1> QED
  BY <1>5, <1>6, <1>7, <1>9

\* A client's stack is empty when it is in no call.
LEMMA NoCallNoFrame ==
    ASSUME IInv, NEW c \in Client, \A k \in CallId : k[1] = c => ~IsOpen(k)
    PROVE  thread[c].stack = <<>> /\ CallsFor(c) = c /\ c \in Created
<1>1. c \in Thread /\ c \in Created
  BY DEF Thread, Created
<1>2. PICK s \in Seq(Frame) : s = thread[c].stack
  BY <1>1, StackTyped
<1>3. s = <<>>
  <2> SUFFICES ASSUME s # <<>> PROVE FALSE
    OBVIOUS
  <2>1. 1 \in 1..Len(s) /\ s[1] \in Frame
    BY <1>2
  <2>2. PICK f \in Frame : f = s[1]
    BY <2>1
  <2>3. f[1] = "client_call" /\ f[2][1] = c
    BY <1>1, <1>2, <2>1, <2>2, IInvParts DEF FramesOwned
  <2>4. IsOpen(f[2]) /\ f[2] \in CallId
    BY <1>1, <1>2, <2>1, <2>2, <2>3, IInvParts DEF FramesPlaced, Frame
  <2> QED
    BY <2>3, <2>4
<1> QED
  BY <1>1, <1>2, <1>3 DEF CallsFor

\* A handler is on top of one stack.
LEMMA OneTop ==
    ASSUME IInv, NEW id \in CallId, NEW t \in Thread, NEW u \in Thread,
           OnTop(t, <<"handleCall", id>>), OnTop(u, <<"handleCall", id>>)
    PROVE  t = u
<1>1. PICK s \in Seq(Frame) : s = thread[t].stack
  BY StackTyped
<1>2. PICK r \in Seq(Frame) : r = thread[u].stack
  BY StackTyped
<1>3. Len(s) > 0 /\ Len(r) > 0 /\ s[Len(s)] = r[Len(r)]
  BY <1>1, <1>2 DEF OnTop
<1>4. Len(s) \in 1..Len(s) /\ Len(r) \in 1..Len(r)
  BY <1>3
<1> QED
  BY <1>1, <1>2, <1>3, <1>4, IInvParts DEF FramesApart

\* A client is somewhere.
LEMMA PlaceThere == ASSUME IInv, NEW c \in Client, OrderOf(c) PROVE PlaceOf(c) \in Proc
<1>1. CASE Open(c) = <<>>
  BY <1>1, ThreadAssumption DEF PlaceOf
<1>2. CASE Open(c) # <<>>
  <2>1. PICK id \in CallId : id = <<c, Last(Open(c))>> /\ IsOpen(id)
    BY <1>2, LastOpen
  <2>2. ServedAt(id) \in Conn
    BY <2>1, CallFacts, OwnerFacts DEF ServedAt, IsOpen
  <2> QED
    BY <1>2, <2>1, <2>2, OwnerFacts DEF PlaceOf
<1> QED
  BY <1>1, <1>2

\* Who runs for a client, and only they, are on its thread in the process its
\* innermost call is in.
LEMMA RunsRight == ASSUME IInv, RefinementInv PROVE RunsOnItsThread
<1> SUFFICES ASSUME NEW c \in Client PROVE {t \in Created : CallsFor(t) = c} = Nested!Runs(c)
  BY DEF RunsOnItsThread
<1>1. OrderOf(c)
  BY OrderedIs DEF RefinementInv, OrderedAll
<1>2. Nested!Runs(c) = IF AtOf(c) = "running" THEN {ThreadIn(PlaceOf(c), c)} ELSE {}
  <2>1. PICK p : p = PlaceOf(c)
    OBVIOUS
  <2>2. p \in Proc
    BY <1>1, <2>1, PlaceThere
  <2>3. Nested!Place(c) = p
    BY <1>1, <2>1, PlaceIs
  <2> QED
    BY <2>1, <2>2, <2>3 DEF Nested!Runs
<1>3. \A t \in Created : t \in Thread
  BY DEF Created, Thread
<1>4. CASE Open(c) = <<>>
  <2>1. ASSUME NEW k \in CallId, k[1] = c PROVE ~IsOpen(k)
    BY <1>1, <1>4, <2>1, IsLastOpen
  <2>2. c \in Created /\ CallsFor(c) = c
    BY <2>1, NoCallNoFrame
  <2>3. \A t \in Created : CallsFor(t) = c => t = c
    BY <1>3, <2>1, WhoCalls
  <2>4. AtOf(c) = "running" /\ PlaceOf(c) = Home[c]
    BY <1>4 DEF AtOf, PlaceOf
  <2>5. ThreadIn(Home[c], c) = c
    BY DEF ThreadIn
  <2> QED
    BY <1>2, <2>2, <2>3, <2>4, <2>5
<1>5. CASE Open(c) # <<>>
  <2>1. PICK id \in CallId :
          /\ id = <<c, Last(Open(c))>> /\ id[1] = c /\ IsOpen(id)
          /\ \A k \in CallId : k[1] = c /\ IsOpen(k) /\ k # id => Before(k, id)
    BY <1>1, <1>5, LastOpen
  <2>2. \A l \in CallId : Before(id, l) => ~IsOpen(l)
    BY <2>1, CallIds DEF Before
  <2>3. AtOf(c) = Stage(id) /\ PlaceOf(c) = Owner[ServedAt(id)]
    BY <1>5, <2>1 DEF AtOf, PlaceOf
  <2>4. ASSUME NEW t \in Created, CallsFor(t) = c
        PROVE  OnTop(t, <<"handleCall", id>>) /\ rpc[id].server = "running"
    <3>1. PICK k \in CallId : /\ k[1] = c /\ OnTop(t, <<"handleCall", k>>) /\ IsOpen(k)
                              /\ rpc[k].server = "running"
                              /\ \A l \in CallId : Before(k, l) => ~IsOpen(l)
      BY <1>3, <2>1, <2>4, WhoCalls
    <3>2. k = id
      BY <2>1, <3>1
    <3> QED
      BY <3>1, <3>2
  <2>5. CASE rpc[id].server = "running"
    <3>1. PICK u \in Thread : /\ OnTop(u, <<"handleCall", id>>) /\ u \in Created
                              /\ CallsFor(u) = c /\ ThreadIn(PlaceOf(c), c) = u
      BY <2>1, <2>2, <2>3, <2>5, LastRuns
    <3>2. \A t \in Created : CallsFor(t) = c => t = u
      BY <1>3, <2>4, <3>1, OneTop
    <3>3. AtOf(c) = "running"
      BY <2>3, <2>5 DEF Stage
    <3> QED
      BY <1>2, <3>1, <3>2, <3>3
  <2>6. CASE rpc[id].server # "running"
    <3>1. AtOf(c) # "running"
      BY <2>3, <2>6 DEF Stage
    <3> QED
      BY <1>2, <2>4, <2>6, <3>1
  <2> QED
    BY <2>5, <2>6
<1> QED
  BY <1>4, <1>5

\* Whoever runs on behalf of a client is its one thread in the process that its
\* innermost call has come to.
THEOREM RunsWhereBound ==
    ASSUME NothingFails, TidsDiffer PROVE SafeSpec => []RunsOnItsThread
<1>1. IInv /\ RefinementInv => RunsOnItsThread
  BY RunsRight
<1> QED
  BY <1>1, AlwaysOrdered, PTL

-----------------------------------------------------------------------------
(* Each end of a connection is a Connection.                               *)

AtEnd(e) == [End(e)!Next]_(End(e)!vars)

\* What an end shows of a call that is served there, or made there.
CallStage(pc) ==
    IF pc \in {"release", "reply"} THEN "running" ELSE IF pc = "thrown" THEN "callout" ELSE pc
RequestStage(pc) ==
    IF pc \in {"acquire", "add", "count", "send"} THEN "held"
    ELSE IF pc \in {"wait", "return"} THEN "sent"
    ELSE IF pc = "unsent" THEN "leaked" ELSE pc

LEMMA EndShows ==
    ASSUME NEW e \in Conn, NEW id \in CallId, rpc[id].conn \in Conn
    PROVE  /\ EndCall(e)[id] = IF ServedAt(id) = e THEN CallStage(rpc[id].server) ELSE "none"
           /\ EndRequest(e)[id] = IF rpc[id].conn = e THEN RequestStage(rpc[id].client) ELSE "none"
<1>1. rpc[id].conn = Peer[e] <=> ServedAt(id) = e
  BY TopologyAssumption DEF ServedAt
<1> QED
  BY <1>1 DEF EndCall, EndRequest, CallStage, RequestStage

\* handleCall moves on.
LEMMA ServerMovesEnd ==
    ASSUME NEW e \in Conn, NEW id \in CallId, rpc[id].conn \in Conn, CallsBut(id),
           rpc'[id].conn = rpc[id].conn, rpc'[id].client = rpc[id].client
    PROVE  /\ EndRequest(e)' = EndRequest(e)
           /\ ServedAt(id) # e \/ CallStage(rpc'[id].server) = CallStage(rpc[id].server)
                => EndCall(e)' = EndCall(e)
           /\ ServedAt(id) = e
                => EndCall(e)' = [EndCall(e) EXCEPT ![id] = CallStage(rpc'[id].server)]
<1>1. rpc[id].conn = Peer[e] <=> ServedAt(id) = e
  BY TopologyAssumption DEF ServedAt
<1>2. EndRequest(e)' = EndRequest(e)
  BY DEF EndRequest, CallsBut
<1>3. ASSUME ServedAt(id) # e \/ CallStage(rpc'[id].server) = CallStage(rpc[id].server)
      PROVE  EndCall(e)' = EndCall(e)
  BY <1>1, <1>3 DEF EndCall, CallsBut, CallStage
<1>4. ASSUME ServedAt(id) = e
      PROVE  EndCall(e)' = [EndCall(e) EXCEPT ![id] = CallStage(rpc'[id].server)]
  BY <1>1, <1>4 DEF EndCall, CallsBut, CallStage
<1> QED
  BY <1>2, <1>3, <1>4

\* client_call moves on.
LEMMA ClientMovesEnd ==
    ASSUME NEW e \in Conn, NEW id \in CallId, rpc[id].conn \in Conn, CallsBut(id),
           rpc'[id].conn = rpc[id].conn, rpc'[id].server = rpc[id].server
    PROVE  /\ EndCall(e)' = EndCall(e)
           /\ rpc[id].conn # e \/ RequestStage(rpc'[id].client) = RequestStage(rpc[id].client)
                => EndRequest(e)' = EndRequest(e)
           /\ rpc[id].conn = e
                => EndRequest(e)' = [EndRequest(e) EXCEPT ![id] = RequestStage(rpc'[id].client)]
<1>1. EndCall(e)' = EndCall(e)
  BY DEF EndCall, CallsBut
<1>2. ASSUME rpc[id].conn # e \/ RequestStage(rpc'[id].client) = RequestStage(rpc[id].client)
      PROVE  EndRequest(e)' = EndRequest(e)
  BY <1>2 DEF EndRequest, CallsBut, RequestStage
<1>3. ASSUME rpc[id].conn = e
      PROVE  EndRequest(e)' = [EndRequest(e) EXCEPT ![id] = RequestStage(rpc'[id].client)]
  BY <1>3 DEF EndRequest, CallsBut, RequestStage
<1> QED
  BY <1>1, <1>2, <1>3

\* The variables of the Connection at e, but for its calls and requests.
SameObject(e) == conn'[e] = conn[e]
SameStream(e) == wire'[e].readable = wire[e].readable /\ wire'[e].writable = wire[e].writable
SameCalls(e) == EndCall(e)' = EndCall(e) /\ EndRequest(e)' = EndRequest(e)
SameLocals(e) == EndReader(e)' = EndReader(e) /\ EndMsg(e)' = EndMsg(e)

LEMMA NothingAtEnd ==
    ASSUME NEW e \in Conn, SameObject(e), SameStream(e), SameCalls(e)
    PROVE  AtEnd(e) /\ SameLocals(e)
<1>1. SameLocals(e)
  BY DEF SameObject, SameLocals, EndReader, EndMsg
<1> QED
  BY <1>1 DEF SameObject, SameStream, SameCalls, SameLocals, AtEnd, End!vars

\* Where nothing fails, a connection is Active, its lock free, its stream whole.
LEMMA CalmEnd ==
    ASSUME IInv, NEW e \in Conn
    PROVE  /\ conn \in [Conn -> ConnRec] /\ rpc \in [CallId -> RpcRec] /\ wire \in [Conn -> WireRec]
           /\ conn[e].state = "Active" /\ End(e)!LockFree /\ ~End(e)!MayCleanup
           /\ wire[e].readable /\ wire[e].writable
           /\ conn[e].reader \in CalmReader
<1>1. Calm /\ TypeOK
  BY DEF IInv
<1>2. EndReader(e) # "emit"
  BY <1>1 DEF Calm, CalmReader, EndReader
<1>3. \A id \in CallId : EndCall(e)[id] # "emit"
  BY <1>1 DEF Calm, EndCall
<1> QED
  BY <1>1, <1>2, <1>3 DEF Calm, TypeOK, End!LockFree, End!MayCleanup

\* A call that has been made has a connection.
LEMMA MadeOver ==
    ASSUME IInv, NEW id \in CallId, rpc[id].client # "none" \/ rpc[id].server # "none"
    PROVE  /\ rpc[id].client # "none"
           /\ rpc[id].conn \in Conn /\ ServedAt(id) \in Conn /\ Peer[ServedAt(id)] = rpc[id].conn
<1>1. rpc[id].client # "none"
  BY IInvParts DEF EndsAgree
<1>2. rpc[id].conn \in Conn
  BY <1>1, IInvParts DEF EndsAgree
<1> QED
  BY <1>1, <1>2, TopologyAssumption DEF ServedAt

-----------------------------------------------------------------------------
(* The steps of client_call, as the ends see them.                         *)

\* Only the reference counter of a Connection changes.
LEMMA RefMoves ==
    ASSUME IInv, NEW e \in Conn, NEW f \in Conn, NEW n, conn' = [conn EXCEPT ![f].ref_cnt = n]
    PROVE  /\ f # e => SameObject(e)
           /\ f = e => /\ SameLocals(e) /\ conn'[e].ref_cnt = n
                       /\ conn'[e].state = conn[e].state
                       /\ conn'[e].incoming_calls_cnt = conn[e].incoming_calls_cnt
                       /\ conn'[e].disconnects = conn[e].disconnects
                       /\ conn'[e].cleanups = conn[e].cleanups
<1>1. conn \in [Conn -> ConnRec]
  BY CalmEnd
<1>2. f # e => SameObject(e)
  BY <1>1 DEF SameObject
<1>3. f = e => conn'[e] = [conn[e] EXCEPT !.ref_cnt = n]
  BY <1>1
<1> QED
  BY <1>1, <1>2, <1>3 DEF SameLocals, EndReader, EndMsg, ConnRec

\* A stub calls: the connection is selected.
LEMMA ClientCallAtEnd ==
    ASSUME IInv, NEW t \in Thread, NEW s \in Service, ClientCall(t, s), NEW e \in Conn
    PROVE  AtEnd(e)
<1>1. conn \in [Conn -> ConnRec] /\ rpc \in [CallId -> RpcRec]
  BY CalmEnd
<1>2. PICK id \in CallId, f \in Conn :
        /\ rpc[id].client = "none" /\ UNCHANGED wire /\ CallsBut(id)
        /\ rpc'[id].server = rpc[id].server /\ rpc'[id].client = "acquire" /\ rpc'[id].conn = f
        /\ ConnsBut(f) /\ conn'[f].ref_cnt = conn[f].ref_cnt + 1
  <2>1. thread[t].used_connection # None => Owner[thread[t].used_connection] = Process(t)
    BY IInvParts DEF UsedRight
  <2> QED
    BY <2>1, ClientCallDoes, IInvParts
<1>3. conn' = [conn EXCEPT ![f].ref_cnt = conn[f].ref_cnt + 1]
  <2>1. PICK g : conn' = [conn EXCEPT ![g].ref_cnt = conn[g].ref_cnt + 1]
    BY DEF ClientCall
  <2>2. conn[f].ref_cnt \in Nat
    BY <1>1 DEF ConnRec
  <2>3. g = f
    BY <1>1, <1>2, <2>1, <2>2
  <2> QED
    BY <2>1, <2>3
<1>4. rpc[id].server = "none"
  BY <1>2, IInvParts DEF EndsAgree
<1>5. EndCall(e)' = EndCall(e)
  BY <1>2, <1>4 DEF EndCall, CallsBut
<1>6. SameStream(e)
  BY <1>2 DEF SameStream
<1>7. CASE e # f
  <2>1. EndRequest(e)' = EndRequest(e)
    BY <1>2, <1>7 DEF EndRequest, CallsBut
  <2> QED
    BY <1>3, <1>5, <1>6, <1>7, <2>1, RefMoves, NothingAtEnd DEF SameCalls
<1>8. CASE e = f
  <2>1. EndRequest(e)[id] = "none" /\ EndRequest(e)' = [EndRequest(e) EXCEPT ![id] = "held"]
    BY <1>2, <1>8 DEF EndRequest, CallsBut
  <2>2. /\ SameLocals(e) /\ conn'[e].ref_cnt = conn[e].ref_cnt + 1
        /\ conn'[e].state = conn[e].state
        /\ conn'[e].incoming_calls_cnt = conn[e].incoming_calls_cnt
        /\ conn'[e].disconnects = conn[e].disconnects
        /\ conn'[e].cleanups = conn[e].cleanups
    BY <1>3, <1>8, RefMoves
  <2>3. End(e)!SelectConnection(id)
    BY <1>5, <1>6, <2>1, <2>2 DEF SameStream, SameLocals, End!SelectConnection
  <2> QED
    BY <2>3 DEF AtEnd, End!Next
<1> QED
  BY <1>7, <1>8

\* client_call registers, waits, and is answered: nothing an end would show.
LEMMA ClientWaitsAtEnd ==
    ASSUME IInv, NEW t \in Thread, NEW id \in CallId, NEW e \in Conn,
           Acquire(t, id) \/ Register(t, id) \/ CountFirst(t, id) \/ TakeReturn(t, id)
    PROVE  AtEnd(e)
<1>1. rpc \in [CallId -> RpcRec]
  BY CalmEnd
<1>2. UNCHANGED <<conn, wire>>
  BY DEF Acquire, Register, CountFirst, TakeReturn
<1>3. /\ CallsBut(id) /\ rpc'[id].conn = rpc[id].conn /\ rpc'[id].server = rpc[id].server
      /\ RequestStage(rpc'[id].client) = RequestStage(rpc[id].client)
      /\ rpc[id].client # "none"
  <2>1. CASE Acquire(t, id) \/ Register(t, id) \/ CountFirst(t, id)
    <3>1. PICK pc \in {"add", "count", "send"} : rpc' = [rpc EXCEPT ![id].client = pc]
      BY <2>1 DEF Acquire, Register, CountFirst, Goto
    <3>2. rpc[id].client \in {"acquire", "add", "count"}
      BY <2>1 DEF Acquire, Register, CountFirst, Calling
    <3> QED
      BY <1>1, <3>1, <3>2 DEF CallsBut, RequestStage, RpcRec
  <2>2. CASE TakeReturn(t, id)
    <3>1. rpc' = [rpc EXCEPT ![id].client = "return", ![id].res = "Success",
                             ![id].reply = thread[t].wakeup_data.id]
      BY <2>2 DEF TakeReturn
    <3>2. rpc[id].client = "wait"
      BY <2>2 DEF TakeReturn, Calling
    <3> QED
      BY <1>1, <3>1, <3>2 DEF CallsBut, RequestStage, RpcRec
  <2> QED
    BY <2>1, <2>2
<1>4. SameCalls(e)
  BY <1>3, MadeOver, ClientMovesEnd DEF SameCalls
<1> QED
  BY <1>2, <1>4, NothingAtEnd DEF SameObject, SameStream

\* client_call finds the connection not Closed, and writes.
LEMMA SendAtEnd ==
    ASSUME IInv, NEW t \in Thread, NEW id \in CallId, NEW e \in Conn, Send(t, id) \/ Write(t, id)
    PROVE  AtEnd(e)
<1>1. conn \in [Conn -> ConnRec] /\ rpc \in [CallId -> RpcRec] /\ wire \in [Conn -> WireRec]
  BY CalmEnd
<1>2. rpc[id].client \in {"send", "sending"}
  BY DEF Send, Write, Calling
<1>3. PICK f \in Conn : f = rpc[id].conn
  BY <1>2, MadeOver
<1>4. conn[f].state = "Active" /\ wire[f].writable
  BY CalmEnd
<1>5. /\ UNCHANGED conn /\ SameStream(e)
      /\ \/ rpc[id].client = "send" /\ rpc' = [rpc EXCEPT ![id].client = "sending"]
         \/ rpc[id].client = "sending" /\ rpc' = [rpc EXCEPT ![id].client = "wait"]
  <2>1. CASE Send(t, id)
    BY <1>3, <1>4, <2>1 DEF Send, Calling, Goto, SameStream
  <2>2. CASE Write(t, id)
    <3>1. PICK q : wire' = [wire EXCEPT ![Peer[f]].queue = q]
      BY <1>3, <1>4, <2>2 DEF Write
    <3>2. SameStream(e)
      BY <1>1, <3>1 DEF SameStream, WireRec
    <3> QED
      BY <1>3, <1>4, <2>2, <3>2 DEF Write, Calling, Goto
  <2> QED
    BY <2>1, <2>2
<1>6. /\ CallsBut(id) /\ rpc'[id].conn = rpc[id].conn /\ rpc'[id].server = rpc[id].server
      /\ \/ rpc[id].client = "send" /\ rpc'[id].client = "sending"
         \/ rpc[id].client = "sending" /\ rpc'[id].client = "wait"
  BY <1>1, <1>5 DEF CallsBut, RpcRec
<1>7. SameObject(e) /\ SameLocals(e)
  BY <1>5 DEF SameObject, SameLocals, EndReader, EndMsg
<1>8. CASE e # f
  BY <1>3, <1>5, <1>6, <1>7, <1>8, ClientMovesEnd, NothingAtEnd DEF SameCalls
<1>9. CASE e = f
  <2>1. /\ EndCall(e)' = EndCall(e)
        /\ EndRequest(e)' = [EndRequest(e) EXCEPT ![id] = RequestStage(rpc'[id].client)]
        /\ EndRequest(e)[id] = RequestStage(rpc[id].client)
    BY <1>3, <1>6, <1>9, ClientMovesEnd, EndShows
  <2>2. CASE rpc[id].client = "send"
    <3>1. EndRequest(e)[id] = "held" /\ EndRequest(e)' = [EndRequest(e) EXCEPT ![id] = "sending"]
      BY <1>6, <2>1, <2>2 DEF RequestStage
    <3>2. End(e)!SendCall(id)
      BY <1>4, <1>5, <1>7, <1>9, <2>1, <3>1 DEF SameObject, SameLocals, SameStream, End!SendCall
    <3> QED
      BY <3>2 DEF AtEnd, End!Next
  <2>3. CASE rpc[id].client = "sending"
    <3>1. EndRequest(e)[id] = "sending" /\ EndRequest(e)' = [EndRequest(e) EXCEPT ![id] = "sent"]
      BY <1>6, <2>1, <2>3 DEF RequestStage
    <3>2. End(e)!write(TRUE)
      BY <1>4, <1>5, <1>9 DEF End!write
    <3>3. End(e)!WriteCall(id)
      BY <1>5, <1>7, <2>1, <3>1, <3>2 DEF SameObject, SameLocals, SameStream, End!WriteCall
    <3> QED
      BY <3>3 DEF AtEnd, End!Next
  <2> QED
    BY <1>2, <2>2, <2>3
<1> QED
  BY <1>8, <1>9

\* client_call drops its reference.
LEMMA ReturnAtEnd ==
    ASSUME IInv, NEW t \in Thread, NEW id \in CallId, NEW e \in Conn, Return(t, id)
    PROVE  AtEnd(e)
<1>1. rpc \in [CallId -> RpcRec]
  BY CalmEnd
<1>2. rpc[id].client = "return" /\ rpc' = [rpc EXCEPT ![id].client = "done"] /\ UNCHANGED wire
  BY DEF Return, Calling, Goto
<1>3. PICK f \in Conn : f = rpc[id].conn
  BY <1>2, MadeOver
<1>4. conn' = [conn EXCEPT ![f].ref_cnt = conn[f].ref_cnt - 1]
  BY <1>3 DEF Return
<1>5. /\ CallsBut(id) /\ rpc'[id].conn = rpc[id].conn /\ rpc'[id].server = rpc[id].server
      /\ rpc'[id].client = "done"
  BY <1>1, <1>2 DEF CallsBut, RpcRec
<1>6. SameStream(e)
  BY <1>2 DEF SameStream
<1>7. CASE e # f
  BY <1>3, <1>4, <1>5, <1>6, <1>7, RefMoves, ClientMovesEnd, NothingAtEnd DEF SameCalls
<1>8. CASE e = f
  <2>1. /\ EndCall(e)' = EndCall(e)
        /\ EndRequest(e)' = [EndRequest(e) EXCEPT ![id] = "done"]
        /\ EndRequest(e)[id] = "sent"
    BY <1>2, <1>3, <1>5, <1>8, ClientMovesEnd, EndShows DEF RequestStage
  <2>2. /\ SameLocals(e) /\ conn'[e].ref_cnt = conn[e].ref_cnt - 1
        /\ conn'[e].state = conn[e].state
        /\ conn'[e].incoming_calls_cnt = conn[e].incoming_calls_cnt
        /\ conn'[e].disconnects = conn[e].disconnects
        /\ conn'[e].cleanups = conn[e].cleanups
    BY <1>4, <1>8, RefMoves
  <2>3. End(e)!FinishCall(id)
    BY <1>6, <2>1, <2>2 DEF SameStream, SameLocals, End!FinishCall
  <2> QED
    BY <2>3 DEF AtEnd, End!Next
<1> QED
  BY <1>7, <1>8

-----------------------------------------------------------------------------
(* Those of handleCall.                                                    *)

\* A thread begins to handle a call.
LEMMA HandleCallAtEnd ==
    ASSUME IInv, NEW t \in Thread, HandleCall(t), NEW e \in Conn
    PROVE  AtEnd(e)
<1>1. conn \in [Conn -> ConnRec] /\ rpc \in [CallId -> RpcRec]
  BY CalmEnd
<1>2. PICK id \in CallId, f \in Conn :
        /\ rpc[id].server = "posted" /\ f = ServedAt(id) /\ rpc[id].client = "wait"
        /\ rpc' = [rpc EXCEPT ![id].server = "running", ![id].via = f]
        /\ conn' = [conn EXCEPT ![f].ref_cnt = conn[f].ref_cnt + 1,
                                ![f].incoming_calls_cnt = conn[f].incoming_calls_cnt + 1]
        /\ UNCHANGED wire
  <2>1. PICK m : m = thread[t].wakeup_data
    OBVIOUS
  <2>2. Boxed(t)
    <3>1. thread[t].wakeup \in Nat /\ thread[t].wakeup > 0
      BY IInvParts DEF HandleCall, TypeOK, ThreadRec
    <3> QED
      BY <3>1 DEF Boxed
  <2>3. /\ m \in Msg /\ rpc[m.id].client = "wait"
        /\ \/ /\ m.cmd = "CmdCall" /\ rpc[m.id].server = "posted" /\ thread[t].wakeup_conn = ServedAt(m.id)
           \/ m.cmd = "CmdReturn" /\ <<"client_call", m.id>> \in Frames(t)
    BY <2>1, <2>2, IInvParts DEF InBox
  <2>4. m.id \in CallId
    BY <2>3 DEF Msg
  <2>5. m.cmd = "CmdCall"
    <3>1. thread[t].stack = <<>> => Frames(t) = {}
      BY DEF Frames
    <3> QED
      BY <2>1, <2>3, <3>1 DEF HandleCall, Idle
  <2>6. ServedAt(m.id) \in Conn
    BY <2>3, <2>4, MadeOver
  <2> QED
    BY <2>1, <2>3, <2>4, <2>5, <2>6 DEF HandleCall
<1>3. rpc[id].conn \in Conn
  BY <1>2, MadeOver
<1>4. /\ CallsBut(id) /\ rpc'[id].conn = rpc[id].conn /\ rpc'[id].client = rpc[id].client
      /\ rpc'[id].server = "running"
  BY <1>1, <1>2 DEF CallsBut, RpcRec
<1>5. SameStream(e)
  BY <1>2 DEF SameStream
<1>6. CASE e # f
  <2>1. SameObject(e)
    BY <1>1, <1>2, <1>6 DEF SameObject
  <2> QED
    BY <1>2, <1>3, <1>4, <1>5, <1>6, <2>1, ServerMovesEnd, NothingAtEnd DEF SameCalls
<1>7. CASE e = f
  <2>1. /\ EndRequest(e)' = EndRequest(e)
        /\ EndCall(e)' = [EndCall(e) EXCEPT ![id] = "running"]
        /\ EndCall(e)[id] = "posted"
    <3>1. ServedAt(id) = e /\ rpc[id].server = "posted"
      BY <1>2, <1>7
    <3>2. CallStage("running") = "running" /\ CallStage("posted") = "posted"
      BY DEF CallStage
    <3> QED
      BY <1>3, <1>4, <3>1, <3>2, ServerMovesEnd, EndShows
  <2>2. /\ SameLocals(e) /\ conn'[e].ref_cnt = conn[e].ref_cnt + 1
        /\ conn'[e].state = conn[e].state
        /\ conn'[e].incoming_calls_cnt = conn[e].incoming_calls_cnt + 1
        /\ conn'[e].disconnects = conn[e].disconnects
        /\ conn'[e].cleanups = conn[e].cleanups
    <3>1. conn'[e] = [conn[e] EXCEPT !.ref_cnt = conn[e].ref_cnt + 1,
                                     !.incoming_calls_cnt = conn[e].incoming_calls_cnt + 1]
      BY <1>1, <1>2, <1>7
    <3> QED
      BY <1>1, <3>1 DEF SameLocals, EndReader, EndMsg, ConnRec
  <2>3. End(e)!HandleCall(id)
    BY <1>5, <2>1, <2>2 DEF SameStream, SameLocals, End!HandleCall
  <2> QED
    BY <2>3 DEF AtEnd, End!Next, End!ServerRuns
<1> QED
  BY <1>6, <1>7

\* The handler ends, its thread is unregistered: the end shows the call running.
LEMMA HandlerEndsAtEnd ==
    ASSUME IInv, NothingFails, NEW t \in Thread, NEW id \in CallId, NEW e \in Conn,
           EndHandler(t, id) \/ Release(t, id)
    PROVE  AtEnd(e)
<1>1. rpc \in [CallId -> RpcRec]
  BY CalmEnd
<1>2. rpc[id].server \in {"running", "release"} /\ UNCHANGED <<conn, wire>>
  BY DEF EndHandler, Release, Serving
<1>3. /\ CallsBut(id) /\ rpc'[id].conn = rpc[id].conn /\ rpc'[id].client = rpc[id].client
      /\ rpc'[id].server \in {"release", "reply"}
  <2>1. CASE EndHandler(t, id)
    <3>1. rpc' = [rpc EXCEPT ![id].served = "Success", ![id].server = "release"]
      BY <2>1 DEF EndHandler, NothingFails
    <3> QED
      BY <1>1, <3>1 DEF CallsBut, RpcRec
  <2>2. CASE Release(t, id)
    <3>1. rpc' = [rpc EXCEPT ![id].server = "reply", ![id].rtid = thread[t].original_tid]
      BY <2>2 DEF Release
    <3> QED
      BY <1>1, <3>1 DEF CallsBut, RpcRec
  <2> QED
    BY <2>1, <2>2
<1>4. SameCalls(e)
  <2>1. CallStage(rpc'[id].server) = CallStage(rpc[id].server)
    BY <1>2, <1>3 DEF CallStage
  <2>2. rpc[id].conn \in Conn
    BY <1>2, MadeOver
  <2> QED
    BY <1>3, <2>1, <2>2, ServerMovesEnd DEF SameCalls
<1> QED
  BY <1>2, <1>4, NothingAtEnd DEF SameObject, SameStream

\* handleCall finds the connection not Closed, and writes the return.
LEMMA ReplyAtEnd ==
    ASSUME IInv, NEW t \in Thread, NEW id \in CallId, NEW e \in Conn,
           Reply(t, id) \/ WriteReply(t, id)
    PROVE  AtEnd(e)
<1>1. conn \in [Conn -> ConnRec] /\ rpc \in [CallId -> RpcRec] /\ wire \in [Conn -> WireRec]
  BY CalmEnd
<1>2. rpc[id].server \in {"reply", "sending"}
  BY DEF Reply, WriteReply, Serving
<1>3. PICK f \in Conn : f = ServedAt(id) /\ rpc[id].conn \in Conn /\ rpc[id].via = f
  BY <1>2, MadeOver, ServedVia, IInvParts DEF Inside
<1>4. conn[f].state = "Active" /\ wire[f].writable
  BY CalmEnd
<1>5. /\ UNCHANGED conn /\ SameStream(e)
      /\ \/ rpc[id].server = "reply" /\ rpc' = [rpc EXCEPT ![id].server = "sending"]
         \/ rpc[id].server = "sending" /\ rpc' = [rpc EXCEPT ![id].server = "callout"]
  <2>1. CASE Reply(t, id)
    BY <1>3, <1>4, <2>1 DEF Reply, Serving, SameStream
  <2>2. CASE WriteReply(t, id)
    <3>1. PICK q : wire' = [wire EXCEPT ![Peer[f]].queue = q]
      BY <1>3, <1>4, <2>2 DEF WriteReply
    <3>2. SameStream(e)
      BY <1>1, <3>1 DEF SameStream, WireRec
    <3>3. rpc[id].served = "Success"
      BY <1>2, IInvParts DEF EndsAgree
    <3> QED
      BY <1>3, <1>4, <2>2, <3>2, <3>3 DEF WriteReply, Serving, Answered
  <2> QED
    BY <2>1, <2>2
<1>6. /\ CallsBut(id) /\ rpc'[id].conn = rpc[id].conn /\ rpc'[id].client = rpc[id].client
      /\ \/ rpc[id].server = "reply" /\ rpc'[id].server = "sending"
         \/ rpc[id].server = "sending" /\ rpc'[id].server = "callout"
  BY <1>1, <1>5 DEF CallsBut, RpcRec
<1>7. SameObject(e) /\ SameLocals(e)
  BY <1>5 DEF SameObject, SameLocals, EndReader, EndMsg
<1>8. CASE e # f
  BY <1>3, <1>5, <1>6, <1>7, <1>8, ServerMovesEnd, NothingAtEnd DEF SameCalls
<1>9. CASE e = f
  <2>1. /\ EndRequest(e)' = EndRequest(e)
        /\ EndCall(e)' = [EndCall(e) EXCEPT ![id] = CallStage(rpc'[id].server)]
        /\ EndCall(e)[id] = CallStage(rpc[id].server)
    BY <1>3, <1>6, <1>9, ServerMovesEnd, EndShows
  <2>2. CASE rpc[id].server = "reply"
    <3>1. EndCall(e)[id] = "running" /\ EndCall(e)' = [EndCall(e) EXCEPT ![id] = "sending"]
      BY <1>6, <2>1, <2>2 DEF CallStage
    <3>2. End(e)!Reply(id)
      BY <1>4, <1>5, <1>7, <1>9, <2>1, <3>1 DEF SameObject, SameLocals, SameStream, End!Reply
    <3> QED
      BY <3>2 DEF AtEnd, End!Next, End!ServerRuns
  <2>3. CASE rpc[id].server = "sending"
    <3>1. EndCall(e)[id] = "sending" /\ EndCall(e)' = [EndCall(e) EXCEPT ![id] = "callout"]
      BY <1>6, <2>1, <2>3 DEF CallStage
    <3>2. End(e)!write(TRUE)
      BY <1>4, <1>5, <1>9 DEF End!write
    <3>3. End(e)!WriteReply(id)
      BY <1>5, <1>7, <2>1, <3>1, <3>2 DEF SameObject, SameLocals, SameStream, End!WriteReply
    <3> QED
      BY <3>3 DEF AtEnd, End!Next, End!ServerRuns
  <2> QED
    BY <1>2, <2>2, <2>3
<1> QED
  BY <1>8, <1>9

\* call_out, which finds the connection Active.
LEMMA CallOutAtEnd ==
    ASSUME IInv, NEW t \in Thread, NEW id \in CallId, NEW e \in Conn, CallOut(t, id)
    PROVE  AtEnd(e)
<1>1. conn \in [Conn -> ConnRec] /\ rpc \in [CallId -> RpcRec]
  BY CalmEnd
<1>2. rpc[id].server = "callout" /\ UNCHANGED wire
  BY DEF CallOut, Serving
<1>3. PICK f \in Conn : f = ServedAt(id) /\ rpc[id].conn \in Conn /\ rpc[id].via = f
  BY <1>2, MadeOver, ServedVia, IInvParts DEF Inside
<1>4. PICK pc : /\ pc = IF conn[f].incoming_calls_cnt = 1 THEN "cleanup" ELSE "leave"
                /\ rpc' = [rpc EXCEPT ![id].server = pc]
                /\ conn' = [conn EXCEPT ![f].incoming_calls_cnt = conn[f].incoming_calls_cnt - 1]
  BY <1>3 DEF CallOut, Goto
<1>5. /\ CallsBut(id) /\ rpc'[id].conn = rpc[id].conn /\ rpc'[id].client = rpc[id].client
      /\ rpc'[id].server = pc
  BY <1>1, <1>4 DEF CallsBut, RpcRec
<1>6. SameStream(e)
  BY <1>2 DEF SameStream
<1>7. CASE e # f
  <2>1. SameObject(e)
    BY <1>1, <1>4, <1>7 DEF SameObject
  <2> QED
    BY <1>3, <1>5, <1>6, <1>7, <2>1, ServerMovesEnd, NothingAtEnd DEF SameCalls
<1>8. CASE e = f
  <2>1. /\ EndRequest(e)' = EndRequest(e)
        /\ EndCall(e)' = [EndCall(e) EXCEPT ![id] = pc]
        /\ EndCall(e)[id] = "callout"
    <3>1. CallStage(pc) = pc
      BY <1>4 DEF CallStage
    <3> QED
      BY <1>2, <1>3, <1>5, <1>8, <3>1, ServerMovesEnd, EndShows DEF CallStage
  <2>2. /\ SameLocals(e) /\ conn'[e].ref_cnt = conn[e].ref_cnt
        /\ conn'[e].state = conn[e].state
        /\ conn'[e].incoming_calls_cnt = conn[e].incoming_calls_cnt - 1
        /\ conn'[e].disconnects = conn[e].disconnects
        /\ conn'[e].cleanups = conn[e].cleanups
    <3>1. conn'[e] = [conn[e] EXCEPT !.incoming_calls_cnt = conn[e].incoming_calls_cnt - 1]
      BY <1>1, <1>4, <1>8
    <3> QED
      BY <1>1, <3>1 DEF SameLocals, EndReader, EndMsg, ConnRec
  <2>3. End(e)!AfterCallOut = pc
    BY <1>4, <1>8 DEF End!AfterCallOut
  <2>4. End(e)!CallOut(id)
    BY <1>6, <2>1, <2>2, <2>3 DEF SameStream, SameLocals, End!CallOut
  <2> QED
    BY <2>4 DEF AtEnd, End!Next, End!ServerRuns
<1> QED
  BY <1>7, <1>8

\* try_on_client_cleanup has nothing to do.
LEMMA CallOutCleanupAtEnd ==
    ASSUME IInv, NEW t \in Thread, NEW id \in CallId, NEW e \in Conn, CallOutCleanup(t, id)
    PROVE  AtEnd(e)
<1>1. rpc \in [CallId -> RpcRec]
  BY CalmEnd
<1>2. rpc[id].server = "cleanup" /\ UNCHANGED <<conn, wire>>
  BY DEF CallOutCleanup, Serving
<1>3. PICK f \in Conn : f = ServedAt(id) /\ rpc[id].conn \in Conn /\ rpc[id].via = f
  BY <1>2, MadeOver, ServedVia, IInvParts DEF Inside
<1>4. conn[f].state = "Active"
  BY CalmEnd
<1>5. rpc' = [rpc EXCEPT ![id].server = "leave"]
  BY <1>3, <1>4 DEF CallOutCleanup, Goto, MayCleanup
<1>6. /\ CallsBut(id) /\ rpc'[id].conn = rpc[id].conn /\ rpc'[id].client = rpc[id].client
      /\ rpc'[id].server = "leave"
  BY <1>1, <1>5 DEF CallsBut, RpcRec
<1>7. SameObject(e) /\ SameStream(e)
  BY <1>2 DEF SameObject, SameStream
<1>8. CASE e # f
  BY <1>3, <1>6, <1>7, <1>8, ServerMovesEnd, NothingAtEnd DEF SameCalls
<1>9. CASE e = f
  <2>1. /\ EndRequest(e)' = EndRequest(e)
        /\ EndCall(e)' = [EndCall(e) EXCEPT ![id] = "leave"]
        /\ EndCall(e)[id] = "cleanup"
    BY <1>2, <1>3, <1>6, <1>9, ServerMovesEnd, EndShows DEF CallStage
  <2>2. End(e)!LockFree /\ ~End(e)!MayCleanup
    BY CalmEnd
  <2>3. SameLocals(e)
    BY <1>2 DEF SameLocals, EndReader, EndMsg
  <2>4. End(e)!CallOutCleanup(id)
    BY <1>7, <2>1, <2>2, <2>3 DEF SameObject, SameStream, SameLocals, End!CallOutCleanup
  <2> QED
    BY <2>4 DEF AtEnd, End!Next, End!ServerRuns
<1> QED
  BY <1>8, <1>9

\* handleCall drops its reference, and its caller the reader's.
LEMMA LeaveAtEnd ==
    ASSUME IInv, NEW t \in Thread, NEW id \in CallId, NEW e \in Conn, Leave(t, id)
    PROVE  AtEnd(e)
<1>1. rpc \in [CallId -> RpcRec]
  BY CalmEnd
<1>2. rpc[id].server = "leave" /\ UNCHANGED wire
  BY DEF Leave, Serving
<1>3. PICK f \in Conn : f = ServedAt(id) /\ rpc[id].conn \in Conn /\ rpc[id].via = f
  BY <1>2, MadeOver, ServedVia, IInvParts DEF Inside
<1>4. rpc[id].served = "Success"
  BY <1>2, IInvParts DEF EndsAgree, Through
<1>5. /\ rpc' = [rpc EXCEPT ![id].server = "done"]
      /\ conn' = [conn EXCEPT ![f].ref_cnt = conn[f].ref_cnt - 2]
  BY <1>3, <1>4 DEF Leave
<1>6. /\ CallsBut(id) /\ rpc'[id].conn = rpc[id].conn /\ rpc'[id].client = rpc[id].client
      /\ rpc'[id].server = "done"
  BY <1>1, <1>5 DEF CallsBut, RpcRec
<1>7. SameStream(e)
  BY <1>2 DEF SameStream
<1>8. CASE e # f
  BY <1>3, <1>5, <1>6, <1>7, <1>8, RefMoves, ServerMovesEnd, NothingAtEnd DEF SameCalls
<1>9. CASE e = f
  <2>1. /\ EndRequest(e)' = EndRequest(e)
        /\ EndCall(e)' = [EndCall(e) EXCEPT ![id] = "done"]
        /\ EndCall(e)[id] = "leave"
    BY <1>2, <1>3, <1>6, <1>9, ServerMovesEnd, EndShows DEF CallStage
  <2>2. /\ SameLocals(e) /\ conn'[e].ref_cnt = conn[e].ref_cnt - 2
        /\ conn'[e].state = conn[e].state
        /\ conn'[e].incoming_calls_cnt = conn[e].incoming_calls_cnt
        /\ conn'[e].disconnects = conn[e].disconnects
        /\ conn'[e].cleanups = conn[e].cleanups
    BY <1>5, <1>9, RefMoves
  <2>3. End(e)!Leave(id)
    BY <1>7, <2>1, <2>2 DEF SameStream, SameLocals, End!Leave
  <2> QED
    BY <2>3 DEF AtEnd, End!Next, End!ServerRuns
<1> QED
  BY <1>8, <1>9

-----------------------------------------------------------------------------
(* Those of the reader.                                                    *)

\* What an end shows of its reader: between a message that was read and its
\* sem_post, only that it is there.
LEMMA ReaderMovesEnd ==
    ASSUME IInv, NEW e \in Conn, NEW f \in Conn, NEW pc, NEW u,
           \/ conn' = [conn EXCEPT ![f].reader = pc]
           \/ conn' = [conn EXCEPT ![f].reader = pc, ![f].thr = u]
    PROVE  /\ f # e => SameObject(e)
           /\ f = e => /\ conn'[e].reader = pc /\ EndMsg(e)' = EndMsg(e)
                       /\ conn'[e].state = conn[e].state
                       /\ conn'[e].ref_cnt = conn[e].ref_cnt
                       /\ conn'[e].incoming_calls_cnt = conn[e].incoming_calls_cnt
                       /\ conn'[e].disconnects = conn[e].disconnects
                       /\ conn'[e].cleanups = conn[e].cleanups
<1>1. conn \in [Conn -> ConnRec]
  BY CalmEnd
<1>2. f # e => SameObject(e)
  BY <1>1 DEF SameObject
<1>3. f = e => \/ conn'[e] = [conn[e] EXCEPT !.reader = pc]
               \/ conn'[e] = [conn[e] EXCEPT !.reader = pc, !.thr = u]
  BY <1>1
<1> QED
  BY <1>1, <1>2, <1>3 DEF EndMsg, ConnRec

\* The reader looks for the thread its message is for.
LEMMA ReaderLooksAtEnd ==
    ASSUME IInv, NEW f \in Conn, NEW e \in Conn,
           \/ AcquireWaiting(f) \/ GetFreeWorker(f) \/ RegisterWorker(f) \/ CountWorker(f)
           \/ FindWaiting(f) \/ Deliver(f)
    PROVE  AtEnd(e)
<1>1. /\ UNCHANGED <<wire, rpc>>
      /\ conn[f].reader \in {"acquire", "worker", "add", "count", "find", "data"}
  BY DEF AcquireWaiting, GetFreeWorker, RegisterWorker, CountWorker, FindWaiting, Deliver, Reading
<1>2. SameStream(e) /\ SameCalls(e)
  BY <1>1 DEF SameStream, SameCalls, EndCall, EndRequest
<1>3. \/ UNCHANGED conn
      \/ \E pc \in {"worker", "data", "add", "count", "post"} : \E u :
           \/ conn' = [conn EXCEPT ![f].reader = pc]
           \/ conn' = [conn EXCEPT ![f].reader = pc, ![f].thr = u]
  BY DEF AcquireWaiting, GetFreeWorker, RegisterWorker, CountWorker, FindWaiting, Deliver
<1>4. CASE UNCHANGED conn
  BY <1>2, <1>4, NothingAtEnd DEF SameObject
<1>5. ASSUME NEW pc \in {"worker", "data", "add", "count", "post"}, NEW u,
             \/ conn' = [conn EXCEPT ![f].reader = pc]
             \/ conn' = [conn EXCEPT ![f].reader = pc, ![f].thr = u]
      PROVE  AtEnd(e)
  <2>1. CASE f # e
    <3>1. SameObject(e)
      BY <1>5, <2>1, ReaderMovesEnd
    <3> QED
      BY <1>2, <3>1, NothingAtEnd
  <2>2. CASE f = e
    <3>1. /\ conn'[e].reader = pc /\ EndMsg(e)' = EndMsg(e)
          /\ conn'[e].state = conn[e].state
          /\ conn'[e].ref_cnt = conn[e].ref_cnt
          /\ conn'[e].incoming_calls_cnt = conn[e].incoming_calls_cnt
          /\ conn'[e].disconnects = conn[e].disconnects
          /\ conn'[e].cleanups = conn[e].cleanups
      BY <1>5, <2>2, ReaderMovesEnd
    <3>2. EndReader(e)' = EndReader(e)
      BY <1>1, <2>2, <3>1 DEF EndReader
    <3> QED
      BY <1>2, <3>1, <3>2 DEF AtEnd, SameStream, SameCalls, End!vars
  <2> QED
    BY <2>1, <2>2
<1> QED
  BY <1>3, <1>4, <1>5

\* recvMessage finds the connection not Closed.
LEMMA ReaderCheckAtEnd ==
    ASSUME IInv, NEW f \in Conn, NEW e \in Conn, ReaderCheck(f)
    PROVE  AtEnd(e)
<1>1. UNCHANGED <<wire, rpc>> /\ conn[f].reader = "check"
  BY DEF ReaderCheck, Reading, Only
<1>2. SameStream(e) /\ SameCalls(e)
  BY <1>1 DEF SameStream, SameCalls, EndCall, EndRequest
<1>3. conn[f].state = "Active"
  BY CalmEnd
<1>4. conn' = [conn EXCEPT ![f].reader = "read"]
  BY <1>3 DEF ReaderCheck
<1>5. CASE f # e
  <2>1. SameObject(e)
    BY <1>4, <1>5, ReaderMovesEnd
  <2> QED
    BY <1>2, <2>1, NothingAtEnd
<1>6. CASE f = e
  <2>1. /\ conn'[e].reader = "read" /\ EndMsg(e)' = EndMsg(e)
        /\ conn'[e].state = conn[e].state
        /\ conn'[e].ref_cnt = conn[e].ref_cnt
        /\ conn'[e].incoming_calls_cnt = conn[e].incoming_calls_cnt
        /\ conn'[e].disconnects = conn[e].disconnects
        /\ conn'[e].cleanups = conn[e].cleanups
    BY <1>4, <1>6, ReaderMovesEnd
  <2>2. EndReader(e) = "check" /\ EndReader(e)' = "read"
    BY <1>1, <1>6, <2>1 DEF EndReader
  <2>3. End(e)!ReaderCheck
    BY <1>2, <1>3, <1>6, <2>1, <2>2 DEF SameStream, SameCalls, End!ReaderCheck
  <2> QED
    BY <2>3 DEF AtEnd, End!Next, End!ReaderRuns
<1> QED
  BY <1>5, <1>6

\* A message comes: of a call that is not served yet, or for one that was sent.
LEMMA RecvMessageAtEnd ==
    ASSUME IInv, NEW f \in Conn, NEW e \in Conn, RecvMessage(f)
    PROVE  AtEnd(e)
<1>1. conn \in [Conn -> ConnRec] /\ wire \in [Conn -> WireRec]
  BY CalmEnd
<1>2. UNCHANGED rpc /\ conn[f].reader = "read" /\ wire[f].readable
  BY DEF RecvMessage, Reading
<1>3. PICK m : /\ m = Head(wire[f].queue) /\ Fits(m, f)
               /\ conn' = [conn EXCEPT ![f].msg = m,
                              ![f].reader = IF m.cmd = "CmdCall" THEN "acquire" ELSE "find"]
  <2>1. wire[f].queue \in Seq(Msg) /\ wire[f].queue # <<>>
    BY <1>1 DEF RecvMessage, WireRec
  <2>2. 1 \in 1..Len(wire[f].queue) /\ Head(wire[f].queue) = wire[f].queue[1]
    BY <2>1
  <2>3. Fits(Head(wire[f].queue), f)
    BY <2>2, IInvParts DEF OnWire
  <2> QED
    BY <2>3 DEF RecvMessage
<1>4. SameStream(e)
  <2>1. wire' = [wire EXCEPT ![f].queue = Tail(@)]
    BY DEF RecvMessage
  <2> QED
    BY <1>1, <2>1 DEF SameStream, WireRec
<1>5. SameCalls(e)
  BY <1>2 DEF SameCalls, EndCall, EndRequest
<1>6. CASE f # e
  <2>1. SameObject(e)
    BY <1>1, <1>3, <1>6 DEF SameObject
  <2> QED
    BY <1>4, <1>5, <2>1, NothingAtEnd
<1>7. CASE f = e
  <2>1. conn'[e] = [conn[e] EXCEPT !.msg = m, !.reader = IF m.cmd = "CmdCall" THEN "acquire" ELSE "find"]
    BY <1>1, <1>3, <1>7
  <2>2. /\ conn'[e].reader \in {"acquire", "find"} /\ conn'[e].msg = m
        /\ conn'[e].state = conn[e].state
        /\ conn'[e].ref_cnt = conn[e].ref_cnt
        /\ conn'[e].incoming_calls_cnt = conn[e].incoming_calls_cnt
        /\ conn'[e].disconnects = conn[e].disconnects
        /\ conn'[e].cleanups = conn[e].cleanups
    BY <1>1, <2>1 DEF ConnRec
  <2>3. EndReader(e) = "read" /\ EndReader(e)' = "post"
    BY <1>2, <1>7, <2>2 DEF EndReader
  <2>4. m \in Msg /\ m.id \in CallId /\ rpc[m.id].client = "wait"
    BY <1>3 DEF Fits, Msg
  <2>5. rpc[m.id].conn \in Conn
    BY <2>4, MadeOver
  <2>6. \/ \E k \in CallId : EndCall(e)[k] = "none" /\ EndMsg(e)' = [cmd |-> "CmdCall", id |-> k]
        \/ /\ \E o \in CallId : EndRequest(e)[o] \in {"sent", "done"}
           /\ EndMsg(e)' = [cmd |-> "CmdReturn"]
    <3>1. CASE m.cmd = "CmdCall"
      <4>1. rpc[m.id].server = "none"
        BY <1>3, <3>1 DEF Fits
      <4>2. EndCall(e)[m.id] = "none"
        BY <2>4, <2>5, <4>1, EndShows DEF CallStage
      <4>3. EndMsg(e)' = [cmd |-> "CmdCall", id |-> m.id]
        BY <2>2, <3>1 DEF EndMsg
      <4> QED
        BY <2>4, <4>2, <4>3
    <3>2. CASE m.cmd = "CmdReturn"
      <4>1. rpc[m.id].conn = e
        BY <1>3, <1>7, <3>2 DEF Fits
      <4>2. EndRequest(e)[m.id] = "sent"
        BY <2>4, <2>5, <4>1, EndShows DEF RequestStage
      <4>3. EndMsg(e)' = [cmd |-> "CmdReturn"]
        BY <2>2, <3>2 DEF EndMsg
      <4> QED
        BY <2>4, <4>2, <4>3
    <3> QED
      BY <1>3, <3>1, <3>2 DEF Fits
  <2>7. End(e)!RecvMessage
    BY <1>2, <1>4, <1>5, <1>7, <2>2, <2>3, <2>6 DEF SameStream, SameCalls, End!RecvMessage
  <2> QED
    BY <2>7 DEF AtEnd, End!Next
<1> QED
  BY <1>6, <1>7

\* The message is handed over.
LEMMA PostAtEnd ==
    ASSUME IInv, NEW f \in Conn, NEW e \in Conn, Post(f)
    PROVE  AtEnd(e)
<1>1. conn \in [Conn -> ConnRec] /\ rpc \in [CallId -> RpcRec]
  BY CalmEnd
<1>2. UNCHANGED wire /\ conn[f].reader = "post"
  BY DEF Post, Reading
<1>3. PICK m : m = conn[f].msg /\ Fits(m, f)
  BY <1>2, IInvParts DEF InReader, Holds, Holding
<1>4. m \in Msg /\ m.id \in CallId /\ rpc[m.id].client = "wait" /\ m.cmd \in {"CmdCall", "CmdReturn"}
  BY <1>3 DEF Fits, Msg
<1>5. rpc[m.id].conn \in Conn
  BY <1>4, MadeOver
<1>6. SameStream(e)
  BY <1>2 DEF SameStream
<1>7. \/ /\ m.cmd = "CmdCall" /\ rpc' = [rpc EXCEPT ![m.id].server = "posted"]
         /\ conn' = [[conn EXCEPT ![f].reader = "check", ![f].msg = NoMsg, ![f].thr = None]
                       EXCEPT ![f].ref_cnt = @ + 1]
      \/ /\ m.cmd = "CmdReturn" /\ UNCHANGED rpc
         /\ conn' = [conn EXCEPT ![f].reader = "check", ![f].msg = NoMsg, ![f].thr = None]
  BY <1>3, <1>4 DEF Post, Goto
<1>8. /\ f # e => SameObject(e)
      /\ f = e => /\ conn'[e].reader = "check" /\ conn'[e].msg = NoMsg
                  /\ conn'[e].state = conn[e].state
                  /\ conn'[e].ref_cnt = IF m.cmd = "CmdCall" THEN conn[e].ref_cnt + 1 ELSE conn[e].ref_cnt
                  /\ conn'[e].incoming_calls_cnt = conn[e].incoming_calls_cnt
                  /\ conn'[e].disconnects = conn[e].disconnects
                  /\ conn'[e].cleanups = conn[e].cleanups
  <2>1. f # e => SameObject(e)
    BY <1>1, <1>7 DEF SameObject
  <2>2. ASSUME f = e
        PROVE  /\ conn'[e].reader = "check" /\ conn'[e].msg = NoMsg
               /\ conn'[e].state = conn[e].state
               /\ conn'[e].ref_cnt = IF m.cmd = "CmdCall" THEN conn[e].ref_cnt + 1 ELSE conn[e].ref_cnt
               /\ conn'[e].incoming_calls_cnt = conn[e].incoming_calls_cnt
               /\ conn'[e].disconnects = conn[e].disconnects
               /\ conn'[e].cleanups = conn[e].cleanups
    <3> DEFINE done == [conn[e] EXCEPT !.reader = "check", !.msg = NoMsg, !.thr = None]
    <3>1. /\ done.reader = "check" /\ done.msg = NoMsg
          /\ done.state = conn[e].state
          /\ done.ref_cnt = conn[e].ref_cnt
          /\ done.incoming_calls_cnt = conn[e].incoming_calls_cnt
          /\ done.disconnects = conn[e].disconnects
          /\ done.cleanups = conn[e].cleanups
          /\ "ref_cnt" \in DOMAIN done
      BY <1>1 DEF ConnRec
    <3>2. CASE m.cmd = "CmdReturn"
      <4>1. conn'[e] = done
        BY <1>1, <1>7, <2>2, <3>2
      <4> QED
        BY <3>1, <3>2, <4>1
    <3>3. CASE m.cmd = "CmdCall"
      <4> DEFINE all == [conn EXCEPT ![f].reader = "check", ![f].msg = NoMsg, ![f].thr = None]
      <4>1. all[e] = done /\ e \in DOMAIN all
        BY <1>1, <2>2
      <4>2. conn' = [all EXCEPT ![f].ref_cnt = @ + 1]
        BY <1>7, <3>3
      <4>3. conn'[e] = [done EXCEPT !.ref_cnt = done.ref_cnt + 1]
        <5> HIDE DEF all, done
        <5> QED
          BY <2>2, <4>1, <4>2
      <4> QED
        <5> HIDE DEF all, done
        <5> QED
          BY <3>1, <3>3, <4>3
    <3> QED
      BY <1>4, <3>2, <3>3
  <2> QED
    BY <2>1, <2>2
<1>9. CASE m.cmd = "CmdCall"
  <2>1. /\ CallsBut(m.id) /\ rpc'[m.id].conn = rpc[m.id].conn
        /\ rpc'[m.id].client = rpc[m.id].client /\ rpc'[m.id].server = "posted"
    BY <1>1, <1>4, <1>7, <1>9 DEF CallsBut, RpcRec
  <2>2. f = ServedAt(m.id)
    BY <1>3, <1>9 DEF Fits
  <2>3. CASE f # e
    BY <1>4, <1>5, <1>6, <1>8, <2>1, <2>2, <2>3, ServerMovesEnd, NothingAtEnd DEF SameCalls
  <2>4. CASE f = e
    <3>1. /\ EndRequest(e)' = EndRequest(e)
          /\ EndCall(e)' = [EndCall(e) EXCEPT ![m.id] = "posted"]
      BY <1>4, <1>5, <2>1, <2>2, <2>4, ServerMovesEnd DEF CallStage
    <3>2. EndMsg(e) = [cmd |-> "CmdCall", id |-> m.id] /\ EndMsg(e)' = [cmd |-> "none"]
      BY <1>3, <1>8, <1>9, <2>4 DEF EndMsg, NoMsg
    <3>3. EndReader(e) = "post" /\ EndReader(e)' = "check"
      BY <1>2, <1>8, <2>4 DEF EndReader
    <3>4. End(e)!Post
      BY <1>6, <1>8, <1>9, <2>4, <3>1, <3>2, <3>3 DEF SameStream, End!Post, End!NoMsg
    <3> QED
      BY <3>4 DEF AtEnd, End!Next, End!ReaderRuns
  <2> QED
    BY <2>3, <2>4
<1>10. CASE m.cmd = "CmdReturn"
  <2>1. SameCalls(e)
    BY <1>7, <1>10 DEF SameCalls, EndCall, EndRequest
  <2>2. CASE f # e
    BY <1>6, <1>8, <2>1, <2>2, NothingAtEnd
  <2>3. CASE f = e
    <3>1. EndMsg(e) = [cmd |-> "CmdReturn"] /\ EndMsg(e)' = [cmd |-> "none"]
      BY <1>3, <1>8, <1>10, <2>3 DEF EndMsg, NoMsg
    <3>2. EndReader(e) = "post" /\ EndReader(e)' = "check"
      BY <1>2, <1>8, <2>3 DEF EndReader
    <3>3. End(e)!Post
      BY <1>6, <1>8, <1>10, <2>1, <2>3, <3>1, <3>2 DEF SameStream, SameCalls, End!Post, End!NoMsg
    <3> QED
      BY <3>3 DEF AtEnd, End!Next, End!ReaderRuns
  <2> QED
    BY <2>2, <2>3
<1> QED
  BY <1>4, <1>9, <1>10

-----------------------------------------------------------------------------
(* All of them.                                                            *)

LEMMA ServesAtEnd ==
    ASSUME IInv, NothingFails, NEW t \in Thread, Serves(t), NEW e \in Conn
    PROVE  AtEnd(e)
<1>1. CASE HandleCall(t)
  BY <1>1, HandleCallAtEnd
<1>2. ASSUME NEW id \in CallId, ThreadRuns(t, id) PROVE AtEnd(e)
  BY <1>2, ClientWaitsAtEnd, SendAtEnd, ReturnAtEnd, HandlerEndsAtEnd, ReplyAtEnd, CallOutAtEnd,
     CallOutCleanupAtEnd, LeaveAtEnd, ThreadNever DEF ThreadRuns
<1>3. CASE thread[t].stack # <<>> /\ ThreadRuns(t, Last(thread[t].stack)[2])
  <2>1. thread[t].stack \in Seq(Frame)
    BY DEF IInv, TypeOK, ThreadRec
  <2>2. Last(thread[t].stack) \in Frame
    BY <1>3, <2>1, FrontFacts
  <2>3. Last(thread[t].stack)[2] \in CallId
    BY <2>2 DEF Frame
  <2> QED
    BY <1>2, <1>3, <2>3
<1> QED
  BY <1>1, <1>3 DEF Serves

\* Every step is one of the Connection at each end, or it sees nothing of it.
LEMMA NextAtEnds == NothingFails /\ IInv /\ [Next]_vars => \A e \in Conn : AtEnd(e)
<1> SUFFICES ASSUME NothingFails, IInv, [Next]_vars, NEW e \in Conn PROVE AtEnd(e)
  OBVIOUS
<1>1. CASE UNCHANGED vars \/ Quiescent
  <2>1. UNCHANGED <<conn, wire, rpc>>
    BY <1>1 DEF Quiescent, vars
  <2>2. SameCalls(e)
    BY <2>1 DEF SameCalls, EndCall, EndRequest
  <2> QED
    BY <2>1, <2>2, NothingAtEnd DEF SameObject, SameStream
<1>2. ASSUME NEW t \in Created, NEW s \in Service, ClientCall(t, s) PROVE AtEnd(e)
  <2>1. t \in Thread
    BY DEF Created, Thread
  <2> QED
    BY <1>2, <2>1, ClientCallAtEnd
<1>3. ASSUME NEW t \in Created, Serves(t) PROVE AtEnd(e)
  <2>1. t \in Thread
    BY DEF Created, Thread
  <2> QED
    BY <1>3, <2>1, ServesAtEnd
<1>4. ASSUME NEW f \in Conn, ReaderRuns(f) \/ Break(f) PROVE AtEnd(e)
  BY <1>4, ReaderNever, ReaderLooksAtEnd, ReaderCheckAtEnd, RecvMessageAtEnd, PostAtEnd DEF ReaderRuns
<1> QED
  BY <1>1, <1>2, <1>3, <1>4 DEF Next

\* Threads of many connections share each of them, and at either end of each only
\* what module Connection describes happens.
THEOREM EndsKept ==
    ASSUME NothingFails, TidsDiffer PROVE SafeSpec => EndsAreConnections
<1>1. IInv /\ [Next]_vars => \A e \in Conn :
          \/ UNCHANGED <<conn[e], wire[e], rpc>>
          \/ UNCHANGED End(e)!vars
          \/ End(e)!Next
  BY NextAtEnds DEF AtEnd
<1> QED
  BY <1>1, AlwaysRight, PTL DEF SafeSpec, EndsAreConnections

=============================================================================
