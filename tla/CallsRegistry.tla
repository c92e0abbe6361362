--------------------------- MODULE CallsRegistry ----------------------------
(***************************************************************************)
(* Why messages, registrations and counters stay right (Messages, Registry, *)
(* ConnsCounted): what becomes of them when a message is sent, read, handed *)
(* to a thread or taken by it, when a thread is registered or unregistered, *)
(* and when everything else rests.  Then the steps of threads, in client_call *)
(* and in handleCall: each keeps the invariant.                            *)
(***************************************************************************)
EXTENDS CallsStacks

-----------------------------------------------------------------------------
(* The messages under way.                                                 *)

Messages == OnWire /\ InReader /\ InBox /\ OneMessage

\* Calls that a message may be of.
MessageOf(k) ==
    rpc[k].client = "wait" /\ rpc[k].server \notin {"running", "release", "reply", "sending"}

\* A message of call k is still one where it can be received.
CallWaits(k) ==
    /\ rpc'[k].client = rpc[k].client /\ rpc'[k].conn = rpc[k].conn
    /\ \/ rpc'[k].server = rpc[k].server
       \/ rpc[k].server \in Through /\ rpc'[k].server \in Through

FramesWait == \A t \in Thread, k \in CallId :
    <<"client_call", k>> \in Frames(t) /\ rpc[k].client = "wait" /\ rpc'[k].client = "wait"
      => <<"client_call", k>> \in Frames(t)'

WireStays == \A e \in Conn : wire'[e].queue = wire[e].queue
ReaderStays(e) ==
    /\ Holds(e)' <=> Holds(e)
    /\ Holds(e) =>
         /\ conn'[e].msg = conn[e].msg
         /\ conn'[e].reader \in {"acquire", "worker", "add", "count"} =>
              conn[e].reader \in {"acquire", "worker", "add", "count"}
         /\ conn'[e].reader = "find" => conn[e].reader = "find"
BoxStays(t) ==
    /\ thread'[t].wakeup = thread[t].wakeup
    /\ Boxed(t) => /\ thread'[t].wakeup_data = thread[t].wakeup_data
                   /\ thread'[t].wakeup_conn = thread[t].wakeup_conn
                   /\ thread'[t].original_tid = thread[t].original_tid

\* The parts of Messages, by name.
LEMMA MessagesParts == Messages => OnWire /\ InReader /\ InBox /\ OneMessage
BY DEF Messages

\* Messages are of calls, and fit as long as their calls wait.
LEMMA FitsStill ==
    \A m, e : Fits(m, e) =>
      /\ m \in Msg /\ m.id \in CallId /\ MessageOf(m.id) /\ rpc[m.id].server # "posted"
      /\ CallWaits(m.id) => Fits(m, e)'
<1> SUFFICES ASSUME NEW m, NEW e, Fits(m, e)
             PROVE  /\ m \in Msg /\ m.id \in CallId /\ MessageOf(m.id) /\ rpc[m.id].server # "posted"
                    /\ CallWaits(m.id) => Fits(m, e)'
  OBVIOUS
<1>1. m \in Msg /\ m.id \in CallId
  BY DEF Fits, Msg
<1>2. MessageOf(m.id) /\ rpc[m.id].server # "posted"
  BY DEF Fits, MessageOf, Through
<1>3. ASSUME CallWaits(m.id) PROVE Fits(m, e)'
  BY <1>3 DEF Fits, CallWaits, ServedAt, Through
<1> QED
  BY <1>1, <1>2, <1>3

\* What is in a thread's box.
BoxRight(t) ==
    LET m == thread[t].wakeup_data IN
    /\ thread[t].wakeup = 1
    /\ m \in Msg
    /\ m.tid = Tid[m.id[1]] /\ thread[t].original_tid = m.tid
    /\ rpc[m.id].client = "wait"
    /\ \/ /\ m.cmd = "CmdCall" /\ rpc[m.id].server = "posted"
          /\ thread[t].wakeup_conn = ServedAt(m.id) /\ Owner[ServedAt(m.id)] = Process(t)
       \/ /\ m.cmd = "CmdReturn" /\ rpc[m.id].server \in Through
          /\ <<"client_call", m.id>> \in Frames(t)

\* A message fits its thread, said thread by thread.
LEMMA BoxFacts ==
    ASSUME InBox, NEW t \in Thread, Boxed(t)
    PROVE  LET m == thread[t].wakeup_data IN
           /\ thread[t].wakeup = 1
           /\ m \in Msg /\ m.id \in CallId /\ m.tid = Tid[m.id[1]] /\ thread[t].original_tid = m.tid
           /\ MessageOf(m.id) /\ rpc[m.id].client = "wait"
           /\ \/ /\ m.cmd = "CmdCall" /\ rpc[m.id].server = "posted"
                 /\ thread[t].wakeup_conn = ServedAt(m.id) /\ Owner[ServedAt(m.id)] = Process(t)
              \/ /\ m.cmd = "CmdReturn" /\ rpc[m.id].server \in Through
                 /\ <<"client_call", m.id>> \in Frames(t)
<1> DEFINE m == thread[t].wakeup_data
<1>1. /\ thread[t].wakeup = 1
      /\ m \in Msg /\ m.tid = Tid[m.id[1]] /\ thread[t].original_tid = m.tid
      /\ rpc[m.id].client = "wait"
      /\ \/ /\ m.cmd = "CmdCall" /\ rpc[m.id].server = "posted"
            /\ thread[t].wakeup_conn = ServedAt(m.id) /\ Owner[ServedAt(m.id)] = Process(t)
         \/ /\ m.cmd = "CmdReturn" /\ rpc[m.id].server \in Through
            /\ <<"client_call", m.id>> \in Frames(t)
  BY DEF InBox
<1>2. m.id \in CallId
  BY <1>1 DEF Msg
<1>3. MessageOf(m.id)
  BY <1>1 DEF MessageOf, Through
<1> QED
  BY <1>1, <1>2, <1>3

\* The box of a thread stays good as long as its call waits.
LEMMA BoxStill ==
    ASSUME InBox, NEW t \in Thread, Boxed(t), BoxStays(t), CallWaits(thread[t].wakeup_data.id), FramesWait
    PROVE  BoxRight(t)'
<1> DEFINE m == thread[t].wakeup_data
<1>1. /\ thread'[t].wakeup = 1 /\ thread'[t].wakeup_data = m
      /\ thread'[t].wakeup_conn = thread[t].wakeup_conn
      /\ thread'[t].original_tid = thread[t].original_tid
  BY BoxFacts DEF BoxStays
<1>2. /\ rpc'[m.id].client = "wait" /\ rpc'[m.id].conn = rpc[m.id].conn
      /\ \/ rpc'[m.id].server = rpc[m.id].server
         \/ rpc[m.id].server \in Through /\ rpc'[m.id].server \in Through
  BY BoxFacts DEF CallWaits
<1>3. \/ /\ m.cmd = "CmdCall" /\ rpc'[m.id].server = "posted"
         /\ thread'[t].wakeup_conn = Peer[rpc'[m.id].conn] /\ Owner[Peer[rpc'[m.id].conn]] = Process(t)
      \/ /\ m.cmd = "CmdReturn" /\ rpc'[m.id].server \in Through
         /\ <<"client_call", m.id>> \in Frames(t)'
  BY <1>1, <1>2, BoxFacts DEF FramesWait, Through, ServedAt
<1> QED
  BY <1>1, <1>2, <1>3, BoxFacts DEF BoxRight, ServedAt, Process

-----------------------------------------------------------------------------
(* The messages that a step does not move.                                 *)

\* A message on the wire fits its end and is a message of its call.
LEMMA WireMessage ==
    ASSUME Messages, NEW e \in Conn, NEW i \in 1..Len(wire[e].queue)
    PROVE  /\ Fits(wire[e].queue[i], e) /\ wire[e].queue[i] \in Msg /\ wire[e].queue[i].id \in CallId
           /\ MessageOf(wire[e].queue[i].id) /\ rpc[wire[e].queue[i].id].server # "posted"
<1>1. PICK m : m = wire[e].queue[i]
  OBVIOUS
<1>2. Fits(m, e)
  BY <1>1, MessagesParts DEF OnWire
<1> QED
  BY <1>1, <1>2, FitsStill

\* So does a message in a reader.
LEMMA ReaderMessage ==
    ASSUME Messages, NEW e \in Conn, Holds(e)
    PROVE  /\ Fits(conn[e].msg, e) /\ conn[e].msg \in Msg /\ conn[e].msg.id \in CallId
           /\ MessageOf(conn[e].msg.id) /\ rpc[conn[e].msg.id].server # "posted"
<1>1. PICK m : m = conn[e].msg
  OBVIOUS
<1>2. Fits(m, e)
  BY <1>1, MessagesParts DEF InReader
<1> QED
  BY <1>1, <1>2, FitsStill

\* No two messages of a call, wherever they are.
LEMMA OneParts ==
    ASSUME OneMessage
    PROVE  /\ \A e, f \in Conn : \A i \in 1..Len(wire[e].queue), j \in 1..Len(wire[f].queue) :
                wire[e].queue[i].id = wire[f].queue[j].id => e = f /\ i = j
           /\ \A e, f \in Conn : \A i \in 1..Len(wire[e].queue) :
                Holds(f) => wire[e].queue[i].id # conn[f].msg.id
           /\ \A e, f \in Conn : Holds(e) /\ Holds(f) /\ conn[e].msg.id = conn[f].msg.id => e = f
           /\ \A t \in Thread, e \in Conn : \A i \in 1..Len(wire[e].queue) :
                Boxed(t) => wire[e].queue[i].id # thread[t].wakeup_data.id
           /\ \A t \in Thread, e \in Conn :
                Boxed(t) /\ Holds(e) => conn[e].msg.id # thread[t].wakeup_data.id
           /\ \A t, u \in Thread :
                Boxed(t) /\ Boxed(u) /\ thread[u].wakeup_data.id = thread[t].wakeup_data.id => u = t
BY DEF OneMessage

-----------------------------------------------------------------------------
\* Messages stay where they are.
MessagesStay ==
    /\ WireStays /\ FramesWait
    /\ \A e \in Conn : ReaderStays(e)
    /\ \A t \in Thread : BoxStays(t)
    /\ \A k \in CallId : MessageOf(k) => CallWaits(k)

\* As many messages of each call are under way as there were.
LEMMA OneStays ==
    ASSUME OneMessage,
           \A e \in Conn : wire'[e].queue = wire[e].queue,
           \A e \in Conn : (Holds(e)' <=> Holds(e)) /\ (Holds(e) => conn'[e].msg = conn[e].msg),
           \A t \in Thread : (Boxed(t)' <=> Boxed(t)) /\ (Boxed(t) => thread'[t].wakeup_data = thread[t].wakeup_data)
    PROVE  OneMessage'
<1>1. \A e, f \in Conn : \A i \in 1..Len(wire'[e].queue), j \in 1..Len(wire'[f].queue) :
        wire'[e].queue[i].id = wire'[f].queue[j].id => e = f /\ i = j
  BY SMTT(30) DEF OneMessage
<1>2. \A e, f \in Conn : Holds(f)' => \A i \in 1..Len(wire'[e].queue) :
        wire'[e].queue[i].id # conn'[f].msg.id
  BY DEF OneMessage
<1>3. \A e, f \in Conn : Holds(e)' /\ Holds(f)' /\ conn'[e].msg.id = conn'[f].msg.id => e = f
  BY DEF OneMessage
<1>4. ASSUME NEW t \in Thread, Boxed(t)'
      PROVE  /\ \A e \in Conn : \A i \in 1..Len(wire'[e].queue) :
                  wire'[e].queue[i].id # thread'[t].wakeup_data.id
             /\ \A e \in Conn : Holds(e)' => conn'[e].msg.id # thread'[t].wakeup_data.id
             /\ \A u \in Thread : Boxed(u)' /\ thread'[u].wakeup_data.id = thread'[t].wakeup_data.id => u = t
  BY <1>4 DEF OneMessage
<1> QED
  BY <1>1, <1>2, <1>3, <1>4 DEF OneMessage

\* Messages stays, if the messages do.
LEMMA MessagesStayMessages == ASSUME Messages, MessagesStay PROVE Messages'
<1>1. OnWire'
  <2> SUFFICES ASSUME NEW e \in Conn, NEW i \in 1..Len(wire'[e].queue)
               PROVE  (Fits(wire[e].queue[i], e))'
    BY DEF OnWire
  <2> DEFINE m == wire[e].queue[i]
  <2>1. i \in 1..Len(wire[e].queue) /\ wire'[e].queue[i] = m
    BY DEF MessagesStay, WireStays
  <2>2. Fits(m, e)
    BY <2>1, MessagesParts DEF OnWire
  <2>3. CallWaits(m.id)
    BY <2>2, FitsStill DEF MessagesStay
  <2> HIDE DEF m
  <2>4. Fits(m, e) /\ CallWaits(m.id)
    BY <2>2, <2>3
  <2> QED
    BY <2>1, <2>2, <2>3, FitsStill DEF m
<1>2. InReader'
  <2> SUFFICES ASSUME NEW e \in Conn, Holds(e)'
               PROVE  /\ Fits(conn[e].msg, e)'
                      /\ conn'[e].reader \in {"acquire", "worker", "add", "count"} => conn'[e].msg.cmd = "CmdCall"
                      /\ conn'[e].reader = "find" => conn'[e].msg.cmd = "CmdReturn"
    BY DEF InReader
  <2>1. /\ Holds(e) /\ conn'[e].msg = conn[e].msg
        /\ conn'[e].reader \in {"acquire", "worker", "add", "count"} =>
             conn[e].reader \in {"acquire", "worker", "add", "count"}
        /\ conn'[e].reader = "find" => conn[e].reader = "find"
    BY DEF MessagesStay, ReaderStays
  <2>2. /\ Fits(conn[e].msg, e)
        /\ conn[e].reader \in {"acquire", "worker", "add", "count"} => conn[e].msg.cmd = "CmdCall"
        /\ conn[e].reader = "find" => conn[e].msg.cmd = "CmdReturn"
    BY <2>1, MessagesParts DEF InReader
  <2>3. CallWaits(conn[e].msg.id)
    BY <2>2, FitsStill DEF MessagesStay
  <2> QED
    BY <2>1, <2>2, <2>3, FitsStill
<1>3. InBox'
  <2> SUFFICES ASSUME NEW t \in Thread, Boxed(t)'
               PROVE  BoxRight(t)'
    BY DEF InBox, BoxRight
  <2>1. BoxStays(t) /\ Boxed(t)
    BY DEF MessagesStay, BoxStays, Boxed
  <2>2. CallWaits(thread[t].wakeup_data.id)
    BY <2>1, MessagesParts, BoxFacts DEF MessagesStay
  <2> QED
    BY <2>1, <2>2, BoxStill, MessagesParts DEF MessagesStay
<1>4. OneMessage'
  <2>1. \A e \in Conn : wire'[e].queue = wire[e].queue
    BY DEF MessagesStay, WireStays
  <2>2. \A e \in Conn : (Holds(e)' <=> Holds(e)) /\ (Holds(e) => conn'[e].msg = conn[e].msg)
    BY DEF MessagesStay, ReaderStays
  <2>3. \A t \in Thread : (Boxed(t)' <=> Boxed(t)) /\ (Boxed(t) => thread'[t].wakeup_data = thread[t].wakeup_data)
    BY DEF MessagesStay, BoxStays, Boxed
  <2> QED
    BY <2>1, <2>2, <2>3, MessagesParts, OneStays
<1> QED
  BY <1>1, <1>2, <1>3, <1>4 DEF Messages

-----------------------------------------------------------------------------
\* A message m of call id, of which none is under way, is sent to end e.
MessageSent(id, e, m) ==
    /\ ~MessageOf(id) /\ m.id = id /\ Fits(m, e)'
    /\ Len(wire[e].queue) \in Nat
    /\ Len(wire'[e].queue) = Len(wire[e].queue) + 1
    /\ wire'[e].queue[Len(wire[e].queue) + 1] = m
    /\ \A i \in 1..Len(wire[e].queue) : wire'[e].queue[i] = wire[e].queue[i]
    /\ \A f \in Conn \ {e} : wire'[f].queue = wire[f].queue
    /\ conn' = conn /\ FramesWait
    /\ \A t \in Thread : BoxStays(t)
    /\ \A k \in CallId \ {id} : CallWaits(k)

\* Messages stays when a message is sent.
LEMMA MessageSentMessages ==
    ASSUME Messages, NEW id \in CallId, NEW e \in Conn, NEW m, MessageSent(id, e, m)
    PROVE  Messages'
<1>1. \A f \in Conn : \A i \in 1..Len(wire'[f].queue) :
        \/ i \in 1..Len(wire[f].queue) /\ wire'[f].queue[i] = wire[f].queue[i]
        \/ f = e /\ i = Len(wire[e].queue) + 1 /\ wire'[f].queue[i] = m
  <2> SUFFICES ASSUME NEW f \in Conn, NEW i \in 1..Len(wire'[f].queue)
               PROVE  \/ i \in 1..Len(wire[f].queue) /\ wire'[f].queue[i] = wire[f].queue[i]
                      \/ f = e /\ i = Len(wire[e].queue) + 1 /\ wire'[f].queue[i] = m
    OBVIOUS
  <2>1. CASE f # e
    BY <2>1 DEF MessageSent
  <2>2. CASE f = e
    <3>1. PICK n \in Nat : n = Len(wire[e].queue) /\ Len(wire'[e].queue) = n + 1
      BY DEF MessageSent
    <3>2. i \in 1..n \/ i = n + 1
      BY <2>2, <3>1
    <3> QED
      BY <2>2, <3>1, <3>2 DEF MessageSent
  <2> QED
    BY <2>1, <2>2
<1>2. \A k \in CallId : MessageOf(k) => k # id /\ CallWaits(k)
  BY DEF MessageSent
<1>3. \A t \in Thread : (Boxed(t)' <=> Boxed(t)) /\ (Boxed(t) => thread'[t].wakeup_data = thread[t].wakeup_data)
  BY DEF MessageSent, BoxStays, Boxed
<1>4. \A f \in Conn : Holds(f)' <=> Holds(f)
  BY DEF MessageSent, Holds
<1>5. conn' = conn /\ m.id = id
  BY DEF MessageSent
<1>6. OnWire'
  <2> SUFFICES ASSUME NEW f \in Conn, NEW i \in 1..Len(wire'[f].queue)
               PROVE  Fits(wire[f].queue[i], f)'
    BY DEF OnWire
  <2>1. CASE i \in 1..Len(wire[f].queue) /\ wire'[f].queue[i] = wire[f].queue[i]
    <3>1. PICK x : x = wire[f].queue[i]
      OBVIOUS
    <3>2. Fits(x, f)'
      BY <1>2, <2>1, <3>1, WireMessage, FitsStill
    <3> QED
      BY <2>1, <3>1, <3>2
  <2>2. CASE f = e /\ wire'[f].queue[i] = m
    BY <2>2 DEF MessageSent
  <2> QED
    BY <1>1, <2>1, <2>2
<1>7. InReader'
  <2> SUFFICES ASSUME NEW f \in Conn, Holds(f)'
               PROVE  /\ Fits(conn[f].msg, f)'
                      /\ conn'[f].reader \in {"acquire", "worker", "add", "count"} => conn'[f].msg.cmd = "CmdCall"
                      /\ conn'[f].reader = "find" => conn'[f].msg.cmd = "CmdReturn"
    BY DEF InReader
  <2>1. Holds(f)
    BY <1>4
  <2>2. PICK x : x = conn[f].msg
    OBVIOUS
  <2>3. Fits(x, f)'
    BY <1>2, <2>1, <2>2, ReaderMessage, FitsStill
  <2> QED
    BY <1>5, <2>1, <2>2, <2>3, MessagesParts DEF InReader
<1>8. InBox'
  <2> SUFFICES ASSUME NEW t \in Thread, Boxed(t)' PROVE BoxRight(t)'
    BY DEF InBox, BoxRight
  <2>1. Boxed(t) /\ BoxStays(t) /\ FramesWait
    BY <1>3 DEF MessageSent
  <2>2. CallWaits(thread[t].wakeup_data.id)
    BY <1>2, <2>1, MessagesParts, BoxFacts
  <2> QED
    BY <2>1, <2>2, BoxStill, MessagesParts
<1>9. OneMessage'
  <2>1. \A f \in Conn : \A i \in 1..Len(wire[f].queue) : wire[f].queue[i].id # id
    BY <1>2, WireMessage
  <2>2. \A f \in Conn : Holds(f) => conn[f].msg.id # id
    BY <1>2, ReaderMessage
  <2>3. \A t \in Thread : Boxed(t) => thread[t].wakeup_data.id # id
    BY <1>2, MessagesParts, BoxFacts
  <2>4. ASSUME NEW f \in Conn, NEW g \in Conn, NEW i \in 1..Len(wire'[f].queue), NEW j \in 1..Len(wire'[g].queue),
               wire'[f].queue[i].id = wire'[g].queue[j].id
        PROVE  f = g /\ i = j
    <3>1. CASE i \in 1..Len(wire[f].queue) /\ wire'[f].queue[i] = wire[f].queue[i]
      <4>1. j \in 1..Len(wire[g].queue) /\ wire'[g].queue[j] = wire[g].queue[j]
        BY <1>1, <1>5, <2>1, <2>4, <3>1
      <4> QED
        BY <2>4, <3>1, <4>1, MessagesParts, OneParts
    <3>2. CASE f = e /\ i = Len(wire[e].queue) + 1 /\ wire'[f].queue[i] = m
      BY <1>1, <1>5, <2>1, <2>4, <3>2
    <3> QED
      BY <1>1, <3>1, <3>2
  <2>5. ASSUME NEW f \in Conn, NEW g \in Conn, Holds(g)', NEW i \in 1..Len(wire'[f].queue)
        PROVE  wire'[f].queue[i].id # conn'[g].msg.id
    <3>1. Holds(g) /\ conn'[g].msg = conn[g].msg
      BY <1>4, <1>5, <2>5
    <3> QED
      BY <1>1, <1>5, <2>2, <2>5, <3>1, MessagesParts, OneParts
  <2>6. \A f, g \in Conn : Holds(f)' /\ Holds(g)' /\ conn'[f].msg.id = conn'[g].msg.id => f = g
    BY <1>4, <1>5, MessagesParts DEF OneMessage
  <2>7. ASSUME NEW t \in Thread, Boxed(t)'
        PROVE  /\ \A f \in Conn : \A i \in 1..Len(wire'[f].queue) :
                    wire'[f].queue[i].id # thread'[t].wakeup_data.id
               /\ \A f \in Conn : Holds(f)' => conn'[f].msg.id # thread'[t].wakeup_data.id
               /\ \A u \in Thread : Boxed(u)' /\ thread'[u].wakeup_data.id = thread'[t].wakeup_data.id => u = t
    <3>1. Boxed(t) /\ thread'[t].wakeup_data = thread[t].wakeup_data
      BY <1>3, <2>7
    <3>2. \A f \in Conn : \A i \in 1..Len(wire'[f].queue) :
            wire'[f].queue[i].id # thread'[t].wakeup_data.id
      BY <1>1, <1>5, <2>3, <3>1, MessagesParts, OneParts
    <3>3. \A f \in Conn : Holds(f)' => conn'[f].msg.id # thread'[t].wakeup_data.id
      BY <1>4, <1>5, <3>1, MessagesParts, OneParts
    <3>4. \A u \in Thread : Boxed(u)' /\ thread'[u].wakeup_data.id = thread'[t].wakeup_data.id => u = t
      BY <1>3, <3>1, MessagesParts, OneParts
    <3> QED
      BY <3>2, <3>3, <3>4
  <2> QED
    BY <2>4, <2>5, <2>6, <2>7 DEF OneMessage
<1> QED
  BY <1>6, <1>7, <1>8, <1>9 DEF Messages

-----------------------------------------------------------------------------
\* The reader of e reads the first message on its way there.
MessageRead(e) ==
    /\ Len(wire[e].queue) \in Nat \ {0}
    /\ Len(wire'[e].queue) = Len(wire[e].queue) - 1
    /\ \A i \in 1..Len(wire[e].queue) - 1 : wire'[e].queue[i] = wire[e].queue[i + 1]
    /\ \A f \in Conn \ {e} : wire'[f].queue = wire[f].queue
    /\ ~Holds(e) /\ Holds(e)' /\ conn'[e].msg = wire[e].queue[1]
    /\ conn'[e].reader = IF conn'[e].msg.cmd = "CmdCall" THEN "acquire" ELSE "find"
    /\ \A f \in Conn \ {e} : conn'[f] = conn[f]
    /\ rpc' = rpc /\ thread' = thread

\* Messages stays when a reader takes a message off the wire.
LEMMA MessageReadMessages ==
    ASSUME Messages, NEW e \in Conn, MessageRead(e) PROVE Messages'
<1>1. \A f \in Conn : \A i \in 1..Len(wire'[f].queue) :
        \/ f # e /\ i \in 1..Len(wire[f].queue) /\ wire'[f].queue[i] = wire[f].queue[i]
        \/ f = e /\ i + 1 \in 1..Len(wire[f].queue) /\ wire'[f].queue[i] = wire[f].queue[i + 1]
  BY DEF MessageRead
<1>p. \A f \in Conn : \A i \in 1..Len(wire'[f].queue) :
        \E k \in 1..Len(wire[f].queue) : /\ wire'[f].queue[i] = wire[f].queue[k]
                                        /\ k = IF f = e THEN i + 1 ELSE i
  BY <1>1
<1>2. rpc' = rpc /\ thread' = thread
  BY DEF MessageRead
<1>3. \A f \in Conn : (Holds(f)' <=> f = e \/ Holds(f)) /\ (f # e => conn'[f] = conn[f])
  BY DEF MessageRead, Holds
<1>4. 1 \in 1..Len(wire[e].queue) /\ conn'[e].msg = wire[e].queue[1] /\ ~Holds(e)
  BY DEF MessageRead
<1>5. \A m, f : Fits(m, f) => (Fits(m, f))'
  <2> SUFFICES ASSUME NEW m, NEW f, Fits(m, f) PROVE Fits(m, f)'
    OBVIOUS
  <2> QED
    BY <1>2 DEF Fits, ServedAt
<1>6. OnWire'
  <2> SUFFICES ASSUME NEW f \in Conn, NEW i \in 1..Len(wire'[f].queue)
               PROVE  Fits(wire[f].queue[i], f)'
    BY DEF OnWire
  <2>1. PICK x : x = wire'[f].queue[i] /\ Fits(x, f)
    BY <1>1, WireMessage
  <2> QED
    BY <1>5, <2>1
<1>7. InReader'
  <2> SUFFICES ASSUME NEW f \in Conn, Holds(f)'
               PROVE  /\ Fits(conn[f].msg, f)'
                      /\ conn'[f].reader \in {"acquire", "worker", "add", "count"} => conn'[f].msg.cmd = "CmdCall"
                      /\ conn'[f].reader = "find" => conn'[f].msg.cmd = "CmdReturn"
    BY DEF InReader
  <2>1. CASE f = e
    <3>1. PICK x : x = conn'[e].msg /\ Fits(x, e) /\ x \in Msg
      BY <1>4, WireMessage
    <3>2. Fits(x, e)'
      BY <1>5, <3>1
    <3>3. x.cmd \in {"CmdCall", "CmdReturn"}
      BY <3>1 DEF Fits
    <3> QED
      BY <2>1, <3>1, <3>2, <3>3 DEF MessageRead
  <2>2. CASE f # e
    <3>1. PICK x : x = conn'[f].msg /\ x = conn[f].msg /\ Fits(x, f)
      BY <1>3, <2>2, ReaderMessage
    <3>2. Fits(x, f)'
      BY <1>5, <3>1
    <3> QED
      BY <1>3, <2>2, <3>1, <3>2, MessagesParts DEF InReader
  <2> QED
    BY <2>1, <2>2
<1>8. InBox'
  <2>1. \A t \in Thread : Frames(t)' = Frames(t) /\ (Boxed(t)' <=> Boxed(t)) /\ Process(t)' = Process(t)
    BY <1>2 DEF Frames, Boxed, Process
  <2> QED
    BY <1>2, <2>1, MessagesParts DEF InBox, ServedAt
<1>9. OneMessage'
  <2>1. \A t \in Thread : (Boxed(t)' <=> Boxed(t)) /\ thread'[t] = thread[t]
    BY <1>2 DEF Boxed
  <2>2. ASSUME NEW f \in Conn, NEW i \in 1..Len(wire'[f].queue)
        PROVE  wire'[f].queue[i].id # conn'[e].msg.id
    <3>1. CASE f # e /\ i \in 1..Len(wire[f].queue) /\ wire'[f].queue[i] = wire[f].queue[i]
      BY <1>4, <3>1, MessagesParts, OneParts
    <3>2. CASE f = e /\ i + 1 \in 1..Len(wire[f].queue) /\ wire'[f].queue[i] = wire[f].queue[i + 1]
      <4>1. i + 1 # 1
        <5>1. PICK n \in Nat : n = Len(wire[e].queue) /\ Len(wire'[e].queue) = n - 1
          BY DEF MessageRead
        <5>2. i \in 1..n - 1
          BY <3>2, <5>1
        <5> QED
          BY <5>2
      <4> QED
        BY <1>4, <3>2, <4>1, MessagesParts, OneParts
    <3> QED
      BY <1>1, <3>1, <3>2
  <2>3. \A f \in Conn : Holds(f) => conn[f].msg.id # conn'[e].msg.id
    BY <1>4, MessagesParts DEF OneMessage
  <2>4. \A t \in Thread : Boxed(t) => thread[t].wakeup_data.id # conn'[e].msg.id
    BY <1>4, MessagesParts DEF OneMessage
  <2>5. ASSUME NEW f \in Conn, NEW g \in Conn, NEW i \in 1..Len(wire'[f].queue), NEW j \in 1..Len(wire'[g].queue),
               wire'[f].queue[i].id = wire'[g].queue[j].id
        PROVE  f = g /\ i = j
    <3>1. PICK k \in 1..Len(wire[f].queue) : /\ wire'[f].queue[i] = wire[f].queue[k]
                                            /\ k = IF f = e THEN i + 1 ELSE i
      BY <1>p
    <3>2. PICK l \in 1..Len(wire[g].queue) : /\ wire'[g].queue[j] = wire[g].queue[l]
                                            /\ l = IF g = e THEN j + 1 ELSE j
      BY <1>p
    <3>3. f = g /\ k = l
      BY <2>5, <3>1, <3>2, MessagesParts, OneParts
    <3>4. i \in Int /\ j \in Int
      OBVIOUS
    <3> QED
      BY <3>1, <3>2, <3>3, <3>4
  <2>6. ASSUME NEW f \in Conn, NEW g \in Conn, Holds(g)', NEW i \in 1..Len(wire'[f].queue)
        PROVE  wire'[f].queue[i].id # conn'[g].msg.id
    <3>1. CASE g = e
      BY <2>2, <3>1
    <3>2. CASE g # e
      <4>1. Holds(g) /\ conn'[g].msg = conn[g].msg
        BY <1>3, <2>6, <3>2
      <4>2. PICK k \in 1..Len(wire[f].queue) : wire'[f].queue[i] = wire[f].queue[k]
        BY <1>p
      <4> QED
        BY <4>1, <4>2, MessagesParts, OneParts
    <3> QED
      BY <3>1, <3>2
  <2>7. \A f, g \in Conn : Holds(f)' /\ Holds(g)' /\ conn'[f].msg.id = conn'[g].msg.id => f = g
    BY <1>3, <2>3, MessagesParts DEF OneMessage
  <2>8. ASSUME NEW t \in Thread, Boxed(t)'
        PROVE  /\ \A f \in Conn : \A i \in 1..Len(wire'[f].queue) :
                    wire'[f].queue[i].id # thread'[t].wakeup_data.id
               /\ \A f \in Conn : Holds(f)' => conn'[f].msg.id # thread'[t].wakeup_data.id
               /\ \A u \in Thread : Boxed(u)' /\ thread'[u].wakeup_data.id = thread'[t].wakeup_data.id => u = t
    <3>1. Boxed(t) /\ thread'[t] = thread[t]
      BY <2>1, <2>8
    <3>2. \A f \in Conn : \A i \in 1..Len(wire'[f].queue) :
            wire'[f].queue[i].id # thread'[t].wakeup_data.id
      <4> SUFFICES ASSUME NEW f \in Conn, NEW i \in 1..Len(wire'[f].queue)
                   PROVE  wire'[f].queue[i].id # thread'[t].wakeup_data.id
        OBVIOUS
      <4>1. PICK k \in 1..Len(wire[f].queue) : wire'[f].queue[i] = wire[f].queue[k]
        BY <1>p
      <4> QED
        BY <3>1, <4>1, MessagesParts, OneParts
    <3>3. \A f \in Conn : Holds(f)' => conn'[f].msg.id # thread'[t].wakeup_data.id
      BY <1>3, <2>4, <3>1, MessagesParts, OneParts
    <3>4. \A u \in Thread : Boxed(u)' /\ thread'[u].wakeup_data.id = thread'[t].wakeup_data.id => u = t
      BY <2>1, <3>1, MessagesParts, OneParts
    <3> QED
      BY <3>2, <3>3, <3>4
  <2> QED
    BY <2>5, <2>6, <2>7, <2>8 DEF OneMessage
<1> QED
  BY <1>6, <1>7, <1>8, <1>9 DEF Messages

-----------------------------------------------------------------------------
\* The reader of e hands its message to thread t.
MessagePosted(e, t) ==
    LET m == conn[e].msg IN
    /\ Holds(e) /\ ~Holds(e)'
    /\ \A f \in Conn \ {e} : conn'[f] = conn[f]
    /\ WireStays /\ FramesWait
    /\ ~Boxed(t) /\ thread'[t].wakeup = 1 /\ thread'[t].wakeup_data = m
    /\ thread'[t].original_tid = m.tid
    /\ \A u \in Thread \ {t} : BoxStays(u)
    /\ m.cmd = "CmdCall" =>
         /\ thread'[t].wakeup_conn = e /\ Owner[e] = Process(t)
         /\ rpc'[m.id].client = rpc[m.id].client /\ rpc'[m.id].conn = rpc[m.id].conn
         /\ rpc'[m.id].server = "posted"
    /\ m.cmd = "CmdReturn" => <<"client_call", m.id>> \in Frames(t) /\ CallWaits(m.id)
    /\ \A k \in CallId \ {m.id} : CallWaits(k)

\* Messages stays when a reader gives its message to a thread.
LEMMA MessagePostedMessages ==
    ASSUME Messages, NEW e \in Conn, NEW t \in Thread, MessagePosted(e, t) PROVE Messages'
<1>1. PICK m : m = conn[e].msg
  OBVIOUS
<1>2. Holds(e) /\ ~Holds(e)' /\ (\A f \in Conn \ {e} : conn'[f] = conn[f]) /\ WireStays /\ FramesWait
  BY DEF MessagePosted
<1>3. Fits(m, e) /\ m \in Msg /\ m.id \in CallId
  BY <1>1, <1>2, ReaderMessage
<1>4. \A f \in Conn : Holds(f)' <=> f # e /\ Holds(f)
  BY <1>2 DEF Holds
<1>5. \A k \in CallId \ {m.id} : CallWaits(k)
  BY <1>1 DEF MessagePosted
<1>6. /\ ~Boxed(t) /\ thread'[t].wakeup_data = m
      /\ \A u \in Thread : u # t => BoxStays(u)
      /\ \A u \in Thread : u # t /\ Boxed(u)' => Boxed(u)
      /\ \A u \in Thread : u # t /\ Boxed(u) => thread'[u].wakeup_data = thread[u].wakeup_data
  <2>1. ~Boxed(t) /\ thread'[t].wakeup_data = m /\ \A u \in Thread : u # t => BoxStays(u)
    BY <1>1 DEF MessagePosted
  <2> QED
    BY <2>1 DEF BoxStays, Boxed
<1>7. \A f \in Conn : wire'[f].queue = wire[f].queue
  BY <1>2 DEF WireStays
<1>8. OnWire'
  <2> SUFFICES ASSUME NEW f \in Conn, NEW i \in 1..Len(wire'[f].queue)
               PROVE  Fits(wire[f].queue[i], f)'
    BY DEF OnWire
  <2>1. PICK x : x = wire[f].queue[i]
    OBVIOUS
  <2>2. i \in 1..Len(wire[f].queue) /\ wire'[f].queue[i] = x
    BY <1>7, <2>1
  <2>3. Fits(x, f) /\ x.id \in CallId
    BY <2>1, <2>2, WireMessage
  <2>4. x.id # m.id
    BY <1>1, <1>2, <2>1, <2>2, MessagesParts, OneParts
  <2>5. Fits(x, f)'
    BY <1>5, <2>3, <2>4, FitsStill
  <2> QED
    BY <2>2, <2>5
<1>9. InReader'
  <2> SUFFICES ASSUME NEW f \in Conn, Holds(f)'
               PROVE  /\ Fits(conn[f].msg, f)'
                      /\ conn'[f].reader \in {"acquire", "worker", "add", "count"} => conn'[f].msg.cmd = "CmdCall"
                      /\ conn'[f].reader = "find" => conn'[f].msg.cmd = "CmdReturn"
    BY DEF InReader
  <2>1. f # e /\ Holds(f) /\ conn'[f] = conn[f]
    BY <1>2, <1>4
  <2>2. PICK x : x = conn[f].msg
    OBVIOUS
  <2>3. Fits(x, f) /\ x.id \in CallId
    BY <2>1, <2>2, ReaderMessage
  <2>4. x.id # m.id
    BY <1>1, <1>2, <2>1, <2>2, MessagesParts, OneParts
  <2>5. Fits(x, f)'
    BY <1>5, <2>3, <2>4, FitsStill
  <2> QED
    BY <2>1, <2>2, <2>5, MessagesParts DEF InReader
<1>10. InBox'
  <2> SUFFICES ASSUME NEW u \in Thread, Boxed(u)' PROVE BoxRight(u)'
    BY DEF InBox, BoxRight
  <2>1. CASE u # t
    <3>1. Boxed(u) /\ BoxStays(u)
      BY <1>6, <2>1
    <3>2. thread[u].wakeup_data.id # m.id /\ thread[u].wakeup_data.id \in CallId
      BY <1>1, <1>2, <3>1, MessagesParts, OneParts, BoxFacts
    <3> QED
      BY <1>2, <1>5, <3>1, <3>2, MessagesParts, BoxStill
  <2>2. CASE u = t
    <3>1. /\ thread'[t].wakeup = 1 /\ thread'[t].wakeup_data = m /\ thread'[t].original_tid = m.tid
          /\ m.tid = Tid[m.id[1]]
      BY <1>1, <1>3 DEF MessagePosted, Fits
    <3>2. CASE m.cmd = "CmdCall"
      <4>1. /\ thread'[t].wakeup_conn = e /\ Owner[e] = Process(t)
            /\ rpc'[m.id].client = rpc[m.id].client /\ rpc'[m.id].conn = rpc[m.id].conn
            /\ rpc'[m.id].server = "posted"
        BY <1>1, <3>2 DEF MessagePosted
      <4>2. rpc[m.id].client = "wait" /\ e = Peer[rpc[m.id].conn]
        BY <1>3, <3>2 DEF Fits, ServedAt
      <4> QED
        BY <1>3, <2>2, <3>1, <3>2, <4>1, <4>2 DEF BoxRight, ServedAt, Process
    <3>3. CASE m.cmd = "CmdReturn"
      <4>1. <<"client_call", m.id>> \in Frames(t) /\ CallWaits(m.id)
        BY <1>1, <3>3 DEF MessagePosted
      <4>2. rpc[m.id].client = "wait" /\ rpc[m.id].server \in Through
        BY <1>3, <3>3 DEF Fits
      <4>3. rpc'[m.id].client = "wait" /\ rpc'[m.id].server \in Through
        BY <4>1, <4>2 DEF CallWaits
      <4>4. <<"client_call", m.id>> \in Frames(t)'
        BY <1>2, <1>3, <4>1, <4>2, <4>3 DEF FramesWait
      <4> QED
        BY <1>3, <2>2, <3>1, <3>3, <4>3, <4>4 DEF BoxRight
    <3> QED
      BY <1>3, <3>2, <3>3 DEF Fits
  <2> QED
    BY <2>1, <2>2
<1>11. OneMessage'
  <2>1. \A f \in Conn : \A i \in 1..Len(wire[f].queue) : wire[f].queue[i].id # m.id
    BY <1>1, <1>2, MessagesParts, OneParts
  <2>2. \A f \in Conn : Holds(f) /\ f # e => conn[f].msg.id # m.id
    BY <1>1, <1>2, MessagesParts, OneParts
  <2>3. \A u \in Thread : Boxed(u) => thread[u].wakeup_data.id # m.id
    BY <1>1, <1>2, MessagesParts, OneParts
  <2>4. \A f, g \in Conn : \A i \in 1..Len(wire'[f].queue), j \in 1..Len(wire'[g].queue) :
          wire'[f].queue[i].id = wire'[g].queue[j].id => f = g /\ i = j
    <3> SUFFICES ASSUME NEW f \in Conn, NEW g \in Conn,
                        NEW i \in 1..Len(wire'[f].queue), NEW j \in 1..Len(wire'[g].queue),
                        wire'[f].queue[i].id = wire'[g].queue[j].id
                 PROVE  f = g /\ i = j
      OBVIOUS
    <3>1. wire'[f].queue = wire[f].queue /\ wire'[g].queue = wire[g].queue
      BY <1>7
    <3> QED
      BY <3>1, MessagesParts, OneParts
  <2>5. ASSUME NEW f \in Conn, NEW g \in Conn, Holds(g)', NEW i \in 1..Len(wire'[f].queue)
        PROVE  wire'[f].queue[i].id # conn'[g].msg.id
    <3>1. Holds(g) /\ conn'[g] = conn[g]
      BY <1>2, <1>4, <2>5
    <3> QED
      BY <1>7, <3>1, MessagesParts, OneParts
  <2>6. \A f, g \in Conn : Holds(f)' /\ Holds(g)' /\ conn'[f].msg.id = conn'[g].msg.id => f = g
    BY <1>2, <1>4, MessagesParts, OneParts
  <2>7. ASSUME NEW u \in Thread, Boxed(u)'
        PROVE  /\ \A f \in Conn : \A i \in 1..Len(wire'[f].queue) :
                    wire'[f].queue[i].id # thread'[u].wakeup_data.id
               /\ \A f \in Conn : Holds(f)' => conn'[f].msg.id # thread'[u].wakeup_data.id
               /\ \A v \in Thread : Boxed(v)' /\ thread'[v].wakeup_data.id = thread'[u].wakeup_data.id => v = u
    <3>1. \/ u = t /\ thread'[u].wakeup_data = m
          \/ u # t /\ Boxed(u) /\ thread'[u].wakeup_data = thread[u].wakeup_data
      BY <1>6, <2>7
    <3>2. \A f \in Conn : \A i \in 1..Len(wire'[f].queue) :
            wire'[f].queue[i].id # thread'[u].wakeup_data.id
      BY <1>7, <2>1, <3>1, MessagesParts, OneParts
    <3>3. \A f \in Conn : Holds(f)' => conn'[f].msg.id # thread'[u].wakeup_data.id
      BY <1>2, <1>4, <2>2, <3>1, MessagesParts, OneParts
    <3>4. \A v \in Thread : Boxed(v)' /\ thread'[v].wakeup_data.id = thread'[u].wakeup_data.id => v = u
      BY <1>6, <2>3, <3>1, MessagesParts, OneParts
    <3> QED
      BY <3>2, <3>3, <3>4
  <2> QED
    BY <2>4, <2>5, <2>6, <2>7 DEF OneMessage
<1> QED
  BY <1>8, <1>9, <1>10, <1>11 DEF Messages

-----------------------------------------------------------------------------
\* Thread t takes the message in its box.
MessageTaken(t) ==
    LET id == thread[t].wakeup_data.id IN
    /\ Boxed(t) /\ ~Boxed(t)'
    /\ WireStays /\ FramesWait
    /\ \A e \in Conn : ReaderStays(e)
    /\ \A u \in Thread \ {t} : BoxStays(u)
    /\ \A k \in CallId \ {id} : CallWaits(k)

\* Messages stays when a thread takes its message.
LEMMA MessageTakenMessages ==
    ASSUME Messages, NEW t \in Thread, MessageTaken(t) PROVE Messages'
<1>1. PICK id : id = thread[t].wakeup_data.id
  OBVIOUS
<1>2. Boxed(t) /\ ~Boxed(t)' /\ WireStays /\ FramesWait
  BY DEF MessageTaken
<1>3. \A f \in Conn : ReaderStays(f) /\ (Holds(f)' <=> Holds(f)) /\ (Holds(f) => conn'[f].msg = conn[f].msg)
  BY DEF MessageTaken, ReaderStays
<1>4. \A k \in CallId \ {id} : CallWaits(k)
  BY <1>1 DEF MessageTaken
<1>5. /\ \A u \in Thread : u # t => BoxStays(u)
      /\ \A u \in Thread : Boxed(u)' => u # t /\ Boxed(u)
      /\ \A u \in Thread : u # t /\ Boxed(u) => thread'[u].wakeup_data = thread[u].wakeup_data
  <2>1. \A u \in Thread : u # t => BoxStays(u)
    BY DEF MessageTaken
  <2> QED
    BY <1>2, <2>1 DEF BoxStays, Boxed
<1>6. \A f \in Conn : wire'[f].queue = wire[f].queue
  BY <1>2 DEF WireStays
<1>7. OnWire'
  <2> SUFFICES ASSUME NEW f \in Conn, NEW i \in 1..Len(wire'[f].queue)
               PROVE  Fits(wire[f].queue[i], f)'
    BY DEF OnWire
  <2>1. PICK x : x = wire[f].queue[i]
    OBVIOUS
  <2>2. i \in 1..Len(wire[f].queue) /\ wire'[f].queue[i] = x
    BY <1>6, <2>1
  <2>3. Fits(x, f) /\ x.id \in CallId
    BY <2>1, <2>2, WireMessage
  <2>4. x.id # id
    BY <1>1, <1>2, <2>1, <2>2, MessagesParts, OneParts
  <2>5. Fits(x, f)'
    BY <1>4, <2>3, <2>4, FitsStill
  <2> QED
    BY <2>2, <2>5
<1>8. InReader'
  <2> SUFFICES ASSUME NEW f \in Conn, Holds(f)'
               PROVE  /\ Fits(conn[f].msg, f)'
                      /\ conn'[f].reader \in {"acquire", "worker", "add", "count"} => conn'[f].msg.cmd = "CmdCall"
                      /\ conn'[f].reader = "find" => conn'[f].msg.cmd = "CmdReturn"
    BY DEF InReader
  <2>1. Holds(f) /\ conn'[f].msg = conn[f].msg
    BY <1>3
  <2>2. PICK x : x = conn[f].msg
    OBVIOUS
  <2>3. Fits(x, f) /\ x.id \in CallId
    BY <2>1, <2>2, ReaderMessage
  <2>4. x.id # id
    BY <1>1, <1>2, <2>1, <2>2, MessagesParts, OneParts
  <2>5. Fits(x, f)'
    BY <1>4, <2>3, <2>4, FitsStill
  <2> QED
    BY <1>3, <2>1, <2>2, <2>5, MessagesParts DEF InReader, ReaderStays
<1>9. InBox'
  <2> SUFFICES ASSUME NEW u \in Thread, Boxed(u)' PROVE BoxRight(u)'
    BY DEF InBox, BoxRight
  <2>1. Boxed(u) /\ BoxStays(u) /\ u # t
    BY <1>5
  <2>2. thread[u].wakeup_data.id # id /\ thread[u].wakeup_data.id \in CallId
    BY <1>1, <1>2, <2>1, MessagesParts, OneParts, BoxFacts
  <2> QED
    BY <1>2, <1>4, <2>1, <2>2, MessagesParts, BoxStill
<1>10. OneMessage'
  <2>4. \A f, g \in Conn : \A i \in 1..Len(wire'[f].queue), j \in 1..Len(wire'[g].queue) :
          wire'[f].queue[i].id = wire'[g].queue[j].id => f = g /\ i = j
    <3> SUFFICES ASSUME NEW f \in Conn, NEW g \in Conn,
                        NEW i \in 1..Len(wire'[f].queue), NEW j \in 1..Len(wire'[g].queue),
                        wire'[f].queue[i].id = wire'[g].queue[j].id
                 PROVE  f = g /\ i = j
      OBVIOUS
    <3>1. wire'[f].queue = wire[f].queue /\ wire'[g].queue = wire[g].queue
      BY <1>6
    <3> QED
      BY <3>1, MessagesParts, OneParts
  <2>5. ASSUME NEW f \in Conn, NEW g \in Conn, Holds(g)', NEW i \in 1..Len(wire'[f].queue)
        PROVE  wire'[f].queue[i].id # conn'[g].msg.id
    BY <1>3, <1>6, <2>5, MessagesParts, OneParts
  <2>6. \A f, g \in Conn : Holds(f)' /\ Holds(g)' /\ conn'[f].msg.id = conn'[g].msg.id => f = g
    BY <1>3, MessagesParts, OneParts
  <2>7. ASSUME NEW u \in Thread, Boxed(u)'
        PROVE  /\ \A f \in Conn : \A i \in 1..Len(wire'[f].queue) :
                    wire'[f].queue[i].id # thread'[u].wakeup_data.id
               /\ \A f \in Conn : Holds(f)' => conn'[f].msg.id # thread'[u].wakeup_data.id
               /\ \A v \in Thread : Boxed(v)' /\ thread'[v].wakeup_data.id = thread'[u].wakeup_data.id => v = u
    <3>1. Boxed(u) /\ thread'[u].wakeup_data = thread[u].wakeup_data
      BY <1>5, <2>7
    <3>2. \A f \in Conn : \A i \in 1..Len(wire'[f].queue) :
            wire'[f].queue[i].id # thread'[u].wakeup_data.id
      BY <1>6, <3>1, MessagesParts, OneParts
    <3>3. \A f \in Conn : Holds(f)' => conn'[f].msg.id # thread'[u].wakeup_data.id
      BY <1>3, <3>1, MessagesParts, OneParts
    <3>4. \A v \in Thread : Boxed(v)' /\ thread'[v].wakeup_data.id = thread'[u].wakeup_data.id => v = u
      BY <1>5, <3>1, MessagesParts, OneParts
    <3> QED
      BY <3>2, <3>3, <3>4
  <2> QED
    BY <2>4, <2>5, <2>6, <2>7 DEF OneMessage
<1> QED
  BY <1>7, <1>8, <1>9, <1>10 DEF Messages

-----------------------------------------------------------------------------
(* The registry of each process.                                           *)

Registry == Targets /\ WaitingRight /\ FreeRight /\ WorkersKept /\ Counted /\ JustCalled

\* The parts of the invariant, by name.
LEMMA IInvParts ==
    IInv =>
    /\ TypeOK /\ Calm /\ StacksRight /\ Messages /\ Registry /\ ConnsCounted
    /\ StacksTyped /\ FramesTyped
    /\ OnWire /\ InReader /\ InBox /\ OneMessage
    /\ Targets /\ WaitingRight /\ FreeRight /\ WorkersKept /\ Counted /\ JustCalled
    /\ EndsAgree /\ CallsNest /\ FramesApart /\ FramesPlaced /\ CallsFramed
    /\ InnerFramesWait /\ FramesNest /\ LaterAbove /\ Covered /\ FramesOwned
    /\ UsedRight
<1> SUFFICES ASSUME IInv
             PROVE  /\ TypeOK /\ Calm /\ StacksRight /\ Messages /\ Registry /\ ConnsCounted
                    /\ StacksTyped /\ FramesTyped
                    /\ OnWire /\ InReader /\ InBox /\ OneMessage
                    /\ Targets /\ WaitingRight /\ FreeRight /\ WorkersKept /\ Counted /\ JustCalled
                    /\ EndsAgree /\ CallsNest /\ FramesApart /\ FramesPlaced /\ CallsFramed
                    /\ InnerFramesWait /\ FramesNest /\ LaterAbove /\ Covered /\ FramesOwned
                    /\ UsedRight
  OBVIOUS
<1>1. /\ TypeOK /\ Calm /\ StacksRight /\ Messages /\ Registry /\ ConnsCounted
      /\ OnWire /\ InReader /\ InBox /\ OneMessage
      /\ Targets /\ WaitingRight /\ FreeRight /\ WorkersKept /\ Counted /\ JustCalled
  BY DEF IInv, Messages, Registry
<1> QED
  BY <1>1, StackTypes, FrameTypes, StacksParts

-----------------------------------------------------------------------------
(* What keeps a thread registered, one by one.                             *)

MakesIt(t, k) == <<"client_call", k>> \in Frames(t) /\ rpc[k].client # "acquire"
ServesIt(t, k) == <<"handleCall", k>> \in Frames(t) /\ rpc[k].server \in {"running", "release"}
HasIt(t, k) == rpc[k].server = "posted" /\ thread[t].wakeup > 0 /\ thread[t].wakeup_data.id = k
GetsIt(t, e) ==
    /\ conn[e].thr = t
    /\ conn[e].reader \in {"data", "post"}
    /\ conn[e].msg.cmd = "CmdCall"
AddsIt(t, k) == <<"client_call", k>> \in Frames(t) /\ rpc[k].client \in {"add", "count"}
AddsWorker(t, e) == conn[e].thr = t /\ conn[e].reader \in {"add", "count"}

RegistrationsAre == \A t \in Thread :
    /\ \A k \in CallId :
         /\ <<"client_call", k>> \in Registrations(t) <=> MakesIt(t, k)
         /\ <<"handleCall", k>> \in Registrations(t) <=> ServesIt(t, k)
         /\ <<"posted", k>> \in Registrations(t) <=> HasIt(t, k)
    /\ \A e \in Conn : <<"reader", e>> \in Registrations(t) <=> GetsIt(t, e)
    /\ \A x \in Registrations(t) :
         \/ \E k \in CallId : x = <<"client_call", k>> \/ x = <<"handleCall", k>> \/ x = <<"posted", k>>
         \/ \E e \in Conn : x = <<"reader", e>>
    /\ JustAdded(t) <=> (\E k \in CallId : AddsIt(t, k)) \/ (\E e \in Conn : AddsWorker(t, e))

\* Registrations(t) and JustAdded(t) are what these say.
LEMMA RegistrationFacts == TypeOK => RegistrationsAre
<1> SUFFICES ASSUME TypeOK, NEW t \in Thread
             PROVE  /\ \A k \in CallId :
                         /\ <<"client_call", k>> \in Registrations(t) <=> MakesIt(t, k)
                         /\ <<"handleCall", k>> \in Registrations(t) <=> ServesIt(t, k)
                         /\ <<"posted", k>> \in Registrations(t) <=> HasIt(t, k)
                    /\ \A e \in Conn : <<"reader", e>> \in Registrations(t) <=> GetsIt(t, e)
                    /\ \A x \in Registrations(t) :
                         \/ \E k \in CallId : x = <<"client_call", k>> \/ x = <<"handleCall", k>> \/ x = <<"posted", k>>
                         \/ \E e \in Conn : x = <<"reader", e>>
                    /\ JustAdded(t) <=> (\E k \in CallId : AddsIt(t, k)) \/ (\E e \in Conn : AddsWorker(t, e))
  BY DEF RegistrationsAre
<1>1. \A f \in Frames(t) : f[2] \in CallId /\ f[1] \in {"client_call", "handleCall"} /\ f = <<f[1], f[2]>>
  <2>1. PICK s \in Seq(Frame) : s = thread[t].stack
    BY DEF TypeOK, ThreadRec
  <2>2. \A i \in DOMAIN s : s[i] \in Frame
    BY <2>1
  <2> QED
    BY <2>1, <2>2 DEF Frames, Frame
<1>2. \A k \in CallId : <<"client_call", k>> \in Registrations(t) <=> MakesIt(t, k)
  BY DEF Registrations, MakesIt
<1>3. \A k \in CallId : <<"handleCall", k>> \in Registrations(t) <=> ServesIt(t, k)
  BY DEF Registrations, ServesIt
<1>4. \A k \in CallId : <<"posted", k>> \in Registrations(t) <=> HasIt(t, k)
  BY <1>1 DEF Registrations, HasIt
<1>5. \A e \in Conn : <<"reader", e>> \in Registrations(t) <=> GetsIt(t, e)
  BY <1>1 DEF Registrations, GetsIt
<1>6. \A x \in Registrations(t) :
         \/ \E k \in CallId : x = <<"client_call", k>> \/ x = <<"handleCall", k>> \/ x = <<"posted", k>>
         \/ \E e \in Conn : x = <<"reader", e>>
  BY <1>1 DEF Registrations
<1>7. JustAdded(t) <=> (\E k \in CallId : AddsIt(t, k)) \/ (\E e \in Conn : AddsWorker(t, e))
  BY <1>1 DEF JustAdded, AddsIt, AddsWorker
<1> QED
  BY <1>2, <1>3, <1>4, <1>5, <1>6, <1>7

\* So they are after a step.
LEMMA RegistrationFactsNext == TypeOK' => RegistrationsAre'
BY RegistrationFacts, PTL

\* Stacks are lists of frames after a step, too.
LEMMA StackTypesNext == TypeOK' => StacksTyped' /\ FramesTyped'
<1>1. TypeOK => StacksTyped /\ FramesTyped
  BY StackTypes, FrameTypes
<1> QED
  BY <1>1, PTL

-----------------------------------------------------------------------------
(* Who waits.                                                              *)

\* The list of a process, as a set and as a list.
ListsAre == \A p \in Proc :
    /\ Len(waiting_threads[p]) \in Nat /\ Len(free_workers[p]) \in Nat
    /\ \A i \in 1..Len(waiting_threads[p]) : waiting_threads[p][i] \in Waiting(p)
    /\ \A t \in Waiting(p) : t \in Thread /\ \E i \in 1..Len(waiting_threads[p]) : waiting_threads[p][i] = t
    /\ \A i \in 1..Len(free_workers[p]) : free_workers[p][i] \in Frees(p)
    /\ \A t \in Frees(p) : t \in Worker /\ \E i \in 1..Len(free_workers[p]) : free_workers[p][i] = t

\* Waiting(p) and Frees(p) are the elements of the lists.
LEMMA ListFacts == TypeOK => ListsAre
<1> SUFFICES ASSUME TypeOK, NEW p \in Proc
             PROVE  /\ Len(waiting_threads[p]) \in Nat /\ Len(free_workers[p]) \in Nat
                    /\ \A i \in 1..Len(waiting_threads[p]) : waiting_threads[p][i] \in Waiting(p)
                    /\ \A t \in Waiting(p) : t \in Thread /\ \E i \in 1..Len(waiting_threads[p]) : waiting_threads[p][i] = t
                    /\ \A i \in 1..Len(free_workers[p]) : free_workers[p][i] \in Frees(p)
                    /\ \A t \in Frees(p) : t \in Worker /\ \E i \in 1..Len(free_workers[p]) : free_workers[p][i] = t
  BY DEF ListsAre
<1>1. PICK s \in Seq(Thread) : s = waiting_threads[p]
  BY DEF TypeOK
<1>2. PICK r \in Seq(Worker) : r = free_workers[p]
  BY DEF TypeOK
<1>3. /\ DOMAIN s = 1..Len(s) /\ Len(s) \in Nat /\ \A i \in 1..Len(s) : s[i] \in Thread
      /\ DOMAIN r = 1..Len(r) /\ Len(r) \in Nat /\ \A i \in 1..Len(r) : r[i] \in Worker
  OBVIOUS
<1> QED
  BY <1>1, <1>2, <1>3 DEF Waiting, Frees

\* So they are after a step.
LEMMA ListFactsNext == TypeOK' => ListsAre'
BY ListFacts, PTL

\* A thread id names one thread of the list, which has it once.
Listed(p) ==
    /\ \A i, j \in 1..Len(waiting_threads[p]) : waiting_threads[p][i] = waiting_threads[p][j] => i = j
    /\ \A t, u \in Waiting(p) : thread[t].original_tid = thread[u].original_tid => t = u

\* UniqueTid, said of threads and not of places.
LEMMA UniqueTidIs == TypeOK => (UniqueTid <=> \A p \in Proc : Listed(p))
<1> SUFFICES ASSUME TypeOK, NEW p \in Proc
             PROVE  (\A i, j \in DOMAIN waiting_threads[p] :
                       i # j => thread[waiting_threads[p][i]].original_tid
                                  # thread[waiting_threads[p][j]].original_tid) <=> Listed(p)
  BY DEF UniqueTid
<1>1. PICK s \in Seq(Thread) : s = waiting_threads[p]
  BY DEF TypeOK
<1>2. DOMAIN s = 1..Len(s)
  OBVIOUS
<1>3. Waiting(p) = {s[i] : i \in 1..Len(s)}
  BY <1>1, <1>2 DEF Waiting
<1> QED
  BY <1>1, <1>2, <1>3 DEF Listed

\* So it is after a step.
LEMMA UniqueTidIsNext == TypeOK' => (UniqueTid' <=> \A p \in Proc : Listed(p)')
<1> DEFINE AllListed == \A p \in Proc : Listed(p)
<1>1. TypeOK => (UniqueTid <=> AllListed)
  BY UniqueTidIs
<1> HIDE DEF AllListed
<1>2. TypeOK' => (UniqueTid' <=> AllListed')
  BY <1>1, PTL
<1> QED
  BY <1>2 DEF AllListed

\* Who waits under a thread id is who is found.
LEMMA Found ==
    IInv => \A p \in Proc : \A t \in Waiting(p) : \A tid :
              thread[t].original_tid = tid => findWaitingThread(p, tid) = t /\ t \in Thread
<1> SUFFICES ASSUME IInv, NEW p \in Proc, NEW t \in Waiting(p), NEW tid, thread[t].original_tid = tid
             PROVE  findWaitingThread(p, tid) = t /\ t \in Thread
  OBVIOUS
<1>1. TypeOK /\ Listed(p) /\ t \in Thread
  BY IInvParts, UniqueTidIs, ListFacts DEF WaitingRight, ListsAre
<1>2. PICK w : w = findWaitingThread(p, tid)
  OBVIOUS
<1>3. w \in Waiting(p) /\ thread[w].original_tid = tid
  BY <1>1, <1>2, FindFacts
<1> QED
  BY <1>1, <1>2, <1>3 DEF Listed

-----------------------------------------------------------------------------
(* What each part of the invariant says of one thread, or of one end.      *)

TargetRight(e) ==
    LET t == conn[e].thr IN
    /\ ~Aims(e) => t = None
    /\ Aims(e) =>
         /\ t \in Created /\ Process(t) = Owner[e]
         /\ thread[t].wakeup = 0
         /\ \A f \in Conn : conn[f].thr = t => e = f
    /\ conn[e].reader \in {"worker", "add"} => NobodyWaits(Owner[e], conn[e].msg.tid)
    /\ conn[e].reader \in {"add", "count"} => t \in Worker /\ Registrations(t) = {}
    /\ conn[e].reader = "add" => t \notin Waiting(Owner[e])
    /\ conn[e].reader = "count" => t \in Waiting(Owner[e])
    /\ conn[e].reader \in {"count", "data", "post"} => thread[t].original_tid = conn[e].msg.tid
    /\ conn[e].reader \in {"data", "post"} /\ conn[e].msg.cmd = "CmdReturn" =>
         <<"client_call", conn[e].msg.id>> \in Frames(t)
    /\ conn[e].reader = "post" =>
         /\ thread[t].wakeup_data = conn[e].msg
         /\ conn[e].msg.cmd = "CmdCall" => thread[t].wakeup_conn = e

ThreadCounted(t) ==
    /\ IsFiniteSet(Registrations(t))
    /\ ~JustAdded(t) =>
         /\ thread[t].recursion_count = Cardinality(Registrations(t))
         /\ t \in Waiting(Process(t)) <=> Registrations(t) # {}

CalledRight(t) == \A k \in CallId : AddsIt(t, k) =>
    /\ Registrations(t) = {<<"client_call", k>>}
    /\ rpc[k].client = "add" => NobodyWaits(Process(t), Tid[k[1]])
    /\ rpc[k].client = "count" => t \in Waiting(Process(t))

\* Targets, said end by end.
LEMMA TargetsAre == Targets <=> \A e \in Conn : TargetRight(e)
BY DEF Targets, TargetRight

\* Counted, said thread by thread.
LEMMA CountedAre == Counted <=> \A t \in Thread : ThreadCounted(t)
BY DEF Counted, ThreadCounted

\* JustCalled, said thread by thread.
LEMMA JustCalledAre == TypeOK => (JustCalled <=> \A t \in Thread : CalledRight(t))
<1> SUFFICES ASSUME TypeOK, NEW t \in Thread
             PROVE  (\A f \in Frames(t) :
                      f[1] = "client_call" /\ rpc[f[2]].client \in {"add", "count"} =>
                         /\ Registrations(t) = {f}
                         /\ rpc[f[2]].client = "add" => NobodyWaits(Process(t), Tid[f[2][1]])
                         /\ rpc[f[2]].client = "count" => t \in Waiting(Process(t)))
                    <=> CalledRight(t)
  BY DEF JustCalled
<1>1. \A f \in Frames(t) : f[2] \in CallId /\ f = <<f[1], f[2]>>
  <2>1. PICK s \in Seq(Frame) : s = thread[t].stack
    BY DEF TypeOK, ThreadRec
  <2>2. \A i \in DOMAIN s : s[i] \in Frame
    BY <2>1
  <2> QED
    BY <2>1, <2>2 DEF Frames, Frame
<1> QED
  BY <1>1 DEF CalledRight, AddsIt

\* So it is after a step.
LEMMA JustCalledAreNext == TypeOK' => (JustCalled' <=> \A t \in Thread : CalledRight(t)')
<1> DEFINE All == \A t \in Thread : CalledRight(t)
<1>1. TypeOK => (JustCalled <=> All)
  BY JustCalledAre
<1> HIDE DEF All
<1>2. TypeOK' => (JustCalled' <=> All')
  BY <1>1, PTL
<1> QED
  BY <1>2 DEF All

-----------------------------------------------------------------------------
(* Of each client one call at most is pending: about to be sent, under     *)
(* way, answered, or about to return.                                      *)

Pending(k) == IsOpen(k) /\ ~(rpc[k].client = "wait" /\ rpc[k].server = "running")

\* Two pending calls under one thread id are one call.
LEMMA OnePending ==
    IInv /\ TidsDiffer => \A k, l \in CallId : Pending(k) /\ Pending(l) /\ Tid[k[1]] = Tid[l[1]] => k = l
<1> SUFFICES ASSUME IInv, TidsDiffer, NEW k \in CallId, NEW l \in CallId,
                    Pending(k), Pending(l), Tid[k[1]] = Tid[l[1]], k # l
             PROVE  FALSE
  OBVIOUS
<1>1. k[1] = l[1]
  BY Clients DEF TidsDiffer
<1>2. Before(k, l) \/ Before(l, k)
  BY <1>1, CallOrder
<1> QED
  BY <1>2, IInvParts DEF CallsNest, Pending

\* The message in a reader is of a pending call.
LEMMA ReaderPending ==
    IInv => \A e \in Conn : Holds(e) =>
              /\ conn[e].msg \in Msg /\ conn[e].msg.id \in CallId /\ Pending(conn[e].msg.id)
              /\ conn[e].msg.tid = Tid[conn[e].msg.id[1]] /\ conn[e].msg.tid \in TidValue
              /\ rpc[conn[e].msg.id].client = "wait"
              /\ conn[e].msg.cmd = "CmdCall" => rpc[conn[e].msg.id].server = "none" /\ e = ServedAt(conn[e].msg.id)
              /\ conn[e].msg.cmd # "CmdCall" => /\ conn[e].msg.cmd = "CmdReturn"
                                                /\ rpc[conn[e].msg.id].server \in Through
                                                /\ e = rpc[conn[e].msg.id].conn
<1> SUFFICES ASSUME IInv, NEW e \in Conn, Holds(e)
             PROVE  /\ conn[e].msg \in Msg /\ conn[e].msg.id \in CallId /\ Pending(conn[e].msg.id)
                    /\ conn[e].msg.tid = Tid[conn[e].msg.id[1]] /\ conn[e].msg.tid \in TidValue
                    /\ rpc[conn[e].msg.id].client = "wait"
                    /\ conn[e].msg.cmd = "CmdCall" => rpc[conn[e].msg.id].server = "none" /\ e = ServedAt(conn[e].msg.id)
                    /\ conn[e].msg.cmd # "CmdCall" => /\ conn[e].msg.cmd = "CmdReturn"
                                                      /\ rpc[conn[e].msg.id].server \in Through
                                                      /\ e = rpc[conn[e].msg.id].conn
  OBVIOUS
<1>1. PICK m : m = conn[e].msg
  OBVIOUS
<1>2. Fits(m, e)
  BY <1>1, IInvParts, ReaderMessage
<1>3. m \in Msg /\ m.id \in CallId /\ m.tid \in TidValue
  BY <1>2 DEF Fits, Msg
<1>4. Pending(m.id)
  BY <1>2 DEF Fits, Pending, IsOpen, Through
<1> QED
  BY <1>1, <1>2, <1>3, <1>4 DEF Fits

\* The message a thread has been given is of a pending call.
LEMMA BoxPending ==
    IInv => \A t \in Thread : Boxed(t) =>
              /\ thread[t].wakeup = 1
              /\ thread[t].wakeup_data \in Msg /\ thread[t].wakeup_data.id \in CallId
              /\ Pending(thread[t].wakeup_data.id)
              /\ rpc[thread[t].wakeup_data.id].client = "wait"
              /\ thread[t].wakeup_data.tid = Tid[thread[t].wakeup_data.id[1]]
              /\ thread[t].original_tid = thread[t].wakeup_data.tid
<1> SUFFICES ASSUME IInv, NEW t \in Thread, Boxed(t)
             PROVE  /\ thread[t].wakeup = 1
                    /\ thread[t].wakeup_data \in Msg /\ thread[t].wakeup_data.id \in CallId
                    /\ Pending(thread[t].wakeup_data.id)
                    /\ rpc[thread[t].wakeup_data.id].client = "wait"
                    /\ thread[t].wakeup_data.tid = Tid[thread[t].wakeup_data.id[1]]
                    /\ thread[t].original_tid = thread[t].wakeup_data.tid
  OBVIOUS
<1>1. InBox
  BY IInvParts
<1>2. Pending(thread[t].wakeup_data.id)
  BY <1>1, BoxFacts DEF Pending, IsOpen, MessageOf
<1> QED
  BY <1>1, <1>2, BoxFacts

\* No two readers have messages under one thread id, nor a reader and a box.
LEMMA OneHolds ==
    IInv /\ TidsDiffer =>
      /\ \A e, f \in Conn : Holds(e) /\ Holds(f) /\ conn[e].msg.tid = conn[f].msg.tid => e = f
      /\ \A e \in Conn, t \in Thread : Holds(e) /\ thread[t].original_tid = conn[e].msg.tid => ~Boxed(t)
<1> SUFFICES ASSUME IInv, TidsDiffer
             PROVE  /\ \A e, f \in Conn : Holds(e) /\ Holds(f) /\ conn[e].msg.tid = conn[f].msg.tid => e = f
                    /\ \A e \in Conn, t \in Thread : Holds(e) /\ thread[t].original_tid = conn[e].msg.tid => ~Boxed(t)
  OBVIOUS
<1>1. OneMessage
  BY IInvParts
<1>2. ASSUME NEW e \in Conn, NEW f \in Conn, Holds(e), Holds(f), conn[e].msg.tid = conn[f].msg.tid
      PROVE  e = f
  <2>1. conn[e].msg.id = conn[f].msg.id
    BY <1>2, ReaderPending, OnePending
  <2> QED
    BY <1>1, <1>2, <2>1, OneParts
<1>3. ASSUME NEW e \in Conn, NEW t \in Thread, Holds(e), thread[t].original_tid = conn[e].msg.tid, Boxed(t)
      PROVE  FALSE
  <2>1. conn[e].msg.id = thread[t].wakeup_data.id
    BY <1>3, ReaderPending, BoxPending, OnePending
  <2> QED
    BY <1>1, <1>3, <2>1, OneParts
<1> QED
  BY <1>2, <1>3

\* A call is made by its client itself, or by a handler that runs below it.
LEMMA BelowCall ==
    IInv => \A t \in Thread, k \in CallId : <<"client_call", k>> \in Frames(t) =>
              \/ t = k[1] /\ t \in Client
              \/ \E l \in CallId : ServesIt(t, l) /\ rpc[l].server = "running" /\ Before(l, k)
<1> SUFFICES ASSUME IInv, NEW t \in Thread, NEW k \in CallId, <<"client_call", k>> \in Frames(t)
             PROVE  \/ t = k[1] /\ t \in Client
                    \/ \E l \in CallId : ServesIt(t, l) /\ rpc[l].server = "running" /\ Before(l, k)
  OBVIOUS
<1>1. PICK i \in 1..Len(thread[t].stack) : thread[t].stack[i] = <<"client_call", k>>
  BY IInvParts, IsFrame DEF FramesTyped
<1>2. CASE i = 1
  BY <1>1, <1>2, IInvParts, Clients DEF FramesNest, FirstFrame, StacksTyped
<1>3. CASE i # 1
  <2>1. PICK j \in 1..Len(thread[t].stack) : j = i - 1 /\ j \in 1..Len(thread[t].stack) - 1 /\ j < Len(thread[t].stack)
    BY <1>3, IInvParts DEF StacksTyped
  <2>2. NextFrame(t, j)
    BY <2>1, IInvParts DEF FramesNest
  <2>3. PICK l \in CallId : thread[t].stack[j] = <<"handleCall", l>> /\ Before(l, k)
    <3>1. /\ thread[t].stack[j][1] \in {"client_call", "handleCall"} /\ thread[t].stack[j][2] \in CallId
          /\ thread[t].stack[j] = <<thread[t].stack[j][1], thread[t].stack[j][2]>>
      BY IInvParts DEF StacksTyped
    <3>2. j + 1 = i
      BY <2>1
    <3> QED
      BY <1>1, <2>2, <3>1, <3>2 DEF NextFrame
  <2>4. rpc[l].server = "running"
    BY <2>1, <2>3, IInvParts DEF InnerFramesWait
  <2>5. <<"handleCall", l>> \in Frames(t)
    BY <2>3, IInvParts, IsFrame DEF FramesTyped
  <2> QED
    BY <2>3, <2>4, <2>5 DEF ServesIt
<1> QED
  BY <1>2, <1>3

-----------------------------------------------------------------------------
(* Who is registered.                                                      *)

\* A thread that anything but a call being added keeps registered is in the list, and counted.
LEMMA Registered ==
    IInv => \A t \in Thread : \A x \in Registrations(t) :
              (\A k \in CallId : AddsIt(t, k) => x # <<"client_call", k>>) =>
              /\ ~JustAdded(t)
              /\ t \in Waiting(Process(t))
              /\ IsFiniteSet(Registrations(t))
              /\ thread[t].recursion_count = Cardinality(Registrations(t))
<1> SUFFICES ASSUME IInv, NEW t \in Thread, NEW x \in Registrations(t),
                    \A k \in CallId : AddsIt(t, k) => x # <<"client_call", k>>
             PROVE  /\ ~JustAdded(t)
                    /\ t \in Waiting(Process(t))
                    /\ IsFiniteSet(Registrations(t))
                    /\ thread[t].recursion_count = Cardinality(Registrations(t))
  OBVIOUS
<1>1. \A k \in CallId : ~AddsIt(t, k)
  <2>1. CalledRight(t)
    BY IInvParts, JustCalledAre
  <2> QED
    BY <2>1 DEF CalledRight
<1>2. \A e \in Conn : ~AddsWorker(t, e)
  <2>1. \A e \in Conn : TargetRight(e)
    BY IInvParts, TargetsAre
  <2> QED
    BY <2>1 DEF TargetRight, AddsWorker
<1>3. ~JustAdded(t)
  BY <1>1, <1>2, IInvParts, RegistrationFacts DEF RegistrationsAre
<1>4. ThreadCounted(t)
  BY IInvParts, CountedAre
<1> QED
  BY <1>3, <1>4 DEF ThreadCounted

\* A thread that serves a call, or waits for one, is registered.
LEMMA ServesRegistered ==
    IInv => \A t \in Thread, k \in CallId : ServesIt(t, k) =>
              ~JustAdded(t) /\ t \in Waiting(Process(t)) /\ thread[t].original_tid = Tid[k[1]]
<1> SUFFICES ASSUME IInv, NEW t \in Thread, NEW k \in CallId, ServesIt(t, k)
             PROVE  ~JustAdded(t) /\ t \in Waiting(Process(t)) /\ thread[t].original_tid = Tid[k[1]]
  OBVIOUS
<1>1. <<"handleCall", k>> \in Registrations(t)
  BY IInvParts, RegistrationFacts DEF RegistrationsAre
<1>2. PICK i \in 1..Len(thread[t].stack) : thread[t].stack[i] = <<"handleCall", k>>
  BY IInvParts, IsFrame DEF FramesTyped, ServesIt
<1>3. thread[t].original_tid = Tid[k[1]]
  BY <1>2, IInvParts, SMTT(30) DEF FramesOwned, Live, ServesIt
<1> QED
  BY <1>1, <1>3, Registered

\* So is a thread that has made a call, once it is added and counted.
LEMMA MakesRegistered ==
    IInv => \A t \in Thread, k \in CallId :
              MakesIt(t, k) /\ rpc[k].client \notin {"add", "count"} =>
              ~JustAdded(t) /\ t \in Waiting(Process(t)) /\ thread[t].original_tid = Tid[k[1]]
<1> SUFFICES ASSUME IInv, NEW t \in Thread, NEW k \in CallId, MakesIt(t, k), rpc[k].client \notin {"add", "count"}
             PROVE  ~JustAdded(t) /\ t \in Waiting(Process(t)) /\ thread[t].original_tid = Tid[k[1]]
  OBVIOUS
<1>1. <<"client_call", k>> \in Registrations(t)
  BY IInvParts, RegistrationFacts DEF RegistrationsAre
<1>2. PICK i \in 1..Len(thread[t].stack) : thread[t].stack[i] = <<"client_call", k>>
  BY IInvParts, IsFrame DEF FramesTyped, MakesIt
<1>3. thread[t].original_tid = Tid[k[1]]
  BY <1>2, IInvParts DEF FramesOwned, Live
<1>4. \A l \in CallId : AddsIt(t, l) => <<"client_call", k>> # <<"client_call", l>>
  BY DEF AddsIt
<1> QED
  BY <1>1, <1>3, <1>4, Registered

-----------------------------------------------------------------------------
(* What a step leaves alone.                                               *)

\* Thread u is registered for what it was, and counts as much.
Rests(u) ==
    /\ \A k \in CallId : /\ MakesIt(u, k)' <=> MakesIt(u, k)
                         /\ ServesIt(u, k)' <=> ServesIt(u, k)
                         /\ HasIt(u, k)' <=> HasIt(u, k)
                         /\ AddsIt(u, k)' <=> AddsIt(u, k)
                         /\ AddsIt(u, k) => rpc'[k].client = rpc[k].client
    /\ \A e \in Conn : /\ GetsIt(u, e)' <=> GetsIt(u, e)
                       /\ AddsWorker(u, e)' <=> AddsWorker(u, e)
    /\ thread'[u].recursion_count = thread[u].recursion_count
    /\ thread'[u].original_tid = thread[u].original_tid

\* A thread whose registrations are, one by one, what they were.
LEMMA RegistrationsSame ==
    ASSUME TypeOK, TypeOK', NEW u \in Thread,
           \A k \in CallId : /\ MakesIt(u, k)' <=> MakesIt(u, k)
                             /\ ServesIt(u, k)' <=> ServesIt(u, k)
                             /\ HasIt(u, k)' <=> HasIt(u, k),
           \A e \in Conn : GetsIt(u, e)' <=> GetsIt(u, e)
    PROVE  Registrations(u)' = Registrations(u)
<1> DEFINE R == Registrations(u)
           Q == Registrations(u)'
<1>1. /\ \A k \in CallId :
           /\ <<"client_call", k>> \in Q <=> <<"client_call", k>> \in R
           /\ <<"handleCall", k>> \in Q <=> <<"handleCall", k>> \in R
           /\ <<"posted", k>> \in Q <=> <<"posted", k>> \in R
      /\ \A e \in Conn : <<"reader", e>> \in Q <=> <<"reader", e>> \in R
  <2>1. \A k \in CallId : <<"client_call", k>> \in Q <=> <<"client_call", k>> \in R
    BY RegistrationFacts, RegistrationFactsNext DEF RegistrationsAre
  <2>2. \A k \in CallId : <<"handleCall", k>> \in Q <=> <<"handleCall", k>> \in R
    BY RegistrationFacts, RegistrationFactsNext DEF RegistrationsAre
  <2>3. \A k \in CallId : <<"posted", k>> \in Q <=> <<"posted", k>> \in R
    BY RegistrationFacts, RegistrationFactsNext DEF RegistrationsAre
  <2>4. \A e \in Conn : <<"reader", e>> \in Q <=> <<"reader", e>> \in R
    BY RegistrationFacts, RegistrationFactsNext DEF RegistrationsAre
  <2> QED
    BY <2>1, <2>2, <2>3, <2>4
<1>2. /\ \A x \in R : \/ \E k \in CallId : x = <<"client_call", k>> \/ x = <<"handleCall", k>> \/ x = <<"posted", k>>
                      \/ \E e \in Conn : x = <<"reader", e>>
      /\ \A x \in Q : \/ \E k \in CallId : x = <<"client_call", k>> \/ x = <<"handleCall", k>> \/ x = <<"posted", k>>
                      \/ \E e \in Conn : x = <<"reader", e>>
  BY RegistrationFacts, RegistrationFactsNext DEF RegistrationsAre
<1> HIDE DEF R, Q
<1>3. \A x \in R : x \in Q
  BY <1>1, <1>2
<1>4. \A x \in Q : x \in R
  BY <1>1, <1>2
<1>5. Q = R
  BY <1>3, <1>4
<1> QED
  BY <1>5 DEF R, Q

\* A thread that rests is registered for what it was.
LEMMA RestsSame ==
    ASSUME TypeOK, TypeOK', NEW u \in Thread, Rests(u)
    PROVE  Registrations(u)' = Registrations(u) /\ (JustAdded(u)' <=> JustAdded(u))
<1>1. Registrations(u)' = Registrations(u)
  BY RegistrationsSame DEF Rests
<1>2. JustAdded(u)' <=> JustAdded(u)
  BY RegistrationFacts, RegistrationFactsNext DEF RegistrationsAre, Rests
<1> QED
  BY <1>1, <1>2

\* The lists stay, and so does the thread id of whoever is in them.
ListsStay ==
    /\ UNCHANGED <<waiting_threads, free_workers, nworkers>>
    /\ \A u \in Thread : thread'[u].original_tid = thread[u].original_tid

\* Who waits, who is free and who is created stays with the lists.
LEMMA ListsStaySame ==
    ASSUME TypeOK, ListsStay
    PROVE  /\ \A p \in Proc : Waiting(p)' = Waiting(p) /\ Frees(p)' = Frees(p)
           /\ \A p \in Proc : \A tid : NobodyWaits(p, tid)' <=> NobodyWaits(p, tid)
           /\ Created' = Created
<1>1. \A p \in Proc : Waiting(p)' = Waiting(p) /\ Frees(p)' = Frees(p)
  BY DEF ListsStay, Waiting, Frees
<1>2. \A p \in Proc : \A t \in Waiting(p) : thread'[t].original_tid = thread[t].original_tid
  BY ListFacts DEF ListsAre, ListsStay
<1> QED
  BY <1>1, <1>2 DEF ListsStay, NobodyWaits, Created

\* A thread that rests is counted as it was.
LEMMA RestsCounted ==
    ASSUME TypeOK, TypeOK', NEW u \in Thread, Rests(u), ThreadCounted(u),
           (u \in Waiting(Process(u)))' <=> u \in Waiting(Process(u))
    PROVE  ThreadCounted(u)'
<1>1. /\ Registrations(u)' = Registrations(u) /\ (JustAdded(u)' <=> JustAdded(u))
      /\ thread'[u].recursion_count = thread[u].recursion_count
  BY RestsSame DEF Rests
<1> QED
  BY <1>1 DEF ThreadCounted

\* A thread that rests, and whose call is being added, can be.
LEMMA RestsCalled ==
    ASSUME TypeOK, TypeOK', NEW u \in Thread, Rests(u), CalledRight(u),
           \A k \in CallId : AddsIt(u, k) =>
              /\ rpc[k].client = "add" /\ NobodyWaits(Process(u), Tid[k[1]])
                   => NobodyWaits(Process(u), Tid[k[1]])'
              /\ rpc[k].client = "count" /\ u \in Waiting(Process(u)) => (u \in Waiting(Process(u)))'
    PROVE  CalledRight(u)'
<1>1. Registrations(u)' = Registrations(u)
  BY RestsSame
<1>2. \A k \in CallId : AddsIt(u, k)' => AddsIt(u, k) /\ rpc'[k].client = rpc[k].client
  BY DEF Rests
<1> SUFFICES ASSUME NEW k \in CallId, AddsIt(u, k)'
             PROVE  /\ Registrations(u)' = {<<"client_call", k>>}
                    /\ rpc'[k].client = "add" => NobodyWaits(Process(u), Tid[k[1]])'
                    /\ rpc'[k].client = "count" => (u \in Waiting(Process(u)))'
  BY DEF CalledRight
<1> QED
  BY <1>1, <1>2 DEF CalledRight

\* The reader of e stands as it did to its message and to its thread.
EndRests(e) ==
    /\ conn'[e].reader = conn[e].reader
    /\ conn'[e].msg = conn[e].msg
    /\ conn'[e].thr = conn[e].thr

\* An end whose reader rests, with the thread it has chosen, has chosen it rightly still.
LEMMA TargetStays ==
    ASSUME TypeOK, TypeOK', Messages, Messages', NEW e \in Conn, EndRests(e), TargetRight(e), FramesWait,
           Owner[e] \in Proc,
           NEW t, t = conn[e].thr,
           Aims(e) =>
              /\ t \in Created => t \in Created'
              /\ thread'[t].wakeup = thread[t].wakeup
              /\ conn[e].reader # "data" => thread'[t].wakeup_data = thread[t].wakeup_data
              /\ conn[e].reader # "data" => thread'[t].wakeup_conn = thread[t].wakeup_conn
              /\ thread'[t].original_tid = thread[t].original_tid
              /\ conn[e].reader \in {"add", "count"} => Registrations(t)' = Registrations(t)
              /\ conn[e].reader \in {"add", "count"} =>
                   (t \in Waiting(Owner[e])' <=> t \in Waiting(Owner[e]))
              /\ \A f \in Conn : conn'[f].thr = t => conn[f].thr = t,
           conn[e].reader \in {"worker", "add"} =>
              (NobodyWaits(Owner[e], conn[e].msg.tid) => NobodyWaits(Owner[e], conn[e].msg.tid)')
    PROVE  TargetRight(e)'
<1>1. t = conn[e].thr
  OBVIOUS
<1>2. PICK m : m = conn[e].msg
  OBVIOUS
<1>3. PICK pc : pc = conn[e].reader
  OBVIOUS
<1>4. conn'[e].thr = t /\ conn'[e].msg = m /\ conn'[e].reader = pc
  BY <1>1, <1>2, <1>3 DEF EndRests
<1>5. (Aims(e)' <=> Aims(e)) /\ (Aims(e) <=> pc \in Aiming)
  BY <1>3, <1>4 DEF Aims
<1>6. /\ pc \notin Aiming => t = None
      /\ pc \in Aiming =>
           /\ t \in Created' /\ Process(t) = Owner[e]
           /\ thread'[t].wakeup = 0
           /\ \A f \in Conn : conn'[f].thr = t => e = f
  BY <1>1, <1>3, <1>4, <1>5 DEF TargetRight
<1>7. pc \in {"worker", "add"} => NobodyWaits(Owner[e], m.tid)'
  <2>1. NobodyWaits(Owner[e], conn[e].msg.tid)' => NobodyWaits(Owner[e], m.tid)'
    BY <1>2, <1>4
  <2> QED
    BY <1>3, <2>1 DEF TargetRight
<1>8. /\ pc \in {"add", "count"} => t \in Worker /\ Registrations(t)' = {}
      /\ pc = "add" => t \notin Waiting(Owner[e])'
      /\ pc = "count" => t \in Waiting(Owner[e])'
      /\ pc \in {"count", "data", "post"} => thread'[t].original_tid = m.tid
      /\ pc = "post" => thread'[t].wakeup_data = m /\ (m.cmd = "CmdCall" => thread'[t].wakeup_conn = e)
  BY <1>1, <1>2, <1>3, <1>4, <1>5 DEF TargetRight, Aiming
<1>9. pc \in {"data", "post"} /\ m.cmd = "CmdReturn" => <<"client_call", m.id>> \in Frames(t)'
  <2> SUFFICES ASSUME pc \in {"data", "post"}, m.cmd = "CmdReturn"
               PROVE  <<"client_call", m.id>> \in Frames(t)'
    OBVIOUS
  <2>1. <<"client_call", m.id>> \in Frames(t)
    BY <1>1, <1>2, <1>3 DEF TargetRight
  <2>2. Holds(e) /\ Holds(e)'
    BY <1>3, <1>4 DEF Holds, Holding
  <2>3. Fits(m, e) /\ m.id \in CallId
    BY <1>2, <2>2, ReaderMessage
  <2>4. InReader'
    BY DEF Messages
  <2>5. (Fits(conn[e].msg, e))'
    BY <2>2, <2>4 DEF InReader
  <2>6. Fits(m, e)'
    BY <1>4, <2>5
  <2>7. rpc[m.id].client = "wait" /\ rpc'[m.id].client = "wait"
    BY <2>3, <2>6 DEF Fits
  <2>8. t \in Thread
    BY <1>1, <1>3, <1>5 DEF TargetRight, Created, Thread, Aiming
  <2> QED
    BY <2>1, <2>3, <2>7, <2>8 DEF FramesWait
<1> QED
  BY <1>4, <1>5, <1>6, <1>7, <1>8, <1>9 DEF TargetRight, Aims

\* Threads that have not been created run nothing and get nothing.
UncreatedRest == \A u \in Worker : u \notin Created =>
    thread'[u].stack = thread[u].stack /\ thread'[u].wakeup = thread[u].wakeup

\* The thread that the reader of e has chosen is not given anything.
TargetRests(e) == Aims(e) =>
    /\ thread'[conn[e].thr].wakeup = thread[conn[e].thr].wakeup
    /\ conn[e].reader # "data" =>
         /\ thread'[conn[e].thr].wakeup_data = thread[conn[e].thr].wakeup_data
         /\ thread'[conn[e].thr].wakeup_conn = thread[conn[e].thr].wakeup_conn
    /\ thread'[conn[e].thr].original_tid = thread[conn[e].thr].original_tid

\* Every end is in a process, and has another end.
LEMMA OwnerFacts == \A e \in Conn : Owner[e] \in Proc /\ Peer[e] \in Conn /\ Peer[Peer[e]] = e /\ e # None
BY TopologyAssumption, NoneAssumption

\* All but the threads of T and the ends of E rest, and whom they wait for
\* does not come.
LEMMA RestThreads ==
    ASSUME IInv, TypeOK', Messages', FramesWait, NEW T, NEW E,
           \A u \in Thread : u \notin T =>
              Rests(u) /\ ((u \in Waiting(Process(u)))' <=> u \in Waiting(Process(u))),
           \A u \in Thread : u \in T => ThreadCounted(u)' /\ CalledRight(u)',
           \A u \in Thread, k \in CallId : u \notin T /\ AddsIt(u, k) /\ rpc[k].client = "add" =>
              (NobodyWaits(Process(u), Tid[k[1]]) => NobodyWaits(Process(u), Tid[k[1]])'),
           \A t \in Created : t \in Created',
           \A e \in Conn : e \notin E => EndRests(e) /\ TargetRests(e),
           \A e \in Conn : e \notin E /\ conn[e].reader \in {"worker", "add"} =>
              (NobodyWaits(Owner[e], conn[e].msg.tid) => NobodyWaits(Owner[e], conn[e].msg.tid)'),
           \A e \in Conn : e \notin E /\ conn[e].reader \in {"add", "count"} => conn[e].thr \notin T,
           \A e \in Conn : e \in E =>
              /\ TargetRight(e)'
              /\ \/ conn'[e].thr = conn[e].thr \/ conn'[e].thr = None
                 \/ \A f \in Conn : f # e => conn[f].thr # conn'[e].thr
    PROVE  Targets' /\ Counted' /\ JustCalled'
<1>1. Counted'
  <2> SUFFICES ASSUME NEW u \in Thread, u \notin T PROVE ThreadCounted(u)'
    BY DEF Counted, ThreadCounted
  <2>1. ThreadCounted(u)
    BY IInvParts, CountedAre
  <2> QED
    BY <2>1, IInvParts, RestsCounted
<1>2. \A u \in Thread : CalledRight(u)'
  <2> SUFFICES ASSUME NEW u \in Thread, u \notin T PROVE CalledRight(u)'
    OBVIOUS
  <2>1. CalledRight(u)
    BY IInvParts, JustCalledAre
  <2> QED
    BY <2>1, IInvParts, RestsCalled
<1>3. JustCalled'
  BY <1>2, JustCalledAreNext
<1>4. \A e \in Conn : TargetRight(e)'
  <2> SUFFICES ASSUME NEW e \in Conn, e \notin E PROVE TargetRight(e)'
    OBVIOUS
  <2>1. EndRests(e) /\ TargetRests(e) /\ TargetRight(e)
    BY IInvParts, TargetsAre
  <2>2. PICK t : t = conn[e].thr
    OBVIOUS
  <2>3. ASSUME Aims(e)
        PROVE  /\ t \in Thread /\ t # None /\ Process(t) = Owner[e]
               /\ thread'[t].wakeup = thread[t].wakeup
               /\ conn[e].reader # "data" => thread'[t].wakeup_data = thread[t].wakeup_data
               /\ conn[e].reader # "data" => thread'[t].wakeup_conn = thread[t].wakeup_conn
               /\ thread'[t].original_tid = thread[t].original_tid
               /\ conn[e].reader \in {"add", "count"} => Registrations(t)' = Registrations(t)
               /\ conn[e].reader \in {"add", "count"} =>
                    (t \in Waiting(Owner[e])' <=> t \in Waiting(Owner[e]))
               /\ t \in Created => t \in Created'
    <3>1. t \in Thread /\ Process(t) = Owner[e]
      BY <2>1, <2>2, <2>3 DEF TargetRight, Created, Thread
    <3>2. conn[e].reader \in {"add", "count"} => Registrations(t)' = Registrations(t)
      BY <2>2, <3>1, IInvParts, RestsSame
    <3>3. conn[e].reader \in {"add", "count"} => (t \in Waiting(Owner[e])' <=> t \in Waiting(Owner[e]))
      BY <2>2, <3>1 DEF Process
    <3> QED
      BY <2>1, <2>2, <2>3, <3>1, <3>2, <3>3, Processes DEF TargetRests
  <2>4. ASSUME Aims(e), NEW f \in Conn, conn'[f].thr = t PROVE conn[f].thr = t
    <3>1. CASE f \notin E
      BY <2>4, <3>1 DEF EndRests
    <3>2. CASE f \in E
      BY <2>1, <2>2, <2>3, <2>4, <3>2
    <3> QED
      BY <3>1, <3>2
  <2>5. conn[e].reader \in {"worker", "add"} =>
          (NobodyWaits(Owner[e], conn[e].msg.tid) => NobodyWaits(Owner[e], conn[e].msg.tid)')
    OBVIOUS
  <2>6. Aims(e) =>
          /\ t \in Created => t \in Created'
          /\ thread'[t].wakeup = thread[t].wakeup
          /\ conn[e].reader # "data" => thread'[t].wakeup_data = thread[t].wakeup_data
          /\ conn[e].reader # "data" => thread'[t].wakeup_conn = thread[t].wakeup_conn
          /\ thread'[t].original_tid = thread[t].original_tid
          /\ conn[e].reader \in {"add", "count"} => Registrations(t)' = Registrations(t)
          /\ conn[e].reader \in {"add", "count"} =>
               (t \in Waiting(Owner[e])' <=> t \in Waiting(Owner[e]))
          /\ \A f \in Conn : conn'[f].thr = t => conn[f].thr = t
    BY <2>3, <2>4
  <2>7. TypeOK /\ Messages /\ Owner[e] \in Proc
    BY IInvParts, OwnerFacts
  <2> QED
    BY <2>1, <2>2, <2>5, <2>6, <2>7, TargetStays
<1>5. Targets'
  BY <1>4 DEF Targets, TargetRight
<1> QED
  BY <1>1, <1>3, <1>5

\* All but the threads of T and the ends of E rest, and the lists do.
LEMMA RestRegistry ==
    ASSUME IInv, TypeOK', Messages', ListsStay, FramesWait, UncreatedRest, NEW T, NEW E,
           \A u \in Thread : u \notin T => Rests(u),
           \A u \in Thread : u \in T => ThreadCounted(u)' /\ CalledRight(u)',
           \A e \in Conn : e \notin E => EndRests(e) /\ TargetRests(e),
           \A e \in Conn : e \notin E /\ conn[e].reader \in {"add", "count"} => conn[e].thr \notin T,
           \A e \in Conn : e \in E =>
              /\ TargetRight(e)' /\ conn[e].reader # "add"
              /\ \/ conn'[e].thr = conn[e].thr \/ conn'[e].thr = None
                 \/ conn'[e].thr \in Waiting(Owner[e]) /\ \A f \in Conn : f # e => conn[f].thr # conn'[e].thr
    PROVE  Registry'
<1>1. /\ \A p \in Proc : Waiting(p)' = Waiting(p) /\ Frees(p)' = Frees(p)
      /\ \A p \in Proc : \A tid : NobodyWaits(p, tid)' <=> NobodyWaits(p, tid)
      /\ Created' = Created
  BY IInvParts, ListsStaySame
<1>2. Targets' /\ Counted' /\ JustCalled'
  <2>1. \A u \in Thread : (u \in Waiting(Process(u)))' <=> u \in Waiting(Process(u))
    BY <1>1, Processes DEF Process
  <2>2. \A u \in Thread : \A tid : NobodyWaits(Process(u), tid)' <=> NobodyWaits(Process(u), tid)
    BY <1>1, Processes DEF Process
  <2>3. ASSUME NEW e \in Conn, EndRests(e)
        PROVE  NobodyWaits(Owner[e], conn[e].msg.tid) => NobodyWaits(Owner[e], conn[e].msg.tid)'
    BY <1>1, <2>3, OwnerFacts DEF EndRests
  <2> QED
    BY <1>1, <2>1, <2>2, <2>3, RestThreads
<1>3. WaitingRight'
  <2>1. UniqueTid'
    <3>1. \A p \in Proc : Listed(p)
      BY IInvParts, UniqueTidIs DEF WaitingRight
    <3>2. ASSUME NEW p \in Proc PROVE Listed(p)'
      BY <1>1, <3>1, IInvParts, ListFacts DEF Listed, ListsStay, ListsAre
    <3> QED
      BY <3>2, UniqueTidIsNext
  <2> QED
    BY <1>1, <2>1, IInvParts, ListFacts, Clients DEF WaitingRight, ListsStay, ListsAre, Process, Thread
<1>4. FreeRight'
  <2> SUFFICES ASSUME NEW p \in Proc
               PROVE  /\ \A i, j \in 1..Len(free_workers'[p]) : free_workers'[p][i] = free_workers'[p][j] => i = j
                      /\ \A t \in Frees(p)' :
                           /\ t \in Worker /\ t \in Created' /\ Process(t) = p
                           /\ t \notin Waiting(p)'
                           /\ \A e \in Conn : conn'[e].thr # t
    BY DEF FreeRight, Process
  <2>1. \A i, j \in 1..Len(free_workers'[p]) : free_workers'[p][i] = free_workers'[p][j] => i = j
    BY IInvParts DEF FreeRight, ListsStay
  <2>2. ASSUME NEW t \in Frees(p)
        PROVE  /\ t \in Worker /\ t \in Created /\ Process(t) = p
               /\ t \notin Waiting(p)
               /\ \A e \in Conn : conn[e].thr # t
    BY <2>2, IInvParts DEF FreeRight
  <2>3. ASSUME NEW t \in Frees(p), NEW e \in Conn PROVE conn'[e].thr # t
    <3>1. t # None
      BY <2>2, Processes DEF Thread
    <3>2. CASE conn'[e].thr = conn[e].thr \/ conn'[e].thr = None
      BY <2>2, <3>1, <3>2
    <3>3. CASE conn'[e].thr \in Waiting(Owner[e])
      BY <2>2, <3>3, IInvParts, OwnerFacts DEF WaitingRight
    <3> QED
      BY <3>2, <3>3 DEF EndRests
  <2> QED
    BY <1>1, <2>1, <2>2, <2>3
<1>5. WorkersKept'
  <2> SUFFICES ASSUME NEW t \in Worker
               PROVE  /\ t \in Created' => \/ t \in Frees(t[1])' \/ t \in Waiting(t[1])'
                                           \/ \E e \in Conn : conn'[e].reader = "add" /\ conn'[e].thr = t
                      /\ t \notin Created' => thread'[t].stack = <<>> /\ thread'[t].wakeup = 0
    BY DEF WorkersKept
  <2>1. /\ t \in Created => \/ t \in Frees(t[1]) \/ t \in Waiting(t[1])
                            \/ \E e \in Conn : conn[e].reader = "add" /\ conn[e].thr = t
        /\ t \notin Created => thread[t].stack = <<>> /\ thread[t].wakeup = 0
    BY IInvParts DEF WorkersKept
  <2>2. t[1] \in Proc
    BY DEF Worker
  <2>3. \A e \in Conn : conn[e].reader = "add" /\ conn[e].thr = t => conn'[e].reader = "add" /\ conn'[e].thr = t
    BY DEF EndRests
  <2> QED
    BY <1>1, <2>1, <2>2, <2>3 DEF UncreatedRest
<1> QED
  BY <1>2, <1>3, <1>4, <1>5 DEF Registry

-----------------------------------------------------------------------------
(* The counters of connections.                                            *)

\* What a call counts for at end e.
CallCountsSame(k, e) ==
    /\ k \in Requests(e)' <=> k \in Requests(e)
    /\ k \in Posted(e)' <=> k \in Posted(e)
    /\ k \in Served(e)' <=> k \in Served(e)
    /\ k \in Incoming(e)' <=> k \in Incoming(e)
EndCounted(e) ==
    /\ IsFiniteSet(Requests(e)) /\ IsFiniteSet(Posted(e)) /\ IsFiniteSet(Served(e)) /\ IsFiniteSet(Incoming(e))
    /\ conn[e].ref_cnt = 3 + Cardinality(Requests(e)) + Cardinality(Posted(e)) + 2 * Cardinality(Served(e))
    /\ conn[e].incoming_calls_cnt = Cardinality(Incoming(e))

\* ConnsCounted, said end by end.
LEMMA ConnsCountedAre == ConnsCounted <=> \A e \in Conn : EndCounted(e)
BY DEF ConnsCounted, EndCounted

\* Where call k stands, to the counters.
LEMMA CountsOf ==
    \A k \in CallId : \A e :
    /\ k \in Requests(e) <=> IsOpen(k) /\ rpc[k].conn = e
    /\ k \in Posted(e) <=> rpc[k].server = "posted" /\ ServedAt(k) = e
    /\ k \in Served(e) <=> rpc[k].server \in Inside /\ ServedAt(k) = e
    /\ k \in Incoming(e) <=> rpc[k].server \in Inside \ {"cleanup", "leave"} /\ ServedAt(k) = e
BY DEF Requests, Posted, Served, Incoming

\* What counts for an end is a set of calls.
LEMMA CountsIn ==
    \A e : Requests(e) \subseteq CallId /\ Posted(e) \subseteq CallId
           /\ Served(e) \subseteq CallId /\ Incoming(e) \subseteq CallId
BY DEF Requests, Posted, Served, Incoming

\* A set of calls with one more, and with one less.
LEMMA OneMore ==
    ASSUME NEW S, NEW x, NEW R, IsFiniteSet(S), x \notin S, R = S \cup {x}
    PROVE  IsFiniteSet(R) /\ Cardinality(S) \in Nat /\ Cardinality(R) = Cardinality(S) + 1
BY FS_AddElement, FS_CardinalityType

\* The size of a set that loses an element.
LEMMA OneLess ==
    ASSUME NEW S, NEW x, NEW R, IsFiniteSet(S), x \in S, R = S \ {x}
    PROVE  /\ IsFiniteSet(R) /\ Cardinality(S) \in Nat /\ Cardinality(R) \in Nat
           /\ Cardinality(R) = Cardinality(S) - 1 /\ Cardinality(S) >= 1
<1>1. Cardinality(S) \in Nat
  BY FS_CardinalityType
<1>2. IsFiniteSet(R) /\ Cardinality(R) = Cardinality(S) - 1
  BY FS_RemoveElement
<1>3. Cardinality(R) \in Nat
  BY <1>2, FS_CardinalityType
<1> QED
  BY <1>1, <1>2, <1>3

\* Calls count for what they did, and the counters stay.
CallStays(k) ==
    /\ IsOpen(k)' <=> IsOpen(k)
    /\ rpc'[k].conn = rpc[k].conn
    /\ rpc'[k].server = "posted" <=> rpc[k].server = "posted"
    /\ rpc'[k].server \in Inside <=> rpc[k].server \in Inside
    /\ rpc'[k].server \in {"cleanup", "leave"} <=> rpc[k].server \in {"cleanup", "leave"}

\* A call that stays counts for each end as it did.
LEMMA CallStaysCounts ==
    ASSUME NEW k \in CallId, CallStays(k), NEW e PROVE CallCountsSame(k, e)
<1>1. ServedAt(k)' = ServedAt(k)
  BY DEF CallStays, ServedAt
<1>2. k \in Requests(e)' <=> k \in Requests(e)
  BY DEF Requests, CallStays
<1>3. k \in Posted(e)' <=> k \in Posted(e)
  BY <1>1 DEF Posted, CallStays
<1>4. k \in Served(e)' <=> k \in Served(e)
  BY <1>1 DEF Served, CallStays
<1>5. k \in Incoming(e)' <=> k \in Incoming(e)
  BY <1>1 DEF Incoming, CallStays
<1> QED
  BY <1>2, <1>3, <1>4, <1>5 DEF CallCountsSame

\* An end counts right still, if all calls stay and its counters do.
LEMMA CountsStay ==
    ASSUME NEW e, EndCounted(e), \A k \in CallId : CallCountsSame(k, e), SameCounts(e)
    PROVE  EndCounted(e)'
<1>1. Requests(e)' = Requests(e)
  BY DEF CallCountsSame, Requests
<1>2. Posted(e)' = Posted(e)
  BY DEF CallCountsSame, Posted
<1>3. Served(e)' = Served(e)
  BY DEF CallCountsSame, Served
<1>4. Incoming(e)' = Incoming(e)
  BY DEF CallCountsSame, Incoming
<1> QED
  BY <1>1, <1>2, <1>3, <1>4 DEF EndCounted, SameCounts

\* ConnsCounted stays, if all calls and all counters do.
LEMMA ConnsStay ==
    ASSUME ConnsCounted, \A k \in CallId : CallStays(k), \A e \in Conn : SameCounts(e)
    PROVE  ConnsCounted'
<1> SUFFICES ASSUME NEW e \in Conn PROVE EndCounted(e)'
  BY DEF ConnsCounted, EndCounted
<1> QED
  BY ConnsCountedAre, CallStaysCounts, CountsStay

\* Where the counters of one end, for one call, change.
LEMMA ConnsBut1 ==
    ASSUME ConnsCounted, NEW id \in CallId, CallsBut(id), NEW e \in Conn, ConnsBut(e),
           \A f \in Conn \ {e} : CallCountsSame(id, f),
           EndCounted(e)'
    PROVE  ConnsCounted'
<1> SUFFICES ASSUME NEW f \in Conn, f # e PROVE EndCounted(f)'
  BY DEF ConnsCounted, EndCounted
<1>1. \A k \in CallId \ {id} : CallStays(k)
  BY DEF CallsBut, CallStays, IsOpen
<1>2. \A k \in CallId : CallCountsSame(k, f)
  BY <1>1, CallStaysCounts
<1>3. SameCounts(f)
  BY DEF ConnsBut, SameCounts
<1> QED
  BY <1>2, <1>3, ConnsCountedAre, CountsStay

\* A call is made over e.
LEMMA OpensCounts ==
    ASSUME IInv, NEW id \in CallId, CallsBut(id), NEW e \in Conn, ConnsBut(e),
           rpc[id].client = "none",
           rpc'[id].client = "acquire",
           rpc[id].server = "none",
           rpc'[id].server = "none",
           rpc'[id].conn = e,
           conn'[e].ref_cnt = conn[e].ref_cnt + 1,
           conn'[e].incoming_calls_cnt = conn[e].incoming_calls_cnt
    PROVE  ConnsCounted'
<1>1. EndCounted(e) /\ \A k \in CallId \ {id} : CallCountsSame(k, e)
  <2>1. \A k \in CallId \ {id} : CallStays(k)
    BY DEF CallsBut, CallStays, IsOpen
  <2> QED
    BY <2>1, CallStaysCounts, IInvParts, ConnsCountedAre
<1>2. Requests(e)' = Requests(e) \cup {id} /\ id \notin Requests(e)
  BY <1>1 DEF CallCountsSame, Requests, IsOpen, ServedAt, SameMade, Inside
<1>3. Posted(e)' = Posted(e)
  BY <1>1 DEF CallCountsSame, Posted, IsOpen, ServedAt, SameMade, Inside
<1>4. Served(e)' = Served(e)
  BY <1>1 DEF CallCountsSame, Served, IsOpen, ServedAt, SameMade, Inside
<1>5. Incoming(e)' = Incoming(e)
  BY <1>1 DEF CallCountsSame, Incoming, IsOpen, ServedAt, SameMade, Inside
<1>6. IsFiniteSet(Requests(e)') /\ Cardinality(Requests(e)) \in Nat /\ Cardinality(Requests(e)') = Cardinality(Requests(e)) + 1
  BY <1>1, <1>2, OneMore DEF EndCounted
<1>7. Cardinality(Requests(e)) \in Nat /\ Cardinality(Posted(e)) \in Nat /\ Cardinality(Served(e)) \in Nat /\ Cardinality(Incoming(e)) \in Nat
  BY <1>1, FS_CardinalityType DEF EndCounted
<1>8. EndCounted(e)'
  BY <1>1, <1>2, <1>3, <1>4, <1>5, <1>6, <1>7 DEF EndCounted
<1>9. \A f \in Conn \ {e} : CallCountsSame(id, f)
  BY DEF CallCountsSame, Requests, Posted, Served, Incoming, IsOpen, ServedAt, SameMade, Inside
<1> QED
  BY <1>8, <1>9, IInvParts, ConnsBut1

\* A call made over e returns.
LEMMA ReturnCounts ==
    ASSUME IInv, NEW id \in CallId, CallsBut(id), NEW e \in Conn, ConnsBut(e),
           rpc[id].client = "return",
           rpc'[id].client = "done",
           SameMade(id),
           rpc'[id].server = rpc[id].server,
           rpc[id].conn = e,
           conn'[e].ref_cnt = conn[e].ref_cnt - 1,
           conn'[e].incoming_calls_cnt = conn[e].incoming_calls_cnt
    PROVE  ConnsCounted'
<1>1. EndCounted(e) /\ \A k \in CallId \ {id} : CallCountsSame(k, e)
  <2>1. \A k \in CallId \ {id} : CallStays(k)
    BY DEF CallsBut, CallStays, IsOpen
  <2> QED
    BY <2>1, CallStaysCounts, IInvParts, ConnsCountedAre
<1>2. Requests(e)' = Requests(e) \ {id} /\ id \in Requests(e)
  BY <1>1 DEF CallCountsSame, Requests, IsOpen, ServedAt, SameMade, Inside
<1>3. Posted(e)' = Posted(e)
  BY <1>1 DEF CallCountsSame, Posted, IsOpen, ServedAt, SameMade, Inside
<1>4. Served(e)' = Served(e)
  BY <1>1 DEF CallCountsSame, Served, IsOpen, ServedAt, SameMade, Inside
<1>5. Incoming(e)' = Incoming(e)
  BY <1>1 DEF CallCountsSame, Incoming, IsOpen, ServedAt, SameMade, Inside
<1>6. IsFiniteSet(Requests(e)') /\ Cardinality(Requests(e)) \in Nat /\ Cardinality(Requests(e)') = Cardinality(Requests(e)) - 1
  BY <1>1, <1>2, OneLess DEF EndCounted
<1>7. Cardinality(Requests(e)) \in Nat /\ Cardinality(Posted(e)) \in Nat /\ Cardinality(Served(e)) \in Nat /\ Cardinality(Incoming(e)) \in Nat
  BY <1>1, FS_CardinalityType DEF EndCounted
<1>8. EndCounted(e)'
  BY <1>1, <1>2, <1>3, <1>4, <1>5, <1>6, <1>7 DEF EndCounted
<1>9. \A f \in Conn \ {e} : CallCountsSame(id, f)
  BY DEF CallCountsSame, Requests, Posted, Served, Incoming, IsOpen, ServedAt, SameMade, Inside
<1> QED
  BY <1>8, <1>9, IInvParts, ConnsBut1

\* A call that arrived at e is handed to a thread.
LEMMA PostCounts ==
    ASSUME IInv, NEW id \in CallId, CallsBut(id), NEW e \in Conn, ConnsBut(e),
           rpc'[id].client = rpc[id].client,
           SameMade(id),
           ServedAt(id) = e,
           rpc[id].server = "none",
           rpc'[id].server = "posted",
           conn'[e].ref_cnt = conn[e].ref_cnt + 1,
           conn'[e].incoming_calls_cnt = conn[e].incoming_calls_cnt
    PROVE  ConnsCounted'
<1>1. EndCounted(e) /\ \A k \in CallId \ {id} : CallCountsSame(k, e)
  <2>1. \A k \in CallId \ {id} : CallStays(k)
    BY DEF CallsBut, CallStays, IsOpen
  <2> QED
    BY <2>1, CallStaysCounts, IInvParts, ConnsCountedAre
<1>2. Requests(e)' = Requests(e)
  BY <1>1 DEF CallCountsSame, Requests, IsOpen, ServedAt, SameMade, Inside
<1>3. Posted(e)' = Posted(e) \cup {id} /\ id \notin Posted(e)
  BY <1>1 DEF CallCountsSame, Posted, IsOpen, ServedAt, SameMade, Inside
<1>4. Served(e)' = Served(e)
  BY <1>1 DEF CallCountsSame, Served, IsOpen, ServedAt, SameMade, Inside
<1>5. Incoming(e)' = Incoming(e)
  BY <1>1 DEF CallCountsSame, Incoming, IsOpen, ServedAt, SameMade, Inside
<1>6. IsFiniteSet(Posted(e)') /\ Cardinality(Posted(e)) \in Nat /\ Cardinality(Posted(e)') = Cardinality(Posted(e)) + 1
  BY <1>1, <1>3, OneMore DEF EndCounted
<1>7. Cardinality(Requests(e)) \in Nat /\ Cardinality(Posted(e)) \in Nat /\ Cardinality(Served(e)) \in Nat /\ Cardinality(Incoming(e)) \in Nat
  BY <1>1, FS_CardinalityType DEF EndCounted
<1>8. EndCounted(e)'
  BY <1>1, <1>2, <1>3, <1>4, <1>5, <1>6, <1>7 DEF EndCounted
<1>9. \A f \in Conn \ {e} : CallCountsSame(id, f)
  BY DEF CallCountsSame, Requests, Posted, Served, Incoming, IsOpen, ServedAt, SameMade, Inside
<1> QED
  BY <1>8, <1>9, IInvParts, ConnsBut1

\* Its handleCall begins.
LEMMA TakesCounts ==
    ASSUME IInv, NEW id \in CallId, CallsBut(id), NEW e \in Conn, ConnsBut(e),
           rpc'[id].client = rpc[id].client,
           SameMade(id),
           ServedAt(id) = e,
           rpc[id].server = "posted",
           rpc'[id].server = "running",
           conn'[e].ref_cnt = conn[e].ref_cnt + 1,
           conn'[e].incoming_calls_cnt = conn[e].incoming_calls_cnt + 1
    PROVE  ConnsCounted'
<1>1. EndCounted(e) /\ \A k \in CallId \ {id} : CallCountsSame(k, e)
  <2>1. \A k \in CallId \ {id} : CallStays(k)
    BY DEF CallsBut, CallStays, IsOpen
  <2> QED
    BY <2>1, CallStaysCounts, IInvParts, ConnsCountedAre
<1>2. Requests(e)' = Requests(e)
  BY <1>1 DEF CallCountsSame, Requests, IsOpen, ServedAt, SameMade, Inside
<1>3. Posted(e)' = Posted(e) \ {id} /\ id \in Posted(e)
  BY <1>1 DEF CallCountsSame, Posted, IsOpen, ServedAt, SameMade, Inside
<1>4. Served(e)' = Served(e) \cup {id} /\ id \notin Served(e)
  BY <1>1 DEF CallCountsSame, Served, IsOpen, ServedAt, SameMade, Inside
<1>5. Incoming(e)' = Incoming(e) \cup {id} /\ id \notin Incoming(e)
  BY <1>1 DEF CallCountsSame, Incoming, IsOpen, ServedAt, SameMade, Inside
<1>6. IsFiniteSet(Posted(e)') /\ Cardinality(Posted(e)) \in Nat /\ Cardinality(Posted(e)') = Cardinality(Posted(e)) - 1
  BY <1>1, <1>3, OneLess DEF EndCounted
<1>7. IsFiniteSet(Served(e)') /\ Cardinality(Served(e)) \in Nat /\ Cardinality(Served(e)') = Cardinality(Served(e)) + 1
  BY <1>1, <1>4, OneMore DEF EndCounted
<1>8. IsFiniteSet(Incoming(e)') /\ Cardinality(Incoming(e)) \in Nat /\ Cardinality(Incoming(e)') = Cardinality(Incoming(e)) + 1
  BY <1>1, <1>5, OneMore DEF EndCounted
<1>9. Cardinality(Requests(e)) \in Nat /\ Cardinality(Posted(e)) \in Nat /\ Cardinality(Served(e)) \in Nat /\ Cardinality(Incoming(e)) \in Nat
  BY <1>1, FS_CardinalityType DEF EndCounted
<1>10. EndCounted(e)'
  BY <1>1, <1>2, <1>3, <1>4, <1>5, <1>6, <1>7, <1>8, <1>9 DEF EndCounted
<1>11. \A f \in Conn \ {e} : CallCountsSame(id, f)
  BY DEF CallCountsSame, Requests, Posted, Served, Incoming, IsOpen, ServedAt, SameMade, Inside
<1> QED
  BY <1>10, <1>11, IInvParts, ConnsBut1

\* It does not come in any more.
LEMMA CallOutCounts ==
    ASSUME IInv, NEW id \in CallId, CallsBut(id), NEW e \in Conn, ConnsBut(e),
           rpc'[id].client = rpc[id].client,
           SameMade(id),
           ServedAt(id) = e,
           rpc[id].server = "callout",
           rpc'[id].server \in {"cleanup", "leave"},
           conn'[e].ref_cnt = conn[e].ref_cnt,
           conn'[e].incoming_calls_cnt = conn[e].incoming_calls_cnt - 1
    PROVE  ConnsCounted'
<1>1. EndCounted(e) /\ \A k \in CallId \ {id} : CallCountsSame(k, e)
  <2>1. \A k \in CallId \ {id} : CallStays(k)
    BY DEF CallsBut, CallStays, IsOpen
  <2> QED
    BY <2>1, CallStaysCounts, IInvParts, ConnsCountedAre
<1>2. Requests(e)' = Requests(e)
  BY <1>1 DEF CallCountsSame, Requests, IsOpen, ServedAt, SameMade, Inside
<1>3. Posted(e)' = Posted(e)
  BY <1>1 DEF CallCountsSame, Posted, IsOpen, ServedAt, SameMade, Inside
<1>4. Served(e)' = Served(e)
  BY <1>1 DEF CallCountsSame, Served, IsOpen, ServedAt, SameMade, Inside
<1>5. Incoming(e)' = Incoming(e) \ {id} /\ id \in Incoming(e)
  BY <1>1 DEF CallCountsSame, Incoming, IsOpen, ServedAt, SameMade, Inside
<1>6. IsFiniteSet(Incoming(e)') /\ Cardinality(Incoming(e)) \in Nat /\ Cardinality(Incoming(e)') = Cardinality(Incoming(e)) - 1
  BY <1>1, <1>5, OneLess DEF EndCounted
<1>7. Cardinality(Requests(e)) \in Nat /\ Cardinality(Posted(e)) \in Nat /\ Cardinality(Served(e)) \in Nat /\ Cardinality(Incoming(e)) \in Nat
  BY <1>1, FS_CardinalityType DEF EndCounted
<1>8. EndCounted(e)'
  BY <1>1, <1>2, <1>3, <1>4, <1>5, <1>6, <1>7 DEF EndCounted
<1>9. \A f \in Conn \ {e} : CallCountsSame(id, f)
  BY DEF CallCountsSame, Requests, Posted, Served, Incoming, IsOpen, ServedAt, SameMade, Inside
<1> QED
  BY <1>8, <1>9, IInvParts, ConnsBut1

\* Its handleCall returns.
LEMMA LeaveCounts ==
    ASSUME IInv, NEW id \in CallId, CallsBut(id), NEW e \in Conn, ConnsBut(e),
           rpc'[id].client = rpc[id].client,
           SameMade(id),
           ServedAt(id) = e,
           rpc[id].server = "leave",
           rpc'[id].server = "done",
           conn'[e].ref_cnt = conn[e].ref_cnt - 2,
           conn'[e].incoming_calls_cnt = conn[e].incoming_calls_cnt
    PROVE  ConnsCounted'
<1>1. EndCounted(e) /\ \A k \in CallId \ {id} : CallCountsSame(k, e)
  <2>1. \A k \in CallId \ {id} : CallStays(k)
    BY DEF CallsBut, CallStays, IsOpen
  <2> QED
    BY <2>1, CallStaysCounts, IInvParts, ConnsCountedAre
<1>2. Requests(e)' = Requests(e)
  BY <1>1 DEF CallCountsSame, Requests, IsOpen, ServedAt, SameMade, Inside
<1>3. Posted(e)' = Posted(e)
  BY <1>1 DEF CallCountsSame, Posted, IsOpen, ServedAt, SameMade, Inside
<1>4. Served(e)' = Served(e) \ {id} /\ id \in Served(e)
  BY <1>1 DEF CallCountsSame, Served, IsOpen, ServedAt, SameMade, Inside
<1>5. Incoming(e)' = Incoming(e)
  BY <1>1 DEF CallCountsSame, Incoming, IsOpen, ServedAt, SameMade, Inside
<1>6. IsFiniteSet(Served(e)') /\ Cardinality(Served(e)) \in Nat /\ Cardinality(Served(e)') = Cardinality(Served(e)) - 1
  BY <1>1, <1>4, OneLess DEF EndCounted
<1>7. Cardinality(Requests(e)) \in Nat /\ Cardinality(Posted(e)) \in Nat /\ Cardinality(Served(e)) \in Nat /\ Cardinality(Incoming(e)) \in Nat
  BY <1>1, FS_CardinalityType DEF EndCounted
<1>8. EndCounted(e)'
  BY <1>1, <1>2, <1>3, <1>4, <1>5, <1>6, <1>7 DEF EndCounted
<1>9. \A f \in Conn \ {e} : CallCountsSame(id, f)
  BY DEF CallCountsSame, Requests, Posted, Served, Incoming, IsOpen, ServedAt, SameMade, Inside
<1> QED
  BY <1>8, <1>9, IInvParts, ConnsBut1

\* The counters are above zero where they are counted down.
LEMMA CountersUp ==
    IInv => \A e \in Conn, id \in CallId :
              /\ conn[e].ref_cnt \in Nat /\ conn[e].ref_cnt >= 3
              /\ rpc[id].server = "callout" /\ ServedAt(id) = e => conn[e].incoming_calls_cnt >= 1
<1> SUFFICES ASSUME IInv, NEW e \in Conn, NEW id \in CallId
             PROVE  /\ conn[e].ref_cnt \in Nat /\ conn[e].ref_cnt >= 3
                    /\ rpc[id].server = "callout" /\ ServedAt(id) = e => conn[e].incoming_calls_cnt >= 1
  OBVIOUS
<1>1. EndCounted(e)
  BY IInvParts, ConnsCountedAre
<1>2. Cardinality(Requests(e)) \in Nat /\ Cardinality(Posted(e)) \in Nat /\ Cardinality(Served(e)) \in Nat /\ Cardinality(Incoming(e)) \in Nat
  BY <1>1, FS_CardinalityType DEF EndCounted
<1>3. conn[e].ref_cnt \in Nat /\ conn[e].ref_cnt >= 3
  BY <1>1, <1>2 DEF EndCounted
<1>4. ASSUME rpc[id].server = "callout", ServedAt(id) = e PROVE conn[e].incoming_calls_cnt >= 1
  <2>1. id \in Incoming(e)
    BY <1>4 DEF Incoming, Inside
  <2>2. Cardinality(Incoming(e)) # 0
    BY <1>1, <2>1, FS_EmptySet DEF EndCounted
  <2> QED
    BY <1>1, <1>2, <2>2 DEF EndCounted
<1> QED
  BY <1>3, <1>4

-----------------------------------------------------------------------------
(* What steps leave alone.                                                 *)

-----------------------------------------------------------------------------
\* The parts make up the invariant.
LEMMA Together ==
    ASSUME TypeOK', Calm', StacksRight', Messages', Registry', ConnsCounted' PROVE IInv'
BY DEF IInv, Messages, Registry

\* What registers a thread for call k is as it was.
CallRests(k) ==
    /\ rpc'[k].client = "acquire" <=> rpc[k].client = "acquire"
    /\ rpc[k].client \in {"add", "count"} \/ rpc'[k].client \in {"add", "count"} =>
         rpc'[k].client = rpc[k].client
    /\ rpc'[k].server \in {"running", "release"} <=> rpc[k].server \in {"running", "release"}
    /\ rpc'[k].server = "posted" <=> rpc[k].server = "posted"

\* A thread rests, if its stack, its box and what its calls are registered for do.
LEMMA StillRests ==
    ASSUME NEW u \in Thread, \A k \in CallId : CallRests(k), \A e \in Conn : EndRests(e),
           thread'[u].stack = thread[u].stack, SameId(u),
           \A k \in CallId : HasIt(u, k)' <=> HasIt(u, k)
    PROVE  Rests(u)
<1>1. Frames(u)' = Frames(u)
  BY DEF Frames
<1>2. \A k \in CallId : /\ MakesIt(u, k)' <=> MakesIt(u, k)
                        /\ AddsIt(u, k)' <=> AddsIt(u, k)
                        /\ AddsIt(u, k) => rpc'[k].client = rpc[k].client
  BY <1>1 DEF MakesIt, AddsIt, CallRests
<1>3. \A k \in CallId : ServesIt(u, k)' <=> ServesIt(u, k)
  BY <1>1 DEF ServesIt, CallRests
<1>4. \A e \in Conn : /\ GetsIt(u, e)' <=> GetsIt(u, e)
                      /\ AddsWorker(u, e)' <=> AddsWorker(u, e)
  BY DEF GetsIt, AddsWorker, EndRests
<1> QED
  BY <1>2, <1>3, <1>4 DEF Rests, SameId

\* No frame of a waiting call goes, if no frame does.
LEMMA StacksWait ==
    ASSUME \A u \in Thread : thread'[u].stack = thread[u].stack PROVE FramesWait
BY DEF FramesWait, Frames

\* Registry stays, if only calls move on, by steps that register nobody.
LEMMA OnlyCallsRegistry ==
    ASSUME IInv, TypeOK', Messages', UNCHANGED <<waiting_threads, free_workers, nworkers>>,
           \A u \in Thread : SameId(u) /\ SameBox(u) /\ thread'[u].stack = thread[u].stack,
           \A k \in CallId : CallRests(k), \A e \in Conn : EndRests(e)
    PROVE  Registry'
<1>1. \A u \in Thread : Rests(u)
  <2> SUFFICES ASSUME NEW u \in Thread PROVE Rests(u)
    OBVIOUS
  <2>1. \A k \in CallId : HasIt(u, k)' <=> HasIt(u, k)
    BY DEF HasIt, CallRests, SameBox
  <2> QED
    BY <2>1, StillRests
<1>2. ListsStay /\ UncreatedRest /\ FramesWait
  BY StacksWait DEF ListsStay, UncreatedRest, SameId, SameBox, Thread
<1>3. \A e \in Conn : TargetRests(e)
  <2> SUFFICES ASSUME NEW e \in Conn, Aims(e) PROVE conn[e].thr \in Thread
    BY DEF TargetRests, SameBox, SameId
  <2>1. TargetRight(e)
    BY IInvParts, TargetsAre
  <2> QED
    BY <2>1 DEF TargetRight, Created, Thread
<1> DEFINE T == {}
<1>4. \A x : x \notin T
  OBVIOUS
<1> HIDE DEF T
<1> QED
  BY <1>1, <1>2, <1>3, <1>4, RestRegistry

\* A call moves on, which only its thread sees.
OnlyCall(id) ==
    /\ UNCHANGED <<waiting_threads, free_workers, nworkers, thread, wire>>
    /\ \A e \in Conn : EndRests(e)

\* Messages stays, if only a call moves on that is not received by it.
LEMMA OnlyCallMessages ==
    ASSUME Messages, NEW id \in CallId, OnlyCall(id), CallsBut(id), MessageOf(id) => CallWaits(id)
    PROVE  Messages'
<1>1. MessagesStay
  <2>1. WireStays /\ FramesWait /\ \A t \in Thread : BoxStays(t)
    BY StacksWait DEF WireStays, OnlyCall, BoxStays
  <2>2. \A e \in Conn : ReaderStays(e)
    BY DEF OnlyCall, EndRests, ReaderStays, Holds
  <2>3. \A k \in CallId : MessageOf(k) => CallWaits(k)
    BY DEF CallsBut, CallWaits
  <2> QED
    BY <2>1, <2>2, <2>3 DEF MessagesStay
<1> QED
  BY <1>1, MessagesStayMessages

\* Registry stays, if only a call moves on that registers nobody.
LEMMA OnlyCallRegistry ==
    ASSUME IInv, TypeOK', Messages', NEW id \in CallId, OnlyCall(id), CallsBut(id), CallRests(id)
    PROVE  Registry'
<1>1. \A k \in CallId : CallRests(k)
  BY DEF CallsBut, CallRests
<1> QED
  BY <1>1, OnlyCallsRegistry DEF OnlyCall, SameId, SameBox

-----------------------------------------------------------------------------
(* client_call and handleCall, step by step.                               *)

\* What the invariant says of the fields of one call.
LEMMA CallFacts ==
    IInv => \A id \in CallId :
              /\ rpc[id].client # "none" =>
                   /\ rpc[id].conn \in Conn /\ ServedAt(id) \in Conn
                   /\ rpc[id].tid = Tid[id[1]] /\ rpc[id].tid \in TidValue
              /\ rpc[id].server # "none" => rpc[id].client \in {"wait", "return", "done"}
              /\ rpc[id].server \in {"reply", "sending"} => rpc[id].rtid = Tid[id[1]] /\ rpc[id].rtid \in TidValue
              /\ rpc[id].server \in {"release", "reply", "sending"} \cup Through => rpc[id].served = "Success"
              /\ rpc[id].reply \in {None, id}
              /\ rpc[id].client \in ClientPC /\ rpc[id].server \in ServerPC
<1> SUFFICES ASSUME IInv, NEW id \in CallId
             PROVE  /\ rpc[id].client # "none" =>
                         /\ rpc[id].conn \in Conn /\ ServedAt(id) \in Conn
                         /\ rpc[id].tid = Tid[id[1]] /\ rpc[id].tid \in TidValue
                    /\ rpc[id].server # "none" => rpc[id].client \in {"wait", "return", "done"}
                    /\ rpc[id].server \in {"reply", "sending"} => rpc[id].rtid = Tid[id[1]] /\ rpc[id].rtid \in TidValue
                    /\ rpc[id].server \in {"release", "reply", "sending"} \cup Through => rpc[id].served = "Success"
                    /\ rpc[id].reply \in {None, id}
                    /\ rpc[id].client \in ClientPC /\ rpc[id].server \in ServerPC
  OBVIOUS
<1>1. Tid[id[1]] \in TidValue
  BY Clients DEF TidValue
<1>2. rpc[id].client \in ClientPC /\ rpc[id].server \in ServerPC
  <2>1. rpc[id] \in RpcRec
    BY IInvParts DEF TypeOK
  <2> QED
    BY <2>1 DEF RpcRec
<1>3. EndsAgree
  BY IInvParts
<1> QED
  BY <1>1, <1>2, <1>3, OwnerFacts DEF EndsAgree, ServedAt

\* Send keeps the invariant: client_call goes on.
LEMMA SendKeeps ==
    ASSUME IInv, NEW t \in Thread, NEW id \in CallId, Send(t, id)
    PROVE  IInv' /\ ClientMoves(t, id)
<1>1. rpc[id].client = "send"
  BY DEF Send, Calling
<1>2. /\ OnTop(t, <<"client_call", id>>)
      /\ UNCHANGED <<waiting_threads, free_workers, nworkers, thread, conn, wire, aborted>>
      /\ CallAt(id, "sending", rpc[id].server)
      /\ TypeOK' /\ Calm'
  BY <1>1, SendDoes, CallFacts, IInvParts
<1>3. ClientMoves(t, id)
  BY <1>1, <1>2, CallFacts DEF ClientMoves, CallAt, StacksStay, IsOpen, SameAnswer
<1>4. OnlyCall(id) /\ CallsBut(id)
  BY <1>2 DEF OnlyCall, EndRests, CallAt
<1>5. StacksRight'
  BY <1>3, IInvParts, ClientMovesStacks
<1>6. Messages'
  BY <1>1, <1>4, IInvParts, OnlyCallMessages DEF MessageOf
<1>7. Registry'
  <2>1. CallRests(id)
    BY <1>1, <1>2 DEF CallRests, CallAt
  <2> QED
    BY <1>2, <1>4, <1>6, <2>1, OnlyCallRegistry
<1>8. ConnsCounted'
  <2>1. \A k \in CallId : CallStays(k)
    BY <1>1, <1>2 DEF CallStays, CallAt, CallsBut, SameMade, IsOpen
  <2> QED
    BY <1>2, <2>1, IInvParts, ConnsStay DEF SameCounts
<1> QED
  BY <1>2, <1>3, <1>5, <1>6, <1>7, <1>8, Together

\* EndHandler keeps the invariant: handleCall goes on.
LEMMA EndHandlerKeeps ==
    ASSUME IInv, NothingFails, NEW t \in Thread, NEW id \in CallId, EndHandler(t, id)
    PROVE  IInv' /\ ServerMoves(t, id)
<1>1. /\ OnTop(t, <<"handleCall", id>>) /\ rpc[id].server = "running"
      /\ UNCHANGED <<waiting_threads, free_workers, nworkers, thread, conn, wire, aborted>>
      /\ CallsBut(id) /\ SameMade(id)
      /\ rpc'[id].client = rpc[id].client /\ rpc'[id].server = "release"
      /\ rpc'[id].reply = rpc[id].reply /\ rpc'[id].served = "Success"
      /\ TypeOK' /\ Calm'
  BY EndHandlerDoes, IInvParts
<1>2. ServerMoves(t, id)
  BY <1>1 DEF ServerMoves, StacksStay, UsedStay, Inside, Through
<1>3. OnlyCall(id)
  BY <1>1 DEF OnlyCall, EndRests
<1>4. StacksRight'
  BY <1>2, IInvParts, ServerMovesStacks
<1>5. Messages'
  BY <1>1, <1>3, IInvParts, OnlyCallMessages DEF MessageOf
<1>6. Registry'
  <2>1. CallRests(id)
    BY <1>1 DEF CallRests
  <2> QED
    BY <1>1, <1>3, <1>5, <2>1, OnlyCallRegistry
<1>7. ConnsCounted'
  <2>1. \A k \in CallId : CallStays(k)
    BY <1>1 DEF CallStays, CallsBut, SameMade, IsOpen, Inside
  <2> QED
    BY <1>1, <2>1, IInvParts, ConnsStay DEF SameCounts
<1> QED
  BY <1>1, <1>2, <1>4, <1>5, <1>6, <1>7, Together

\* Reply keeps the invariant: handleCall goes on.
LEMMA ReplyKeeps ==
    ASSUME IInv, NEW t \in Thread, NEW id \in CallId, Reply(t, id)
    PROVE  IInv' /\ ServerMoves(t, id)
<1>1. rpc[id].server = "reply"
  BY DEF Reply, Serving
<1>2. /\ rpc[id].client # "none" /\ ServedAt(id) \in Conn /\ rpc[id].rtid = Tid[id[1]]
      /\ rpc[id].served = "Success"
  BY <1>1, CallFacts
<1>3. /\ OnTop(t, <<"handleCall", id>>)
      /\ UNCHANGED <<waiting_threads, free_workers, nworkers, thread, conn, wire, aborted>>
      /\ CallAt(id, rpc[id].client, "sending")
      /\ TypeOK' /\ Calm'
  BY <1>2, ReplyDoes, IInvParts
<1>4. ServerMoves(t, id)
  BY <1>1, <1>2, <1>3 DEF ServerMoves, CallAt, SameAnswer, StacksStay, UsedStay, Inside, Through
<1>5. OnlyCall(id) /\ CallsBut(id)
  BY <1>3 DEF OnlyCall, EndRests, CallAt
<1>6. StacksRight'
  BY <1>4, IInvParts, ServerMovesStacks
<1>7. Messages'
  BY <1>1, <1>5, IInvParts, OnlyCallMessages DEF MessageOf
<1>8. Registry'
  <2>1. CallRests(id)
    BY <1>1, <1>3 DEF CallRests, CallAt
  <2> QED
    BY <1>3, <1>5, <1>7, <2>1, OnlyCallRegistry
<1>9. ConnsCounted'
  <2>1. \A k \in CallId : CallStays(k)
    BY <1>1, <1>3 DEF CallStays, CallAt, CallsBut, SameMade, IsOpen, Inside
  <2> QED
    BY <1>3, <2>1, IInvParts, ConnsStay DEF SameCounts
<1> QED
  BY <1>3, <1>4, <1>6, <1>7, <1>8, <1>9, Together

\* CallOut keeps the invariant: handleCall goes on.
LEMMA CallOutKeeps ==
    ASSUME IInv, NEW t \in Thread, NEW id \in CallId, CallOut(t, id)
    PROVE  IInv' /\ ServerMoves(t, id)
<1>1. rpc[id].server = "callout"
  BY DEF CallOut, Serving
<1>2. PICK e \in Conn : e = ServedAt(id)
  BY <1>1, CallFacts
<1>3. rpc[id].served = "Success" /\ conn[e].incoming_calls_cnt >= 1
  BY <1>1, <1>2, CallFacts, CountersUp DEF Through
<1>4. /\ OnTop(t, <<"handleCall", id>>)
      /\ UNCHANGED <<waiting_threads, free_workers, nworkers, thread, wire, aborted>>
      /\ \E pc \in {"cleanup", "leave"} : CallAt(id, rpc[id].client, pc)
      /\ ConnsBut(e) /\ SameReader(e)
      /\ conn'[e].ref_cnt = conn[e].ref_cnt
      /\ conn'[e].incoming_calls_cnt = conn[e].incoming_calls_cnt - 1
      /\ TypeOK' /\ Calm'
  BY <1>2, <1>3, CallOutDoes, IInvParts
<1>5. PICK pc \in {"cleanup", "leave"} : CallAt(id, rpc[id].client, pc)
  BY <1>4
<1>6. ServerMoves(t, id)
  BY <1>1, <1>3, <1>4, <1>5 DEF ServerMoves, CallAt, SameAnswer, StacksStay, UsedStay, Inside, Through
<1>7. OnlyCall(id) /\ CallsBut(id)
  BY <1>4, <1>5 DEF OnlyCall, EndRests, CallAt, ConnsBut, SameReader
<1>8. StacksRight'
  BY <1>6, IInvParts, ServerMovesStacks
<1>9. Messages'
  <2>1. CallWaits(id)
    BY <1>1, <1>5 DEF CallWaits, CallAt, SameMade, Through
  <2> QED
    BY <1>7, <2>1, IInvParts, OnlyCallMessages
<1>10. Registry'
  <2>1. CallRests(id)
    BY <1>1, <1>5 DEF CallRests, CallAt
  <2> QED
    BY <1>4, <1>7, <1>9, <2>1, OnlyCallRegistry
<1>11. ConnsCounted'
  BY <1>1, <1>2, <1>4, <1>5, <1>7, CallOutCounts DEF CallAt
<1> QED
  BY <1>4, <1>6, <1>8, <1>9, <1>10, <1>11, Together

\* CallOutCleanup keeps the invariant: handleCall goes on.
LEMMA CallOutCleanupKeeps ==
    ASSUME IInv, NEW t \in Thread, NEW id \in CallId, CallOutCleanup(t, id)
    PROVE  IInv' /\ ServerMoves(t, id)
<1>1. rpc[id].server = "cleanup"
  BY DEF CallOutCleanup, Serving
<1>2. ServedAt(id) \in Conn /\ rpc[id].served = "Success"
  BY <1>1, CallFacts DEF Through
<1>3. /\ OnTop(t, <<"handleCall", id>>)
      /\ UNCHANGED <<waiting_threads, free_workers, nworkers, thread, conn, wire, aborted>>
      /\ CallAt(id, rpc[id].client, "leave")
      /\ TypeOK' /\ Calm'
  BY <1>2, CallOutCleanupDoes, IInvParts
<1>4. ServerMoves(t, id)
  BY <1>1, <1>2, <1>3 DEF ServerMoves, CallAt, SameAnswer, StacksStay, UsedStay, Inside, Through
<1>5. OnlyCall(id) /\ CallsBut(id)
  BY <1>3 DEF OnlyCall, EndRests, CallAt
<1>6. StacksRight'
  BY <1>4, IInvParts, ServerMovesStacks
<1>7. Messages'
  <2>1. CallWaits(id)
    BY <1>1, <1>3 DEF CallWaits, CallAt, SameMade, Through
  <2> QED
    BY <1>5, <2>1, IInvParts, OnlyCallMessages
<1>8. Registry'
  <2>1. CallRests(id)
    BY <1>1, <1>3 DEF CallRests, CallAt
  <2> QED
    BY <1>3, <1>5, <1>7, <2>1, OnlyCallRegistry
<1>9. ConnsCounted'
  <2>1. \A k \in CallId : CallStays(k)
    BY <1>1, <1>3 DEF CallStays, CallAt, CallsBut, SameMade, IsOpen, Inside
  <2> QED
    BY <1>3, <2>1, IInvParts, ConnsStay DEF SameCounts
<1> QED
  BY <1>3, <1>4, <1>6, <1>7, <1>8, <1>9, Together

\* Whose call, or whose handler, is on top of a stack.
LEMMA TopPlaced ==
    IInv => \A t \in Thread, id \in CallId :
              /\ OnTop(t, <<"client_call", id>>) =>
                   /\ IsOpen(id) /\ rpc[id].conn \in Conn /\ Owner[rpc[id].conn] = Process(t)
                   /\ thread[t].original_tid = Tid[id[1]] /\ <<"client_call", id>> \in Frames(t)
              /\ OnTop(t, <<"handleCall", id>>) =>
                   /\ rpc[id].server \in Inside /\ Owner[ServedAt(id)] = Process(t)
                   /\ rpc[id].server \in {"running", "release"} => thread[t].original_tid = Tid[id[1]]
                   /\ <<"handleCall", id>> \in Frames(t)
<1> SUFFICES ASSUME IInv, NEW t \in Thread, NEW id \in CallId
             PROVE  /\ OnTop(t, <<"client_call", id>>) =>
                         /\ IsOpen(id) /\ rpc[id].conn \in Conn /\ Owner[rpc[id].conn] = Process(t)
                         /\ thread[t].original_tid = Tid[id[1]] /\ <<"client_call", id>> \in Frames(t)
                    /\ OnTop(t, <<"handleCall", id>>) =>
                         /\ rpc[id].server \in Inside /\ Owner[ServedAt(id)] = Process(t)
                         /\ rpc[id].server \in {"running", "release"} => thread[t].original_tid = Tid[id[1]]
                         /\ <<"handleCall", id>> \in Frames(t)
  OBVIOUS
<1>1. PICK n : n = Len(thread[t].stack)
  OBVIOUS
<1>2. ASSUME NEW f, OnTop(t, f) PROVE n \in 1..Len(thread[t].stack) /\ thread[t].stack[n] = f
  BY <1>1, <1>2, IInvParts DEF OnTop, StacksTyped
<1>3. ASSUME OnTop(t, <<"client_call", id>>)
      PROVE  /\ IsOpen(id) /\ rpc[id].conn \in Conn /\ Owner[rpc[id].conn] = Process(t)
             /\ thread[t].original_tid = Tid[id[1]] /\ <<"client_call", id>> \in Frames(t)
  <2>1. n \in 1..Len(thread[t].stack) /\ thread[t].stack[n] = <<"client_call", id>>
    BY <1>2, <1>3
  <2>2. IsOpen(id) /\ Owner[rpc[id].conn] = Process(t)
    BY <2>1, IInvParts DEF FramesPlaced
  <2>3. thread[t].original_tid = Tid[id[1]]
    BY <2>1, IInvParts DEF FramesOwned, Live
  <2>4. <<"client_call", id>> \in Frames(t)
    BY <2>1, IInvParts, IsFrame DEF FramesTyped
  <2> QED
    BY <2>2, <2>3, <2>4, CallFacts DEF IsOpen
<1>4. ASSUME OnTop(t, <<"handleCall", id>>)
      PROVE  /\ rpc[id].server \in Inside /\ Owner[ServedAt(id)] = Process(t)
             /\ rpc[id].server \in {"running", "release"} => thread[t].original_tid = Tid[id[1]]
             /\ <<"handleCall", id>> \in Frames(t)
  <2>1. n \in 1..Len(thread[t].stack) /\ thread[t].stack[n] = <<"handleCall", id>>
    BY <1>2, <1>4
  <2>2. rpc[id].server \in Inside /\ Owner[ServedAt(id)] = Process(t)
    BY <2>1, IInvParts DEF FramesPlaced
  <2>3. rpc[id].server \in {"running", "release"} => thread[t].original_tid = Tid[id[1]]
    BY <2>1, IInvParts DEF FramesOwned, Live
  <2>4. <<"handleCall", id>> \in Frames(t)
    BY <2>1, IInvParts, IsFrame DEF FramesTyped
  <2> QED
    BY <2>2, <2>3, <2>4
<1> QED
  BY <1>3, <1>4

\* What is on a wire is a list of messages.
LEMMA QueueTypes == TypeOK => \A e \in Conn : wire[e].queue \in Seq(Msg)
<1> SUFFICES ASSUME TypeOK, NEW e \in Conn PROVE wire[e].queue \in Seq(Msg)
  OBVIOUS
<1>1. wire[e] \in WireRec
  BY DEF TypeOK
<1> QED
  BY <1>1 DEF WireRec

\* Write keeps the invariant: client_call goes on.
LEMMA WriteKeeps ==
    ASSUME IInv, NEW t \in Thread, NEW id \in CallId, Write(t, id)
    PROVE  IInv' /\ ClientMoves(t, id)
<1>1. rpc[id].client = "sending" /\ rpc[id].server = "none"
  BY CallFacts DEF Write, Calling
<1>2. PICK e \in Conn : e = rpc[id].conn
  BY <1>1, CallFacts
<1>3. rpc[id].tid = Tid[id[1]] /\ rpc[id].tid \in TidValue
  BY <1>1, CallFacts
<1>4. PICK m : m = [cmd |-> "CmdCall", tid |-> rpc[id].tid, id |-> id]
  OBVIOUS
<1>5. /\ OnTop(t, <<"client_call", id>>)
      /\ UNCHANGED <<waiting_threads, free_workers, nworkers, conn, aborted>>
      /\ CallAt(id, "wait", rpc[id].server)
      /\ ThreadsBut(t) /\ SameId(t) /\ SameBox(t)
      /\ thread'[t].used_connection = e /\ thread'[t].stack = thread[t].stack
      /\ m \in Msg
      /\ wire'[Peer[e]].queue = Append(wire[Peer[e]].queue, m)
      /\ \A f \in Conn \ {Peer[e]} : wire'[f].queue = wire[f].queue
      /\ TypeOK' /\ Calm'
  BY <1>2, <1>3, <1>4, WriteDoes, IInvParts
<1>6. \A u \in Thread : SameId(u) /\ SameBox(u) /\ thread'[u].stack = thread[u].stack
  BY <1>5 DEF ThreadsBut, SameId, SameBox
<1>7. ClientMoves(t, id)
  <2>1. Owner[e] = Process(t)
    BY <1>2, <1>5, TopPlaced
  <2>2. StacksStay
    BY <1>6 DEF StacksStay, SameId
  <2> QED
    BY <1>1, <1>5, <2>1, <2>2, CallFacts DEF ClientMoves, CallAt, IsOpen, SameAnswer, ThreadsBut
<1>8. StacksRight'
  BY <1>7, IInvParts, ClientMovesStacks
<1>9. Messages'
  <2>1. /\ Len(wire[Peer[e]].queue) \in Nat
        /\ Len(wire'[Peer[e]].queue) = Len(wire[Peer[e]].queue) + 1
        /\ wire'[Peer[e]].queue[Len(wire[Peer[e]].queue) + 1] = m
        /\ \A i \in 1..Len(wire[Peer[e]].queue) : wire'[Peer[e]].queue[i] = wire[Peer[e]].queue[i]
    BY <1>5, AppendFacts, QueueTypes, IInvParts, OwnerFacts
  <2>2. m.id = id /\ m.cmd = "CmdCall" /\ m.tid = Tid[id[1]]
    BY <1>3, <1>4
  <2>3. /\ rpc'[id].client = "wait" /\ rpc'[id].server = "none" /\ rpc'[id].conn = e
    BY <1>1, <1>2, <1>5 DEF CallAt, SameMade
  <2>4. Fits(m, Peer[e])'
    BY <1>5, <2>2, <2>3 DEF Fits, ServedAt
  <2>5. FramesWait
    BY <1>6, StacksWait
  <2>6. \A u \in Thread : BoxStays(u)
    BY <1>6 DEF BoxStays, SameId, SameBox
  <2>7. \A k \in CallId \ {id} : CallWaits(k)
    BY <1>5 DEF CallAt, CallsBut, CallWaits
  <2>8. ~MessageOf(id)
    BY <1>1 DEF MessageOf
  <2>9. MessageSent(id, Peer[e], m)
    BY <1>5, <2>1, <2>2, <2>4, <2>5, <2>6, <2>7, <2>8 DEF MessageSent
  <2> QED
    BY <2>9, IInvParts, OwnerFacts, MessageSentMessages
<1>10. Registry'
  <2>1. \A k \in CallId : CallRests(k)
    BY <1>1, <1>5 DEF CallAt, CallsBut, CallRests
  <2>2. \A f \in Conn : EndRests(f)
    BY <1>5 DEF EndRests
  <2> QED
    BY <1>5, <1>6, <1>9, <2>1, <2>2, OnlyCallsRegistry
<1>11. ConnsCounted'
  <2>1. \A k \in CallId : CallStays(k)
    BY <1>1, <1>5 DEF CallStays, CallAt, CallsBut, SameMade, IsOpen, Inside
  <2> QED
    BY <1>5, <2>1, IInvParts, ConnsStay DEF SameCounts
<1> QED
  BY <1>5, <1>7, <1>8, <1>9, <1>10, <1>11, Together

\* WriteReply keeps the invariant: handleCall goes on.
LEMMA WriteReplyKeeps ==
    ASSUME IInv, NEW t \in Thread, NEW id \in CallId, WriteReply(t, id)
    PROVE  IInv' /\ ServerMoves(t, id)
<1>1. rpc[id].server = "sending"
  BY DEF WriteReply, Serving
<1>2. PICK e \in Conn : e = rpc[id].conn
  BY <1>1, CallFacts
<1>3. rpc[id].rtid = Tid[id[1]] /\ rpc[id].rtid \in TidValue /\ rpc[id].served = "Success"
  BY <1>1, CallFacts
<1>4. PICK m : m = [cmd |-> "CmdReturn", tid |-> rpc[id].rtid, id |-> id]
  OBVIOUS
<1>5. /\ OnTop(t, <<"handleCall", id>>)
      /\ UNCHANGED <<waiting_threads, free_workers, nworkers, thread, conn, aborted>>
      /\ CallAt(id, rpc[id].client, "callout")
      /\ m \in Msg
      /\ wire'[e].queue = Append(wire[e].queue, m)
      /\ \A f \in Conn \ {e} : wire'[f].queue = wire[f].queue
      /\ TypeOK' /\ Calm'
  BY <1>2, <1>3, <1>4, WriteReplyDoes, IInvParts
<1>6. \A u \in Thread : SameId(u) /\ SameBox(u) /\ thread'[u].stack = thread[u].stack
  BY <1>5 DEF SameId, SameBox
<1>7. ServerMoves(t, id)
  BY <1>1, <1>3, <1>5 DEF ServerMoves, CallAt, SameAnswer, StacksStay, UsedStay, Inside, Through
<1>8. StacksRight'
  BY <1>7, IInvParts, ServerMovesStacks
<1>9. Messages'
  <2>1. /\ Len(wire[e].queue) \in Nat
        /\ Len(wire'[e].queue) = Len(wire[e].queue) + 1
        /\ wire'[e].queue[Len(wire[e].queue) + 1] = m
        /\ \A i \in 1..Len(wire[e].queue) : wire'[e].queue[i] = wire[e].queue[i]
    BY <1>5, AppendFacts, QueueTypes, IInvParts
  <2>2. m.id = id /\ m.cmd = "CmdReturn" /\ m.tid = Tid[id[1]]
    BY <1>3, <1>4
  <2>3. rpc'[id].server = "callout" /\ rpc'[id].conn = e /\ rpc'[id].client = rpc[id].client
    BY <1>2, <1>5 DEF CallAt, SameMade
  <2>4. rpc[id].client = "wait"
    <3>1. EndsAgree
      BY IInvParts
    <3> QED
      BY <1>1, <3>1, CallFacts DEF EndsAgree, Through
  <2>5. Fits(m, e)'
    BY <1>5, <2>2, <2>3, <2>4 DEF Fits, Through
  <2>6. FramesWait
    BY <1>6, StacksWait
  <2>7. \A u \in Thread : BoxStays(u)
    BY <1>6 DEF BoxStays, SameId, SameBox
  <2>8. \A k \in CallId \ {id} : CallWaits(k)
    BY <1>5 DEF CallAt, CallsBut, CallWaits
  <2>9. ~MessageOf(id)
    BY <1>1 DEF MessageOf
  <2>10. MessageSent(id, e, m)
    BY <1>5, <2>1, <2>2, <2>5, <2>6, <2>7, <2>8, <2>9 DEF MessageSent
  <2> QED
    BY <2>10, IInvParts, MessageSentMessages
<1>10. Registry'
  <2>1. \A k \in CallId : CallRests(k)
    BY <1>1, <1>5 DEF CallAt, CallsBut, CallRests
  <2>2. \A f \in Conn : EndRests(f)
    BY <1>5 DEF EndRests
  <2> QED
    BY <1>5, <1>6, <1>9, <2>1, <2>2, OnlyCallsRegistry
<1>11. ConnsCounted'
  <2>1. \A k \in CallId : CallStays(k)
    BY <1>1, <1>5 DEF CallStays, CallAt, CallsBut, SameMade, IsOpen, Inside
  <2> QED
    BY <1>5, <2>1, IInvParts, ConnsStay DEF SameCounts
<1> QED
  BY <1>5, <1>7, <1>8, <1>9, <1>10, <1>11, Together

-----------------------------------------------------------------------------
(* Steps that change whom a thread is registered for.                      *)

\* Messages where no box and no reader moves.
LEMMA BoxesRestMessages ==
    ASSUME Messages, WireStays, \A e \in Conn : EndRests(e),
           \A u \in Thread : /\ SameBox(u) /\ thread'[u].stack = thread[u].stack
                             /\ thread'[u].original_tid = thread[u].original_tid,
           \A k \in CallId : MessageOf(k) => CallWaits(k)
    PROVE  Messages'
<1>1. MessagesStay
  <2>1. FramesWait /\ \A t \in Thread : BoxStays(t)
    BY StacksWait DEF BoxStays, SameBox
  <2>2. \A e \in Conn : ReaderStays(e)
    BY DEF EndRests, ReaderStays, Holds
  <2> QED
    BY <2>1, <2>2 DEF MessagesStay
<1> QED
  BY <1>1, MessagesStayMessages

\* Where a frame on top of a stack is not.
LEMMA TopNotElsewhere ==
    IInv => \A t, u \in Thread, id \in CallId :
              /\ OnTop(t, <<"client_call", id>>) /\ <<"client_call", id>> \in Frames(u) => u = t
              /\ OnTop(t, <<"handleCall", id>>) /\ <<"handleCall", id>> \in Frames(u) => u = t
<1> SUFFICES ASSUME IInv, NEW t \in Thread, NEW u \in Thread, NEW id \in CallId
             PROVE  /\ OnTop(t, <<"client_call", id>>) /\ <<"client_call", id>> \in Frames(u) => u = t
                    /\ OnTop(t, <<"handleCall", id>>) /\ <<"handleCall", id>> \in Frames(u) => u = t
  OBVIOUS
<1>1. ASSUME NEW f \in Frame, OnTop(t, f), f \in Frames(u) PROVE u = t
  <2>1. PICK i \in 1..Len(thread[u].stack) : thread[u].stack[i] = f
    BY <1>1, IInvParts DEF FramesTyped
  <2> QED
    BY <1>1, <2>1, IInvParts, TopIsOnly
<1> QED
  BY <1>1, IsFrame

\* The other threads, while t moves its client_call of id on.
LEMMA ClientOthersRest ==
    ASSUME IInv, NEW t \in Thread, NEW id \in CallId, OnTop(t, <<"client_call", id>>),
           CallsBut(id), rpc'[id].server = rpc[id].server, \A e \in Conn : EndRests(e),
           NEW u \in Thread, u # t, thread'[u].stack = thread[u].stack, SameId(u), SameBox(u)
    PROVE  Rests(u)
<1>1. Frames(u)' = Frames(u) /\ <<"client_call", id>> \notin Frames(u)
  BY TopNotElsewhere DEF Frames
<1>2. \A k \in CallId : k = id \/ rpc'[k] = rpc[k]
  BY DEF CallsBut
<1>3. \A k \in CallId : /\ MakesIt(u, k)' <=> MakesIt(u, k)
                        /\ AddsIt(u, k)' <=> AddsIt(u, k)
                        /\ AddsIt(u, k) => rpc'[k].client = rpc[k].client
  BY <1>1, <1>2 DEF MakesIt, AddsIt
<1>4. \A k \in CallId : ServesIt(u, k)' <=> ServesIt(u, k)
  BY <1>1, <1>2 DEF ServesIt
<1>5. \A k \in CallId : HasIt(u, k)' <=> HasIt(u, k)
  BY <1>2 DEF HasIt, SameBox
<1>6. \A e \in Conn : /\ GetsIt(u, e)' <=> GetsIt(u, e)
                      /\ AddsWorker(u, e)' <=> AddsWorker(u, e)
  BY DEF GetsIt, AddsWorker, EndRests
<1> QED
  BY <1>3, <1>4, <1>5, <1>6 DEF Rests, SameId

\* The thread of a call that is being added.
LEMMA AddingFacts ==
    IInv => \A t \in Thread, id \in CallId : AddsIt(t, id) =>
              /\ Registrations(t) = {<<"client_call", id>>}
              /\ rpc[id].client = "add" => NobodyWaits(Process(t), Tid[id[1]])
              /\ rpc[id].client = "count" => t \in Waiting(Process(t))
              /\ \A k \in CallId : AddsIt(t, k) => k = id
              /\ \A e \in Conn : conn[e].reader \in {"add", "count"} => conn[e].thr # t
              /\ t \in Client /\ t = id[1]
<1> SUFFICES ASSUME IInv, NEW t \in Thread, NEW id \in CallId, AddsIt(t, id)
             PROVE  /\ Registrations(t) = {<<"client_call", id>>}
                    /\ rpc[id].client = "add" => NobodyWaits(Process(t), Tid[id[1]])
                    /\ rpc[id].client = "count" => t \in Waiting(Process(t))
                    /\ \A k \in CallId : AddsIt(t, k) => k = id
                    /\ \A e \in Conn : conn[e].reader \in {"add", "count"} => conn[e].thr # t
                    /\ t \in Client /\ t = id[1]
  OBVIOUS
<1>1. CalledRight(t)
  BY IInvParts, JustCalledAre
<1>2. \A k \in CallId : AddsIt(t, k) => Registrations(t) = {<<"client_call", k>>}
  BY <1>1 DEF CalledRight
<1>3. \A k \in CallId : AddsIt(t, k) => k = id
  <2> SUFFICES ASSUME NEW k \in CallId, AddsIt(t, k) PROVE k = id
    OBVIOUS
  <2>1. <<"client_call", k>> \in {<<"client_call", id>>}
    BY <1>2
  <2> QED
    BY <2>1
<1>4. ASSUME NEW e \in Conn, conn[e].reader \in {"add", "count"} PROVE conn[e].thr # t
  <2>1. TargetRight(e)
    BY IInvParts, TargetsAre
  <2> QED
    BY <1>2, <1>4, <2>1 DEF TargetRight
<1>5. t \in Client /\ t = id[1]
  <2>1. <<"client_call", id>> \in Frames(t)
    BY DEF AddsIt
  <2>2. ASSUME NEW l \in CallId, ServesIt(t, l) PROVE FALSE
    <3>1. <<"handleCall", l>> \in Registrations(t)
      BY <2>2, IInvParts, RegistrationFacts DEF RegistrationsAre
    <3> QED
      BY <1>2, <3>1
  <2> QED
    BY <2>1, <2>2, BelowCall
<1> QED
  BY <1>1, <1>2, <1>3, <1>4, <1>5 DEF CalledRight

\* CountFirst keeps the invariant: client_call goes on.
LEMMA CountFirstKeeps ==
    ASSUME IInv, NEW t \in Thread, NEW id \in CallId, CountFirst(t, id)
    PROVE  IInv' /\ ClientMoves(t, id)
<1>1. /\ OnTop(t, <<"client_call", id>>) /\ rpc[id].client = "count"
      /\ UNCHANGED <<waiting_threads, free_workers, nworkers, conn, wire, aborted>>
      /\ CallAt(id, "send", rpc[id].server)
      /\ ThreadsBut(t) /\ SameBox(t) /\ SameRun(t)
      /\ thread'[t].recursion_count = 1
      /\ thread'[t].original_tid = thread[t].original_tid
      /\ TypeOK' /\ Calm'
  BY CountFirstDoes, IInvParts
<1>2. \A u \in Thread : /\ thread'[u].stack = thread[u].stack /\ SameBox(u)
                        /\ thread'[u].original_tid = thread[u].original_tid
                        /\ u # t => SameId(u)
                        /\ thread'[u].used_connection = thread[u].used_connection
  BY <1>1 DEF ThreadsBut, SameBox, SameRun, SameId
<1>3. ClientMoves(t, id)
  BY <1>1, <1>2, CallFacts DEF ClientMoves, CallAt, StacksStay, IsOpen, SameAnswer
<1>4. StacksRight'
  BY <1>3, IInvParts, ClientMovesStacks
<1>5. WireStays /\ \A e \in Conn : EndRests(e)
  BY <1>1 DEF WireStays, EndRests
<1>6. Messages'
  <2>1. \A k \in CallId : MessageOf(k) => CallWaits(k)
    BY <1>1 DEF MessageOf, CallWaits, CallAt, CallsBut
  <2> QED
    BY <1>2, <1>5, <2>1, IInvParts, BoxesRestMessages
<1>7. AddsIt(t, id)
  BY <1>1, TopPlaced DEF AddsIt
<1>8. /\ Registrations(t) = {<<"client_call", id>>} /\ t \in Waiting(Process(t))
      /\ \A k \in CallId : AddsIt(t, k) => k = id
      /\ \A e \in Conn : conn[e].reader \in {"add", "count"} => conn[e].thr # t
  BY <1>1, <1>7, AddingFacts
<1>9. Registry'
  <2>1. \A u \in Thread : u \notin {t} => Rests(u)
    BY <1>1, <1>2, <1>5, ClientOthersRest DEF CallAt
  <2>2. Frames(t)' = Frames(t)
    BY <1>2 DEF Frames
  <2>3. Registrations(t)' = {<<"client_call", id>>}
    <3>1. \A k \in CallId : /\ MakesIt(t, k)' <=> MakesIt(t, k)
                            /\ ServesIt(t, k)' <=> ServesIt(t, k)
                            /\ HasIt(t, k)' <=> HasIt(t, k)
      BY <1>1, <2>2 DEF CallAt, CallsBut, MakesIt, ServesIt, HasIt, SameBox
    <3>2. \A e \in Conn : GetsIt(t, e)' <=> GetsIt(t, e)
      BY <1>1 DEF GetsIt
    <3> QED
      BY <1>1, <1>8, <3>1, <3>2, IInvParts, RegistrationsSame
  <2>4. ListsStay /\ UncreatedRest /\ FramesWait
    BY <1>1, <1>2, StacksWait DEF ListsStay, UncreatedRest, SameBox, Thread
  <2>5. ThreadCounted(t)'
    <3>1. (t \in Waiting(Process(t)))'
      BY <1>1, <1>8 DEF Waiting, Process
    <3>2. IsFiniteSet({<<"client_call", id>>}) /\ Cardinality({<<"client_call", id>>}) = 1
      BY FS_Singleton
    <3> QED
      BY <1>1, <2>3, <3>1, <3>2 DEF ThreadCounted
  <2>6. CalledRight(t)'
    <3>1. \A k \in CallId : ~AddsIt(t, k)'
      BY <1>1, <1>8, <2>2 DEF AddsIt, CallAt, CallsBut
    <3> QED
      BY <3>1 DEF CalledRight
  <2>7. \A e \in Conn : TargetRests(e)
    <3> SUFFICES ASSUME NEW e \in Conn, Aims(e) PROVE conn[e].thr \in Thread
      BY <1>2 DEF TargetRests, SameBox
    <3>1. TargetRight(e)
      BY IInvParts, TargetsAre
    <3> QED
      BY <3>1 DEF TargetRight, Created, Thread
  <2> DEFINE E == {}
  <2>8. \A x : x \notin E
    OBVIOUS
  <2> HIDE DEF E
  <2> QED
    BY <1>1, <1>5, <1>6, <1>8, <2>1, <2>4, <2>5, <2>6, <2>7, <2>8, RestRegistry, ZenonT(60)
<1>10. ConnsCounted'
  <2>1. \A k \in CallId : CallStays(k)
    BY <1>1 DEF CallStays, CallAt, CallsBut, SameMade, IsOpen
  <2> QED
    BY <1>1, <2>1, IInvParts, ConnsStay DEF SameCounts
<1> QED
  BY <1>1, <1>3, <1>4, <1>6, <1>9, <1>10, Together

-----------------------------------------------------------------------------
(* What a thread is registered for after a step.                           *)

IsRegistration(x) ==
    \/ \E k \in CallId : x = <<"client_call", k>> \/ x = <<"handleCall", k>> \/ x = <<"posted", k>>
    \/ \E e \in Conn : x = <<"reader", e>>

\* Registrations(t) after a step, one by one.
LEMMA RegistrationsTo ==
    ASSUME TypeOK', NEW u \in Thread, NEW R, \A x \in R : IsRegistration(x),
           \A k \in CallId : /\ MakesIt(u, k)' <=> <<"client_call", k>> \in R
                             /\ ServesIt(u, k)' <=> <<"handleCall", k>> \in R
                             /\ HasIt(u, k)' <=> <<"posted", k>> \in R,
           \A e \in Conn : GetsIt(u, e)' <=> <<"reader", e>> \in R
    PROVE  Registrations(u)' = R
<1> DEFINE Q == Registrations(u)'
<1>1. /\ \A k \in CallId : <<"client_call", k>> \in Q <=> <<"client_call", k>> \in R
      /\ \A k \in CallId : <<"handleCall", k>> \in Q <=> <<"handleCall", k>> \in R
      /\ \A k \in CallId : <<"posted", k>> \in Q <=> <<"posted", k>> \in R
      /\ \A e \in Conn : <<"reader", e>> \in Q <=> <<"reader", e>> \in R
  <2>1. \A k \in CallId : <<"client_call", k>> \in Q <=> <<"client_call", k>> \in R
    BY RegistrationFactsNext DEF RegistrationsAre
  <2>2. \A k \in CallId : <<"handleCall", k>> \in Q <=> <<"handleCall", k>> \in R
    BY RegistrationFactsNext DEF RegistrationsAre
  <2>3. \A k \in CallId : <<"posted", k>> \in Q <=> <<"posted", k>> \in R
    BY RegistrationFactsNext DEF RegistrationsAre
  <2>4. \A e \in Conn : <<"reader", e>> \in Q <=> <<"reader", e>> \in R
    BY RegistrationFactsNext DEF RegistrationsAre
  <2> QED
    BY <2>1, <2>2, <2>3, <2>4
<1>2. \A x \in Q : IsRegistration(x)
  BY RegistrationFactsNext DEF RegistrationsAre, IsRegistration
<1> HIDE DEF Q
<1>3. \A x \in R : x \in Q
  BY <1>1 DEF IsRegistration
<1>4. \A x \in Q : x \in R
  BY <1>1, <1>2 DEF IsRegistration
<1>5. Q = R
  BY <1>3, <1>4
<1> QED
  BY <1>5 DEF Q

\* With one more, and with one less.
LEMMA RegistrationsGain ==
    ASSUME TypeOK, TypeOK', NEW u \in Thread, NEW x, IsRegistration(x),
           \A k \in CallId : /\ MakesIt(u, k)' <=> (MakesIt(u, k) \/ x = <<"client_call", k>>)
                             /\ ServesIt(u, k)' <=> (ServesIt(u, k) \/ x = <<"handleCall", k>>)
                             /\ HasIt(u, k)' <=> (HasIt(u, k) \/ x = <<"posted", k>>),
           \A e \in Conn : GetsIt(u, e)' <=> (GetsIt(u, e) \/ x = <<"reader", e>>)
    PROVE  Registrations(u)' = Registrations(u) \cup {x}
<1> DEFINE R == Registrations(u) \cup {x}
<1>1. \A k \in CallId : /\ <<"client_call", k>> \in R <=> (MakesIt(u, k) \/ x = <<"client_call", k>>)
                        /\ <<"handleCall", k>> \in R <=> (ServesIt(u, k) \/ x = <<"handleCall", k>>)
                        /\ <<"posted", k>> \in R <=> (HasIt(u, k) \/ x = <<"posted", k>>)
  BY RegistrationFacts DEF RegistrationsAre
<1>2. \A e \in Conn : <<"reader", e>> \in R <=> (GetsIt(u, e) \/ x = <<"reader", e>>)
  BY RegistrationFacts DEF RegistrationsAre
<1>3. \A y \in R : IsRegistration(y)
  BY RegistrationFacts DEF RegistrationsAre, IsRegistration
<1> HIDE DEF R
<1>4. Registrations(u)' = R
  BY <1>1, <1>2, <1>3, RegistrationsTo
<1> QED
  BY <1>4 DEF R

\* Registrations(t) after a step that takes x away, one by one.
LEMMA RegistrationsLose ==
    ASSUME TypeOK, TypeOK', NEW u \in Thread, NEW x,
           \A k \in CallId : /\ MakesIt(u, k)' <=> (MakesIt(u, k) /\ x # <<"client_call", k>>)
                             /\ ServesIt(u, k)' <=> (ServesIt(u, k) /\ x # <<"handleCall", k>>)
                             /\ HasIt(u, k)' <=> (HasIt(u, k) /\ x # <<"posted", k>>),
           \A e \in Conn : GetsIt(u, e)' <=> (GetsIt(u, e) /\ x # <<"reader", e>>)
    PROVE  Registrations(u)' = Registrations(u) \ {x}
<1> DEFINE R == Registrations(u) \ {x}
<1>1. \A k \in CallId : /\ <<"client_call", k>> \in R <=> (MakesIt(u, k) /\ x # <<"client_call", k>>)
                        /\ <<"handleCall", k>> \in R <=> (ServesIt(u, k) /\ x # <<"handleCall", k>>)
                        /\ <<"posted", k>> \in R <=> (HasIt(u, k) /\ x # <<"posted", k>>)
  BY RegistrationFacts DEF RegistrationsAre
<1>2. \A e \in Conn : <<"reader", e>> \in R <=> (GetsIt(u, e) /\ x # <<"reader", e>>)
  BY RegistrationFacts DEF RegistrationsAre
<1>3. \A y \in R : IsRegistration(y)
  BY RegistrationFacts DEF RegistrationsAre, IsRegistration
<1> HIDE DEF R
<1>4. Registrations(u)' = R
  BY <1>1, <1>2, <1>3, RegistrationsTo
<1> QED
  BY <1>4 DEF R

-----------------------------------------------------------------------------
(* A call is registered.                                                   *)

\* Who is found when a call is about to be registered.
LEMMA AcquirerFacts ==
    IInv => \A t \in Thread, id \in CallId :
      OnTop(t, <<"client_call", id>>) /\ rpc[id].client = "acquire" =>
        LET w == findWaitingThread(Process(t), Tid[id[1]]) IN
        /\ ~JustAdded(t)
        /\ \A k \in CallId : ~AddsIt(t, k)
        /\ \A e \in Conn : ~AddsWorker(t, e)
        /\ w # None => w = t /\ t \in Waiting(Process(t))
        /\ w = None => /\ t \in Client /\ t = id[1]
                       /\ NobodyWaits(Process(t), Tid[id[1]])
                       /\ Registrations(t) = {}
<1> SUFFICES ASSUME IInv, NEW t \in Thread, NEW id \in CallId,
                    OnTop(t, <<"client_call", id>>), rpc[id].client = "acquire",
                    NEW w, w = findWaitingThread(Process(t), Tid[id[1]])
             PROVE  /\ ~JustAdded(t)
                    /\ \A k \in CallId : ~AddsIt(t, k)
                    /\ \A e \in Conn : ~AddsWorker(t, e)
                    /\ w # None => w = t /\ t \in Waiting(Process(t))
                    /\ w = None => /\ t \in Client /\ t = id[1]
                                   /\ NobodyWaits(Process(t), Tid[id[1]])
                                   /\ Registrations(t) = {}
  OBVIOUS
<1>1. <<"client_call", id>> \in Frames(t) /\ thread[t].original_tid = Tid[id[1]] /\ IsOpen(id)
  BY TopPlaced
<1>2. \/ t = id[1] /\ t \in Client
      \/ \E l \in CallId : ServesIt(t, l) /\ Before(l, id)
  BY <1>1, BelowCall
<1>3. ASSUME NEW k \in CallId, AddsIt(t, k) PROVE FALSE
  <2>1. t \in Client /\ t = k[1]
    BY <1>3, AddingFacts
  <2>2. PICK i \in 1..Len(thread[t].stack) : thread[t].stack[i] = <<"client_call", id>>
    BY <1>1, IInvParts, IsFrame DEF FramesTyped
  <2>3. id[1] = t
    BY <2>1, <2>2, IInvParts DEF FramesOwned
  <2>4. k = id \/ Before(k, id) \/ Before(id, k)
    BY <2>1, <2>3, CallOrder
  <2>5. IsOpen(k) /\ rpc[k].client \in {"add", "count"}
    BY <1>3 DEF AddsIt, IsOpen
  <2> QED
    BY <1>1, <2>4, <2>5, IInvParts DEF CallsNest
<1>4. ASSUME NEW e \in Conn, AddsWorker(t, e) PROVE FALSE
  <2>1. t \in Worker /\ Registrations(t) = {}
    <3>1. TargetRight(e)
      BY IInvParts, TargetsAre
    <3> QED
      BY <1>4, <3>1 DEF TargetRight, AddsWorker
  <2>2. PICK l \in CallId : ServesIt(t, l)
    BY <1>2, <2>1, ThreadAssumption
  <2>3. <<"handleCall", l>> \in Registrations(t)
    BY <2>2, IInvParts, RegistrationFacts DEF RegistrationsAre
  <2> QED
    BY <2>1, <2>3
<1>5. ~JustAdded(t)
  BY <1>3, <1>4, IInvParts, RegistrationFacts DEF RegistrationsAre
<1>6. Process(t) \in Proc
  BY Processes
<1>7. ASSUME NEW l \in CallId, ServesIt(t, l), Before(l, id) PROVE w = t /\ t \in Waiting(Process(t))
  <2>1. t \in Waiting(Process(t)) /\ thread[t].original_tid = Tid[id[1]]
    BY <1>1, <1>7, ServesRegistered
  <2> QED
    BY <1>6, <2>1, Found
<1>8. ASSUME w # None PROVE w = t /\ t \in Waiting(Process(t))
  <2>1. w \in Waiting(Process(t)) /\ thread[w].original_tid = Tid[id[1]]
    BY <1>6, <1>8, IInvParts, FindFacts
  <2>2. CASE t = id[1] /\ t \in Client
    <3>1. Home[t] = Process(t)
      BY <2>2 DEF Process
    <3> QED
      BY <1>6, <2>1, <2>2, <3>1, IInvParts DEF WaitingRight
  <2> QED
    BY <1>2, <1>7, <2>2
<1>9. ASSUME w = None
      PROVE  /\ t \in Client /\ t = id[1]
             /\ NobodyWaits(Process(t), Tid[id[1]])
             /\ Registrations(t) = {}
  <2>1. t \in Client /\ t = id[1]
    BY <1>2, <1>7, <1>9, Processes
  <2>2. NobodyWaits(Process(t), Tid[id[1]])
    <3>1. TypeOK
      BY IInvParts
    <3>2. IF \A u \in Waiting(Process(t)) : thread[u].original_tid # Tid[id[1]]
          THEN w = None ELSE w # None
      BY <1>6, <3>1, FindFacts
    <3> QED
      BY <1>9, <3>2 DEF NobodyWaits
  <2>3. ASSUME NEW x \in Registrations(t) PROVE FALSE
    <3>1. t \in Waiting(Process(t))
      BY <1>3, <2>3, Registered
    <3> QED
      BY <1>1, <2>2, <3>1 DEF NobodyWaits
  <2> QED
    BY <2>1, <2>2, <2>3
<1> QED
  BY <1>3, <1>4, <1>5, <1>8, <1>9

\* A client_call moves on, and only its thread's registrations change.
LEMMA ClientAlone ==
    ASSUME IInv, NEW t \in Thread, NEW id \in CallId, OnTop(t, <<"client_call", id>>),
           UNCHANGED <<waiting_threads, free_workers, nworkers, conn, wire>>,
           CallsBut(id), rpc'[id].server = rpc[id].server, rpc[id].client # "wait",
           \A u \in Thread : /\ thread'[u].stack = thread[u].stack /\ SameBox(u)
                             /\ thread'[u].original_tid = thread[u].original_tid
                             /\ u # t => SameId(u),
           TypeOK', ThreadCounted(t)', CalledRight(t)', \A e \in Conn : ~AddsWorker(t, e)
    PROVE  Messages' /\ Registry'
<1>1. WireStays /\ \A e \in Conn : EndRests(e)
  BY DEF WireStays, EndRests
<1>2. Messages'
  <2>1. \A k \in CallId : MessageOf(k) => CallWaits(k)
    BY DEF MessageOf, CallWaits, CallsBut
  <2> QED
    BY <1>1, <2>1, IInvParts, BoxesRestMessages
<1>3. Registry'
  <2>1. \A u \in Thread : u \notin {t} => Rests(u)
    BY <1>1, ClientOthersRest
  <2>2. ListsStay /\ UncreatedRest /\ FramesWait
    BY StacksWait DEF ListsStay, UncreatedRest, SameBox, Thread
  <2>3. \A e \in Conn : TargetRests(e)
    <3> SUFFICES ASSUME NEW e \in Conn, Aims(e) PROVE conn[e].thr \in Thread
      BY DEF TargetRests, SameBox
    <3>1. TargetRight(e)
      BY IInvParts, TargetsAre
    <3> QED
      BY <3>1 DEF TargetRight, Created, Thread
  <2>4. \A e \in Conn : conn[e].reader \in {"add", "count"} => conn[e].thr \notin {t}
    BY DEF AddsWorker
  <2> DEFINE E == {}
  <2>5. \A x : x \notin E
    OBVIOUS
  <2> HIDE DEF E
  <2> QED
    BY <1>1, <1>2, <2>1, <2>2, <2>3, <2>4, <2>5, RestRegistry
<1> QED
  BY <1>2, <1>3

\* One registration more, of a thread that is in the list, or is not the first.
LEMMA OneMoreCounted ==
    ASSUME IInv, TypeOK', NEW t \in Thread, NEW x, x \notin Registrations(t),
           Registrations(t)' = Registrations(t) \cup {x}, ~JustAdded(t),
           t \in Waiting(Process(t)), (t \in Waiting(Process(t)))',
           thread'[t].recursion_count = thread[t].recursion_count + 1
    PROVE  ThreadCounted(t)'
<1>1. ThreadCounted(t)
  BY IInvParts, CountedAre
<1>2. IsFiniteSet(Registrations(t)) /\ thread[t].recursion_count = Cardinality(Registrations(t))
  BY <1>1 DEF ThreadCounted
<1>3. PICK R : R = Registrations(t)
  OBVIOUS
<1>4. PICK Q : Q = Registrations(t)'
  OBVIOUS
<1>5. Q = R \cup {x} /\ x \notin R /\ IsFiniteSet(R)
  BY <1>2, <1>3, <1>4
<1>6. IsFiniteSet(Q) /\ Cardinality(Q) = Cardinality(R) + 1
  BY <1>5, OneMore
<1>7. thread'[t].recursion_count = Cardinality(Q) /\ Q # {}
  BY <1>2, <1>3, <1>5, <1>6
<1> QED
  BY <1>4, <1>6, <1>7 DEF ThreadCounted

\* Acquire keeps the invariant: client_call goes on.
LEMMA AcquireKeeps ==
    ASSUME IInv, NEW t \in Thread, NEW id \in CallId, Acquire(t, id)
    PROVE  IInv' /\ ClientMoves(t, id)
<1>1. PICK w : w = findWaitingThread(Process(t), rpc[id].tid)
  OBVIOUS
<1>2. /\ OnTop(t, <<"client_call", id>>) /\ rpc[id].client = "acquire"
      /\ UNCHANGED <<waiting_threads, free_workers, nworkers, conn, wire, aborted>>
      /\ w = None => CallAt(id, "add", rpc[id].server) /\ UNCHANGED thread /\ TypeOK' /\ Calm'
      /\ w # None => CallAt(id, "send", rpc[id].server) /\ thread' = CountUp(w)
                     /\ rpc' \in [CallId -> RpcRec] /\ ViasRight'
  BY <1>1, AcquireDoes, IInvParts
<1>3. w = findWaitingThread(Process(t), Tid[id[1]])
  BY <1>1, <1>2, CallFacts
<1>4. /\ ~JustAdded(t)
      /\ \A k \in CallId : ~AddsIt(t, k)
      /\ \A e \in Conn : ~AddsWorker(t, e)
      /\ w # None => w = t /\ t \in Waiting(Process(t))
      /\ w = None => /\ t \in Client /\ t = id[1]
                     /\ NobodyWaits(Process(t), Tid[id[1]])
                     /\ Registrations(t) = {}
  BY <1>2, <1>3, AcquirerFacts
<1>5. CallsBut(id) /\ rpc'[id].server = rpc[id].server /\ SameMade(id) /\ SameAnswer(id)
      /\ rpc'[id].client \in {"add", "send"}
  BY <1>2 DEF CallAt
<1>6. TypeOK' /\ Calm'
  <2>1. CASE w = None
    BY <1>2, <2>1
  <2>2. CASE w # None
    <3>1. thread' \in [Thread -> ThreadRec]
      BY <1>2, <1>4, <2>2, IInvParts, CountUpDoes DEF TypeOK
    <3>2. TypeOK'
      BY <1>2, <2>2, <3>1, IInvParts DEF TypeOK
    <3>3. Calm'
      BY <1>2, <1>5, <2>2, IInvParts, CallFacts DEF Calm, CallsBut
    <3> QED
      BY <3>2, <3>3
  <2> QED
    BY <2>1, <2>2
<1>7. \A u \in Thread : /\ thread'[u].stack = thread[u].stack /\ SameBox(u)
                        /\ thread'[u].original_tid = thread[u].original_tid
                        /\ u # t => SameId(u)
                        /\ thread'[u].used_connection = thread[u].used_connection
  <2>1. CASE w = None
    BY <1>2, <2>1 DEF SameBox, SameId
  <2>2. CASE w # None
    <3>1. ThreadsBut(t) /\ SameBox(t) /\ SameRun(t) /\ thread'[t].original_tid = thread[t].original_tid
      BY <1>2, <1>4, <2>2, IInvParts, CountUpDoes DEF TypeOK
    <3> QED
      BY <3>1 DEF ThreadsBut, SameBox, SameRun, SameId
  <2> QED
    BY <2>1, <2>2
<1>8. ClientMoves(t, id)
  BY <1>2, <1>5, <1>7, CallFacts DEF ClientMoves, StacksStay, IsOpen, SameAnswer
<1>9. StacksRight'
  BY <1>8, IInvParts, ClientMovesStacks
<1>10. <<"client_call", id>> \in Frames(t) /\ Frames(t)' = Frames(t)
  <2>1. <<"client_call", id>> \in Frames(t)
    BY <1>2, TopPlaced
  <2>2. Frames(t)' = Frames(t)
    BY <1>7 DEF Frames
  <2> QED
    BY <2>1, <2>2
<1>11. Registrations(t)' = Registrations(t) \cup {<<"client_call", id>>}
  <2>1. \A k \in CallId : /\ MakesIt(t, k)' <=> (MakesIt(t, k) \/ <<"client_call", id>> = <<"client_call", k>>)
                          /\ ServesIt(t, k)' <=> ServesIt(t, k)
                          /\ HasIt(t, k)' <=> HasIt(t, k)
    BY <1>5, <1>7, <1>10 DEF CallsBut, MakesIt, ServesIt, HasIt, SameBox
  <2>2. \A e \in Conn : GetsIt(t, e)' <=> GetsIt(t, e)
    BY <1>2 DEF GetsIt
  <2>3. IsRegistration(<<"client_call", id>>)
    BY DEF IsRegistration
  <2> QED
    BY <1>6, <2>1, <2>2, <2>3, IInvParts, RegistrationsGain
<1>12. ThreadCounted(t)'
  <2>1. CASE w = None
    <3>1. JustAdded(t)'
      <4>1. AddsIt(t, id)'
        BY <1>2, <1>10, <2>1 DEF AddsIt, CallAt
      <4> QED
        BY <1>6, <4>1, RegistrationFactsNext DEF RegistrationsAre
    <3>2. Registrations(t)' = {<<"client_call", id>>}
      BY <1>4, <1>11, <2>1
    <3>3. IsFiniteSet({<<"client_call", id>>})
      BY FS_Singleton
    <3> QED
      BY <3>1, <3>2, <3>3 DEF ThreadCounted
  <2>2. CASE w # None
    <3>1. thread'[t].recursion_count = thread[t].recursion_count + 1
      BY <1>2, <1>4, <2>2, IInvParts, CountUpDoes DEF TypeOK
    <3>2. (t \in Waiting(Process(t)))'
      BY <1>2, <1>4, <2>2 DEF Waiting, Process
    <3>3. <<"client_call", id>> \notin Registrations(t)
      BY <1>2, IInvParts, RegistrationFacts DEF RegistrationsAre, MakesIt
    <3> QED
      BY <1>4, <1>6, <1>11, <2>2, <3>1, <3>2, <3>3, OneMoreCounted
  <2> QED
    BY <2>1, <2>2
<1>13. CalledRight(t)'
  <2> SUFFICES ASSUME NEW k \in CallId, AddsIt(t, k)'
               PROVE  /\ Registrations(t)' = {<<"client_call", k>>}
                      /\ rpc'[k].client = "add" => NobodyWaits(Process(t), Tid[k[1]])'
                      /\ rpc'[k].client = "count" => (t \in Waiting(Process(t)))'
    BY DEF CalledRight
  <2>1. k = id
    BY <1>4, <1>5, <1>10 DEF AddsIt, CallsBut
  <2>2. w = None /\ rpc'[k].client = "add"
    BY <1>2, <2>1 DEF AddsIt, CallAt
  <2>3. NobodyWaits(Process(t), Tid[k[1]])'
    BY <1>2, <1>4, <2>1, <2>2 DEF NobodyWaits, Waiting, Process
  <2> QED
    BY <1>4, <1>11, <2>1, <2>2, <2>3
<1>14. Messages' /\ Registry'
  BY <1>2, <1>4, <1>5, <1>6, <1>7, <1>12, <1>13, ClientAlone
<1>15. ConnsCounted'
  <2>1. \A k \in CallId : CallStays(k)
    BY <1>2, <1>5, CallFacts DEF CallStays, CallsBut, SameMade, IsOpen
  <2> QED
    BY <1>2, <2>1, IInvParts, ConnsStay DEF SameCounts
<1> QED
  BY <1>6, <1>8, <1>9, <1>14, <1>15, Together

-----------------------------------------------------------------------------
(* A thread is added to the list of its process.                           *)

\* Who waits, when a thread is added to a list.
LEMMA WaitingMore ==
    ASSUME TypeOK, TypeOK', NEW p \in Proc, NEW t \in Thread,
           waiting_threads'[p] = Append(waiting_threads[p], t),
           \A q \in Proc \ {p} : waiting_threads'[q] = waiting_threads[q]
    PROVE  /\ Waiting(p)' = Waiting(p) \cup {t}
           /\ \A q \in Proc : q # p => Waiting(q)' = Waiting(q)
<1>1. PICK s \in Seq(Thread) : s = waiting_threads[p]
  BY DEF TypeOK
<1>2. PICK r : r = Append(s, t)
  OBVIOUS
<1>3. /\ Len(s) \in Nat /\ Len(r) = Len(s) + 1
      /\ \A i \in 1..Len(s) : r[i] = s[i]
      /\ r[Len(s) + 1] = t
      /\ DOMAIN s = 1..Len(s) /\ DOMAIN r = 1..Len(s) + 1
  <2>1. r \in Seq(Thread) /\ Len(r) = Len(s) + 1
    BY <1>2, AppendFacts
  <2> QED
    BY <1>2, <2>1, AppendFacts
<1>4. {r[i] : i \in 1..Len(s) + 1} = {s[i] : i \in 1..Len(s)} \cup {t}
  BY <1>3
<1>5. Waiting(p)' = {r[i] : i \in DOMAIN r}
  BY <1>1, <1>2 DEF Waiting
<1>6. Waiting(p) = {s[i] : i \in DOMAIN s}
  BY <1>1 DEF Waiting
<1>7. Waiting(p)' = Waiting(p) \cup {t}
  BY <1>3, <1>4, <1>5, <1>6
<1>8. \A q \in Proc : q # p => Waiting(q)' = Waiting(q)
  BY DEF Waiting
<1> QED
  BY <1>7, <1>8

\* The lists stay right, when a thread is added under an id nobody waits under.
LEMMA AddedLists ==
    ASSUME IInv, TypeOK', NEW p \in Proc, NEW t \in Thread,
           waiting_threads'[p] = Append(waiting_threads[p], t),
           \A q \in Proc \ {p} : waiting_threads'[q] = waiting_threads[q],
           UNCHANGED <<free_workers, nworkers>>,
           t \in Created, Process(t) = p, t \notin Waiting(p), t \notin Frees(p),
           NobodyWaits(p, thread'[t].original_tid),
           \A c \in Client : thread'[t].original_tid = Tid[c] /\ Home[c] = p => t = c,
           \A u \in Thread : u # t => thread'[u].original_tid = thread[u].original_tid,
           t \in Client => thread'[t].original_tid = thread[t].original_tid,
           \A e \in Conn : conn'[e].thr = conn[e].thr,
           \A e \in Conn : conn[e].reader = "add" => conn'[e].reader = "add" \/ conn[e].thr = t,
           UncreatedRest
    PROVE  WaitingRight' /\ FreeRight' /\ WorkersKept'
<1>1. /\ Waiting(p)' = Waiting(p) \cup {t}
      /\ \A q \in Proc : q # p => Waiting(q)' = Waiting(q)
      /\ \A q \in Proc : Frees(q)' = Frees(q)
      /\ Created' = Created
  BY IInvParts, WaitingMore DEF Frees, Created
<1>2. \A q \in Proc : Listed(q)
  BY IInvParts, UniqueTidIs DEF WaitingRight
<1>3. /\ \A q \in Proc : \A u \in Waiting(q) : u \in Thread /\ u # t
      /\ \A u \in Waiting(p) : thread[u].original_tid # thread'[t].original_tid
  <2>1. ASSUME NEW q \in Proc, NEW u \in Waiting(q) PROVE u \in Thread /\ u # t
    <3>1. u \in Thread /\ Process(u) = q
      BY IInvParts, ListFacts DEF ListsAre, WaitingRight
    <3> QED
      BY <3>1
  <2> QED
    BY <2>1 DEF NobodyWaits
<1>4. UniqueTid'
  <2>1. ASSUME NEW q \in Proc, q # p PROVE Listed(q)'
    <3>1. \A u \in Waiting(q) : thread'[u].original_tid = thread[u].original_tid
      BY <1>3
    <3> QED
      BY <1>1, <1>2, <2>1, <3>1 DEF Listed
  <2>2. Listed(p)'
    <3>1. \A u \in Waiting(p) : thread'[u].original_tid = thread[u].original_tid
      BY <1>3
    <3>2. \A u, v \in Waiting(p)' : thread'[u].original_tid = thread'[v].original_tid => u = v
      BY <1>1, <1>2, <1>3, <3>1 DEF Listed
    <3>3. PICK s \in Seq(Thread) : s = waiting_threads[p]
      BY IInvParts DEF TypeOK
    <3>4. /\ Len(s) \in Nat /\ Len(waiting_threads'[p]) = Len(s) + 1
          /\ \A i \in 1..Len(s) : waiting_threads'[p][i] = s[i]
          /\ waiting_threads'[p][Len(s) + 1] = t
      BY <3>3, AppendFacts
    <3>5. \A i \in 1..Len(s) : s[i] # t
      BY <1>3, <3>3, IInvParts, ListFacts DEF ListsAre
    <3>6. \A i, j \in 1..Len(s) : s[i] = s[j] => i = j
      BY <1>2, <3>3 DEF Listed
    <3>7. \A i, j \in 1..Len(s) + 1 : waiting_threads'[p][i] = waiting_threads'[p][j] => i = j
      BY <3>4, <3>5, <3>6
    <3> QED
      BY <3>2, <3>4, <3>7 DEF Listed
  <2> QED
    BY <2>1, <2>2, UniqueTidIsNext
<1>5. WaitingRight'
  <2>1. ASSUME NEW q \in Proc, NEW u \in Waiting(q)'
        PROVE  /\ u \in Created' /\ Process(u) = q
               /\ \A c \in Client : thread'[u].original_tid = Tid[c] /\ Home[c] = q => u = c
    <3>1. CASE u \in Waiting(q)
      BY <1>1, <1>3, <3>1, IInvParts DEF WaitingRight
    <3>2. CASE u \notin Waiting(q)
      BY <1>1, <2>1, <3>2
    <3> QED
      BY <3>1, <3>2
  <2>2. \A c \in Client : thread'[c].original_tid = Tid[c]
    <3>1. \A c \in Client : thread[c].original_tid = Tid[c] /\ c \in Thread
      BY IInvParts DEF WaitingRight, Thread
    <3> QED
      BY <3>1
  <2> QED
    BY <1>4, <2>1, <2>2 DEF WaitingRight, Process
<1>6. FreeRight'
  <2> SUFFICES ASSUME NEW q \in Proc
               PROVE  /\ \A i, j \in 1..Len(free_workers'[q]) : free_workers'[q][i] = free_workers'[q][j] => i = j
                      /\ \A u \in Frees(q)' :
                           /\ u \in Worker /\ u \in Created' /\ Process(u) = q
                           /\ u \notin Waiting(q)'
                           /\ \A e \in Conn : conn'[e].thr # u
    BY DEF FreeRight, Process
  <2>1. \A i, j \in 1..Len(free_workers'[q]) : free_workers'[q][i] = free_workers'[q][j] => i = j
    BY IInvParts DEF FreeRight
  <2>2. \A u \in Frees(q) :
          /\ u \in Worker /\ u \in Created /\ Process(u) = q
          /\ u \notin Waiting(q)
          /\ \A e \in Conn : conn[e].thr # u
    BY IInvParts DEF FreeRight
  <2> QED
    BY <1>1, <2>1, <2>2
<1>7. WorkersKept'
  <2> SUFFICES ASSUME NEW u \in Worker
               PROVE  /\ u \in Created' => \/ u \in Frees(u[1])' \/ u \in Waiting(u[1])'
                                           \/ \E e \in Conn : conn'[e].reader = "add" /\ conn'[e].thr = u
                      /\ u \notin Created' => thread'[u].stack = <<>> /\ thread'[u].wakeup = 0
    BY DEF WorkersKept
  <2>1. /\ u \in Created => \/ u \in Frees(u[1]) \/ u \in Waiting(u[1])
                            \/ \E e \in Conn : conn[e].reader = "add" /\ conn[e].thr = u
        /\ u \notin Created => thread[u].stack = <<>> /\ thread[u].wakeup = 0
    BY IInvParts DEF WorkersKept
  <2>2. u[1] \in Proc
    BY DEF Worker
  <2>3. u = t => u[1] = p
    BY ThreadAssumption DEF Process
  <2>4. u \in Waiting(u[1]) => u \in Waiting(u[1])'
    BY <1>1, <2>2
  <2>5. u = t => u \in Waiting(u[1])'
    BY <1>1, <2>3
  <2> QED
    BY <1>1, <2>1, <2>2, <2>4, <2>5 DEF UncreatedRest
<1> QED
  BY <1>5, <1>6, <1>7

\* Register keeps the invariant: client_call goes on.
LEMMA RegisterKeeps ==
    ASSUME IInv, TidsDiffer, NEW t \in Thread, NEW id \in CallId, Register(t, id)
    PROVE  IInv' /\ ClientMoves(t, id)
<1>1. PICK p \in Proc : p = Process(t)
  BY Processes
<1>2. /\ OnTop(t, <<"client_call", id>>) /\ rpc[id].client = "add"
      /\ UNCHANGED <<free_workers, nworkers, thread, conn, wire, aborted>>
      /\ CallAt(id, "count", rpc[id].server)
      /\ waiting_threads'[p] = Append(waiting_threads[p], t)
      /\ \A q \in Proc \ {p} : waiting_threads'[q] = waiting_threads[q]
      /\ TypeOK' /\ Calm'
  BY <1>1, RegisterDoes, IInvParts
<1>3. \A u \in Thread : /\ thread'[u].stack = thread[u].stack /\ SameBox(u) /\ SameId(u)
                        /\ thread'[u].original_tid = thread[u].original_tid
                        /\ thread'[u].used_connection = thread[u].used_connection
  BY <1>2 DEF SameBox, SameId
<1>4. ClientMoves(t, id)
  BY <1>2, <1>3, CallFacts DEF ClientMoves, CallAt, StacksStay, IsOpen, SameAnswer
<1>5. StacksRight'
  BY <1>4, IInvParts, ClientMovesStacks
<1>6. WireStays /\ \A e \in Conn : EndRests(e)
  BY <1>2 DEF WireStays, EndRests
<1>7. Messages'
  <2>1. \A k \in CallId : MessageOf(k) => CallWaits(k)
    BY <1>2 DEF MessageOf, CallWaits, CallAt, CallsBut
  <2> QED
    BY <1>3, <1>6, <2>1, IInvParts, BoxesRestMessages
<1>8. AddsIt(t, id) /\ thread[t].original_tid = Tid[id[1]] /\ IsOpen(id)
  BY <1>2, TopPlaced DEF AddsIt
<1>9. /\ Registrations(t) = {<<"client_call", id>>}
      /\ NobodyWaits(p, Tid[id[1]])
      /\ \A k \in CallId : AddsIt(t, k) => k = id
      /\ \A e \in Conn : conn[e].reader \in {"add", "count"} => conn[e].thr # t
      /\ t \in Client /\ t = id[1]
  BY <1>1, <1>2, <1>8, AddingFacts
<1>10. t \notin Waiting(p)
  BY <1>8, <1>9 DEF NobodyWaits
<1>11. t \in Created /\ t \notin Frees(p)
  BY <1>9, IInvParts, ListFacts, ThreadAssumption DEF Created, ListsAre
<1>12. /\ Waiting(p)' = Waiting(p) \cup {t}
       /\ \A q \in Proc : q # p => Waiting(q)' = Waiting(q)
  BY <1>2, IInvParts, WaitingMore
<1>13. WaitingRight' /\ FreeRight' /\ WorkersKept'
  <2>1. \A c \in Client : thread'[t].original_tid = Tid[c] /\ Home[c] = p => t = c
    BY <1>3, <1>8, <1>9 DEF TidsDiffer
  <2>2. NobodyWaits(p, thread'[t].original_tid)
    BY <1>3, <1>8, <1>9
  <2>3. UncreatedRest
    BY <1>3 DEF UncreatedRest, SameBox, Thread
  <2>4. /\ \A e \in Conn : conn'[e].thr = conn[e].thr
        /\ \A e \in Conn : conn[e].reader = "add" => conn'[e].reader = "add" \/ conn[e].thr = t
    BY <1>2
  <2> QED
    BY <1>1, <1>2, <1>3, <1>10, <1>11, <2>1, <2>2, <2>3, <2>4, AddedLists
<1>14. Frames(t)' = Frames(t)
  BY <1>3 DEF Frames
<1>15. Registrations(t)' = {<<"client_call", id>>}
  <2>1. \A k \in CallId : /\ MakesIt(t, k)' <=> MakesIt(t, k)
                          /\ ServesIt(t, k)' <=> ServesIt(t, k)
                          /\ HasIt(t, k)' <=> HasIt(t, k)
    BY <1>2, <1>14 DEF CallAt, CallsBut, MakesIt, ServesIt, HasIt
  <2>2. \A e \in Conn : GetsIt(t, e)' <=> GetsIt(t, e)
    BY <1>2 DEF GetsIt
  <2> QED
    BY <1>2, <1>9, <2>1, <2>2, IInvParts, RegistrationsSame
<1>16. ThreadCounted(t)' /\ CalledRight(t)'
  <2>1. AddsIt(t, id)'
    BY <1>2, <1>8, <1>14 DEF AddsIt, CallAt
  <2>2. JustAdded(t)'
    BY <1>2, <2>1, RegistrationFactsNext DEF RegistrationsAre
  <2>3. IsFiniteSet({<<"client_call", id>>})
    BY FS_Singleton
  <2>4. \A k \in CallId : AddsIt(t, k)' => k = id
    BY <1>2, <1>9, <1>14 DEF AddsIt, CallAt, CallsBut
  <2>5. (t \in Waiting(Process(t)))'
    BY <1>1, <1>12 DEF Process
  <2>6. rpc'[id].client = "count"
    BY <1>2 DEF CallAt
  <2> QED
    BY <1>15, <2>2, <2>3, <2>4, <2>5, <2>6 DEF ThreadCounted, CalledRight
<1>17. Targets' /\ Counted' /\ JustCalled'
  <2>1. ASSUME NEW u \in Thread, u # t
        PROVE  Rests(u) /\ ((u \in Waiting(Process(u)))' <=> u \in Waiting(Process(u)))
    <3>1. Rests(u)
      BY <1>2, <1>3, <1>6, <2>1, ClientOthersRest DEF CallAt
    <3>2. (u \in Waiting(Process(u)))' <=> u \in Waiting(Process(u))
      BY <1>12, <2>1, Processes DEF Process
    <3> QED
      BY <3>1, <3>2
  <2>2. ASSUME NEW q \in Proc, NEW tid, q = p => tid # Tid[id[1]], NobodyWaits(q, tid)
        PROVE  NobodyWaits(q, tid)'
    <3>1. \A u \in Waiting(q)' : thread'[u].original_tid # tid
      BY <1>2, <1>8, <1>12, <2>2 DEF NobodyWaits
    <3> QED
      BY <3>1 DEF NobodyWaits
  <2>3. ASSUME NEW u \in Thread, NEW k \in CallId, u # t, AddsIt(u, k), NobodyWaits(Process(u), Tid[k[1]])
        PROVE  NobodyWaits(Process(u), Tid[k[1]])'
    <3>1. u \in Client /\ u = k[1]
      BY <2>3, AddingFacts
    <3>2. Tid[k[1]] # Tid[id[1]]
      BY <1>9, <2>3, <3>1 DEF TidsDiffer
    <3>3. NobodyWaits(Process(u), Tid[k[1]])'
      <4>1. PICK q \in Proc : q = Process(u)
        BY Processes
      <4>2. NobodyWaits(q, Tid[k[1]])'
        BY <2>2, <2>3, <3>2, <4>1
      <4> QED
        BY <4>1, <4>2 DEF Process
    <3> QED
      BY <3>3
  <2>4. ASSUME NEW e \in Conn, conn[e].reader \in {"worker", "add"}, NobodyWaits(Owner[e], conn[e].msg.tid)
        PROVE  NobodyWaits(Owner[e], conn[e].msg.tid)'
    <3>1. Holds(e)
      BY <2>4 DEF Holds, Holding
    <3>2. /\ conn[e].msg.id \in CallId /\ Pending(conn[e].msg.id) /\ rpc[conn[e].msg.id].client = "wait"
          /\ conn[e].msg.tid = Tid[conn[e].msg.id[1]]
      BY <3>1, ReaderPending
    <3>3. Pending(id)
      BY <1>2, <1>8 DEF Pending
    <3>4. conn[e].msg.tid # Tid[id[1]]
      BY <1>2, <3>2, <3>3, OnePending
    <3>5. PICK tid : tid = conn[e].msg.tid
      OBVIOUS
    <3>6. NobodyWaits(Owner[e], tid)'
      BY <2>2, <2>4, <3>4, <3>5, OwnerFacts
    <3>7. conn'[e].msg.tid = tid
      BY <1>2, <3>5
    <3> QED
      BY <3>6, <3>7
  <2>5. \A e \in Conn : TargetRests(e)
    BY <1>2 DEF TargetRests
  <2>6. \A u \in Created : u \in Created'
    BY <1>2 DEF Created
  <2>7. FramesWait
    BY <1>3, StacksWait
  <2> DEFINE E == {}
             T == {t}
  <2>8. \A x : x \notin E
    OBVIOUS
  <2>9. \A u : u \in T <=> u = t
    OBVIOUS
  <2> HIDE DEF E, T
  <2>10. \A u \in Thread : u \notin T =>
              Rests(u) /\ ((u \in Waiting(Process(u)))' <=> u \in Waiting(Process(u)))
    BY <2>1, <2>9
  <2>11. \A u \in Thread : u \in T => ThreadCounted(u)' /\ CalledRight(u)'
    BY <1>16, <2>9
  <2>12. \A u \in Thread, k \in CallId : u \notin T /\ AddsIt(u, k) /\ rpc[k].client = "add" =>
              (NobodyWaits(Process(u), Tid[k[1]]) => NobodyWaits(Process(u), Tid[k[1]])')
    BY <2>3, <2>9
  <2>13. \A e \in Conn : e \notin E => EndRests(e) /\ TargetRests(e)
    BY <1>6, <2>5
  <2>14. \A e \in Conn : e \notin E /\ conn[e].reader \in {"worker", "add"} =>
              (NobodyWaits(Owner[e], conn[e].msg.tid) => NobodyWaits(Owner[e], conn[e].msg.tid)')
    BY <2>4
  <2>15. \A e \in Conn : e \notin E /\ conn[e].reader \in {"add", "count"} => conn[e].thr \notin T
    BY <1>9, <2>9
  <2> QED
    BY <1>2, <1>7, <2>6, <2>7, <2>8, <2>10, <2>11, <2>12, <2>13, <2>14, <2>15, RestThreads
<1>18. Registry'
  BY <1>13, <1>17 DEF Registry
<1>19. ConnsCounted'
  <2>1. \A k \in CallId : CallStays(k)
    BY <1>2 DEF CallStays, CallAt, CallsBut, SameMade, IsOpen
  <2> QED
    BY <1>2, <2>1, IInvParts, ConnsStay DEF SameCounts
<1> QED
  BY <1>2, <1>4, <1>5, <1>7, <1>18, <1>19, Together

-----------------------------------------------------------------------------
(* A thread is unregistered.                                               *)

\* Who waits, when the n-th of a list leaves it.
LEMMA WaitingLess ==
    ASSUME TypeOK, NEW p \in Proc, NEW t, NEW n \in 1..Len(waiting_threads[p]),
           waiting_threads[p][n] = t, waiting_threads'[p] = RemoveAt(waiting_threads[p], n),
           \A q \in Proc \ {p} : waiting_threads'[q] = waiting_threads[q],
           Listed(p)
    PROVE  /\ Waiting(p)' = Waiting(p) \ {t}
           /\ \A q \in Proc : q # p => Waiting(q)' = Waiting(q)
           /\ \A i, j \in 1..Len(waiting_threads'[p]) : waiting_threads'[p][i] = waiting_threads'[p][j] => i = j
<1>1. PICK s \in Seq(Thread) : s = waiting_threads[p]
  BY DEF TypeOK
<1>2. PICK r : r = RemoveAt(s, n)
  OBVIOUS
<1>3. /\ r \in Seq(Thread)
      /\ Len(r) = Len(s) - 1
      /\ \A i \in 1..n - 1 : r[i] = s[i]
      /\ \A i \in n..Len(s) - 1 : r[i] = s[i + 1]
  BY <1>1, <1>2, RemoveFacts
<1>4. DOMAIN s = 1..Len(s) /\ Len(s) \in Nat /\ DOMAIN r = 1..Len(r) /\ n \in 1..Len(s) /\ s[n] = t
  BY <1>1, <1>3
<1>5. \A i, j \in 1..Len(s) : s[i] = s[j] => i = j
  BY <1>1 DEF Listed
<1>6. \A i \in 1..Len(r) : \E j \in 1..Len(s) : j # n /\ r[i] = s[j] /\ (i < n => j = i) /\ (i >= n => j = i + 1)
  <2> TAKE i \in 1..Len(r)
  <2>1. CASE i < n
    <3>1. i \in 1..n - 1 /\ i \in 1..Len(s) /\ i # n
      BY <1>3, <1>4, <2>1
    <3> QED
      BY <1>3, <2>1, <3>1
  <2>2. CASE i >= n
    <3>1. i \in n..Len(s) - 1 /\ i + 1 \in 1..Len(s) /\ i + 1 # n
      BY <1>3, <1>4, <2>2
    <3> QED
      BY <1>3, <2>2, <3>1
  <2> QED
    BY <1>4, <2>1, <2>2
<1>7. \A j \in 1..Len(s) : j # n => \E i \in 1..Len(r) : r[i] = s[j]
  <2> TAKE j \in 1..Len(s)
  <2>1. CASE j < n
    <3>1. j \in 1..n - 1 /\ j \in 1..Len(r)
      BY <1>3, <1>4, <2>1
    <3> QED
      BY <1>3, <3>1
  <2>2. CASE j > n
    <3>1. j - 1 \in n..Len(s) - 1 /\ j - 1 \in 1..Len(r) /\ (j - 1) + 1 = j
      BY <1>3, <1>4, <2>2
    <3> QED
      BY <1>3, <3>1
  <2> QED
    BY <1>4, <2>1, <2>2
<1>8. {r[i] : i \in 1..Len(r)} = {s[i] : i \in 1..Len(s)} \ {t}
  <2>1. ASSUME NEW i \in 1..Len(r) PROVE r[i] \in {s[j] : j \in 1..Len(s)} \ {t}
    BY <1>4, <1>5, <1>6
  <2>2. ASSUME NEW j \in 1..Len(s), s[j] # t PROVE s[j] \in {r[i] : i \in 1..Len(r)}
    BY <1>4, <1>7, <2>2
  <2> QED
    BY <2>1, <2>2
<1>9. Waiting(p)' = {r[i] : i \in DOMAIN r}
  BY <1>1, <1>2 DEF Waiting
<1>10. Waiting(p) = {s[i] : i \in DOMAIN s}
  BY <1>1 DEF Waiting
<1>11. Waiting(p)' = Waiting(p) \ {t}
  BY <1>4, <1>8, <1>9, <1>10
<1>12. \A i, j \in 1..Len(r) : r[i] = r[j] => i = j
  <2> SUFFICES ASSUME NEW i \in 1..Len(r), NEW j \in 1..Len(r), r[i] = r[j] PROVE i = j
    OBVIOUS
  <2>1. PICK k \in 1..Len(s) : r[i] = s[k] /\ (i < n => k = i) /\ (i >= n => k = i + 1)
    BY <1>6
  <2>2. PICK l \in 1..Len(s) : r[j] = s[l] /\ (j < n => l = j) /\ (j >= n => l = j + 1)
    BY <1>6
  <2>3. k = l
    BY <1>5, <2>1, <2>2
  <2> QED
    BY <1>3, <1>4, <2>1, <2>2, <2>3
<1>13. \A q \in Proc : q # p => Waiting(q)' = Waiting(q)
  BY DEF Waiting
<1> QED
  BY <1>1, <1>2, <1>11, <1>12, <1>13

\* Who is free, when a worker is added.
LEMMA FreesMore ==
    ASSUME TypeOK, NEW p \in Proc, NEW t \in Worker,
           free_workers'[p] = Append(free_workers[p], t),
           \A q \in Proc \ {p} : free_workers'[q] = free_workers[q],
           t \notin Frees(p),
           \A i, j \in 1..Len(free_workers[p]) : free_workers[p][i] = free_workers[p][j] => i = j
    PROVE  /\ Frees(p)' = Frees(p) \cup {t}
           /\ \A q \in Proc : q # p => Frees(q)' = Frees(q)
           /\ \A i, j \in 1..Len(free_workers'[p]) : free_workers'[p][i] = free_workers'[p][j] => i = j
<1>1. PICK s \in Seq(Worker) : s = free_workers[p]
  BY DEF TypeOK
<1>2. PICK r : r = Append(s, t)
  OBVIOUS
<1>3. /\ Len(s) \in Nat /\ Len(r) = Len(s) + 1
      /\ \A i \in 1..Len(s) : r[i] = s[i]
      /\ r[Len(s) + 1] = t
      /\ DOMAIN s = 1..Len(s) /\ DOMAIN r = 1..Len(s) + 1
  <2>1. r \in Seq(Worker) /\ Len(r) = Len(s) + 1
    BY <1>2, AppendFacts
  <2> QED
    BY <1>2, <2>1, AppendFacts
<1>4. {r[i] : i \in 1..Len(s) + 1} = {s[i] : i \in 1..Len(s)} \cup {t}
  BY <1>3
<1>5. Frees(p)' = {r[i] : i \in DOMAIN r}
  BY <1>1, <1>2 DEF Frees
<1>6. Frees(p) = {s[i] : i \in DOMAIN s}
  BY <1>1 DEF Frees
<1>7. Frees(p)' = Frees(p) \cup {t}
  BY <1>3, <1>4, <1>5, <1>6
<1>8. \A i \in 1..Len(s) : s[i] # t
  BY <1>3, <1>6
<1>9. \A i, j \in 1..Len(r) : r[i] = r[j] => i = j
  BY <1>1, <1>3, <1>8
<1>10. \A q \in Proc : q # p => Frees(q)' = Frees(q)
  BY DEF Frees
<1> QED
  BY <1>1, <1>2, <1>7, <1>9, <1>10

\* A thread with one registration, or with more than one.
LEMMA CountsDown ==
    ASSUME IInv, NEW t \in Thread, ~JustAdded(t), NEW x \in Registrations(t)
    PROVE  /\ IsFiniteSet(Registrations(t) \ {x})
           /\ Cardinality(Registrations(t) \ {x}) = thread[t].recursion_count - 1
           /\ thread[t].recursion_count \in Nat /\ thread[t].recursion_count >= 1
           /\ thread[t].recursion_count = 1 <=> Registrations(t) \ {x} = {}
<1>1. ThreadCounted(t)
  BY IInvParts, CountedAre
<1>2. PICK R : R = Registrations(t)
  OBVIOUS
<1>3. IsFiniteSet(R) /\ thread[t].recursion_count = Cardinality(R) /\ x \in R
  BY <1>1, <1>2 DEF ThreadCounted
<1>4. PICK Q : Q = R \ {x}
  OBVIOUS
<1>5. IsFiniteSet(Q) /\ Cardinality(R) \in Nat /\ Cardinality(Q) \in Nat
      /\ Cardinality(Q) = Cardinality(R) - 1 /\ Cardinality(R) >= 1
  BY <1>3, <1>4, OneLess
<1>6. Cardinality(Q) = 0 <=> Q = {}
  BY <1>5, FS_EmptySet
<1> QED
  BY <1>2, <1>3, <1>4, <1>5, <1>6

\* The last registration of a thread: no reader has anything for it.
LEMMA LastFacts ==
    ASSUME IInv, NEW t \in Thread, ~JustAdded(t), NEW x \in Registrations(t),
           thread[t].recursion_count = 1,
           \A k \in CallId : rpc[k].client = "wait" => x # <<"client_call", k>>,
           \A e \in Conn : x # <<"reader", e>>
    PROVE  \A e \in Conn : conn[e].thr # t
<1>1. \A y \in Registrations(t) : y = x
  <2>1. Registrations(t) \ {x} = {}
    BY CountsDown
  <2> QED
    BY <2>1
<1> SUFFICES ASSUME NEW e \in Conn, conn[e].thr = t PROVE FALSE
  OBVIOUS
<1>2. TargetRight(e)
  BY IInvParts, TargetsAre
<1>3. Aims(e)
  BY <1>2, Processes DEF TargetRight
<1>4. ~AddsWorker(t, e)
  BY IInvParts, RegistrationFacts DEF RegistrationsAre
<1>5. conn[e].reader \in {"data", "post"}
  BY <1>3, <1>4 DEF Aims, Aiming, AddsWorker
<1>6. conn[e].msg.cmd # "CmdCall"
  <2>1. conn[e].msg.cmd = "CmdCall" => <<"reader", e>> \in Registrations(t)
    BY <1>5, IInvParts, RegistrationFacts DEF RegistrationsAre, GetsIt
  <2> QED
    BY <1>1, <2>1
<1>7. PICK k \in CallId : k = conn[e].msg.id /\ rpc[k].client = "wait" /\ conn[e].msg.cmd = "CmdReturn"
  BY <1>5, <1>6, ReaderPending DEF Holds, Holding
<1>8. <<"client_call", k>> \in Frames(t)
  BY <1>2, <1>5, <1>7 DEF TargetRight
<1>9. <<"client_call", k>> \in Registrations(t)
  BY <1>7, <1>8, IInvParts, RegistrationFacts DEF RegistrationsAre, MakesIt
<1> QED
  BY <1>1, <1>7, <1>9

\* Thread t is unregistered for x, and nothing else happens to the registry.
LEMMA UnregisterRegistry ==
    ASSUME IInv, TypeOK', Messages', FramesWait, NEW t \in Thread, NEW x \in Registrations(t),
           Unregistered(t), nworkers' = nworkers, ~JustAdded(t), t \in Waiting(Process(t)),
           \A k \in CallId : rpc[k].client = "wait" => x # <<"client_call", k>>,
           \A e \in Conn : x # <<"reader", e>>,
           Registrations(t)' = Registrations(t) \ {x},
           \A k \in CallId : ~AddsIt(t, k)',
           thread'[t].recursion_count = thread[t].recursion_count - 1,
           \A u \in Thread : SameBox(u) /\ thread'[u].original_tid = thread[u].original_tid,
           \A u \in Thread : u # t => Rests(u) /\ thread'[u].stack = thread[u].stack,
           \A e \in Conn : EndRests(e)
    PROVE  Registry'
<1>1. PICK p \in Proc : p = Process(t)
  BY Processes
<1>2. /\ IsFiniteSet(Registrations(t) \ {x})
      /\ Cardinality(Registrations(t) \ {x}) = thread[t].recursion_count - 1
      /\ thread[t].recursion_count \in Nat /\ thread[t].recursion_count >= 1
      /\ thread[t].recursion_count = 1 <=> Registrations(t) \ {x} = {}
  BY CountsDown
<1>3. CalledRight(t)'
  BY DEF CalledRight
<1>4. \A e \in Conn : conn[e].reader \in {"add", "count"} => conn[e].thr # t
  BY IInvParts, RegistrationFacts DEF RegistrationsAre, AddsWorker
<1>5. \A e \in Conn : TargetRests(e)
  <2> SUFFICES ASSUME NEW e \in Conn, Aims(e) PROVE conn[e].thr \in Thread
    BY DEF TargetRests, SameBox
  <2>1. TargetRight(e)
    BY IInvParts, TargetsAre
  <2> QED
    BY <2>1 DEF TargetRight, Created, Thread
<1>6. \A u \in Worker : u \notin Created => thread'[u].stack = thread[u].stack /\ thread'[u].wakeup = thread[u].wakeup
  <2>1. t \in Created
    BY <1>1, IInvParts DEF WaitingRight
  <2> QED
    BY <2>1 DEF Thread, SameBox
<1>7. UncreatedRest /\ Created' = Created
  BY <1>6 DEF UncreatedRest, Created
<1> DEFINE E == {}
           T == {t}
<1>8. (\A e : e \notin E) /\ (\A u : u \in T <=> u = t)
  OBVIOUS
<1> HIDE DEF E, T
<1>9. \A e \in Conn : e \notin E /\ conn[e].reader \in {"add", "count"} => conn[e].thr \notin T
  BY <1>4, <1>8
<1>10. CASE thread[t].recursion_count # 1
  <2>1. ListsStay
    BY <1>10 DEF Unregistered, ListsStay
  <2>2. ThreadCounted(t)'
    <3>1. (t \in Waiting(Process(t)))'
      BY <2>1 DEF ListsStay, Waiting, Process
    <3> QED
      BY <1>2, <1>10, <3>1 DEF ThreadCounted
  <2>3. \A u \in Thread : u \in T => ThreadCounted(u)' /\ CalledRight(u)'
    BY <1>3, <1>8, <2>2
  <2>4. \A u \in Thread : u \notin T => Rests(u)
    BY <1>8
  <2> QED
    BY <1>5, <1>7, <1>8, <1>9, <2>1, <2>3, <2>4, RestRegistry
<1>11. CASE thread[t].recursion_count = 1
  <2>1. PICK n \in 1..Len(waiting_threads[p]) :
          waiting_threads[p][n] = t /\ waiting_threads'[p] = RemoveAt(waiting_threads[p], n)
    BY <1>1, <1>11 DEF Unregistered
  <2>2. /\ \A q \in Proc \ {p} : waiting_threads'[q] = waiting_threads[q]
        /\ IF t \in Worker
           THEN /\ free_workers'[p] = Append(free_workers[p], t)
                /\ \A q \in Proc \ {p} : free_workers'[q] = free_workers[q]
           ELSE free_workers' = free_workers
    BY <1>1, <1>11 DEF Unregistered
  <2>3. \A q \in Proc : Listed(q)
    BY IInvParts, UniqueTidIs DEF WaitingRight
  <2>4. /\ Waiting(p)' = Waiting(p) \ {t}
        /\ \A q \in Proc : q # p => Waiting(q)' = Waiting(q)
        /\ \A i, j \in 1..Len(waiting_threads'[p]) : waiting_threads'[p][i] = waiting_threads'[p][j] => i = j
    BY <2>1, <2>2, <2>3, IInvParts, WaitingLess
  <2>5. \A q \in Proc : \A u \in Waiting(q) : u \in Thread /\ u \in Created /\ Process(u) = q
    BY IInvParts, ListFacts DEF ListsAre, WaitingRight
  <2>6. \A q \in Proc : \A u \in Waiting(q)' : u \in Waiting(q) /\ u # t
    BY <1>1, <2>4, <2>5
  <2>7. ThreadCounted(t)'
    <3>1. ~(t \in Waiting(Process(t)))'
      BY <1>1, <2>6 DEF Process
    <3> QED
      BY <1>2, <1>11, <3>1 DEF ThreadCounted
  <2>8. \A e \in Conn : conn'[e].thr # t /\ conn'[e].thr = conn[e].thr /\ conn'[e].reader = conn[e].reader
    BY <1>11, LastFacts DEF EndRests
  <2>9. ASSUME NEW q \in Proc, NEW tid, NobodyWaits(q, tid) PROVE NobodyWaits(q, tid)'
    <3>1. \A u \in Waiting(q)' : thread'[u].original_tid # tid
      BY <2>5, <2>6, <2>9 DEF NobodyWaits
    <3> QED
      BY <3>1 DEF NobodyWaits
  <2>10. Targets' /\ Counted' /\ JustCalled'
    <3>1. ASSUME NEW u \in Thread, u # t
          PROVE  (u \in Waiting(Process(u)))' <=> u \in Waiting(Process(u))
      BY <2>4, <3>1, Processes DEF Process
    <3>2. \A u \in Thread : u \notin T =>
              Rests(u) /\ ((u \in Waiting(Process(u)))' <=> u \in Waiting(Process(u)))
      BY <1>8, <3>1
    <3>3. \A u \in Thread : u \in T => ThreadCounted(u)' /\ CalledRight(u)'
      BY <1>3, <1>8, <2>7
    <3>4. ASSUME NEW u \in Thread, NEW tid, NobodyWaits(Process(u), tid) PROVE NobodyWaits(Process(u), tid)'
      <4>1. PICK q \in Proc : q = Process(u)
        BY Processes
      <4>2. NobodyWaits(q, tid)'
        BY <2>9, <3>4, <4>1
      <4> QED
        BY <4>1, <4>2 DEF Process
    <3>5. ASSUME NEW e \in Conn, NobodyWaits(Owner[e], conn[e].msg.tid)
          PROVE  NobodyWaits(Owner[e], conn[e].msg.tid)'
      <4>1. PICK tid : tid = conn[e].msg.tid
        OBVIOUS
      <4>2. NobodyWaits(Owner[e], tid)'
        BY <2>9, <3>5, <4>1, OwnerFacts
      <4>3. conn'[e].msg.tid = tid
        BY <4>1 DEF EndRests
      <4> QED
        BY <4>2, <4>3
    <3>6. \A u \in Thread, k \in CallId : u \notin T /\ AddsIt(u, k) /\ rpc[k].client = "add" =>
              (NobodyWaits(Process(u), Tid[k[1]]) => NobodyWaits(Process(u), Tid[k[1]])')
      BY <3>4
    <3>7. \A e \in Conn : e \notin E /\ conn[e].reader \in {"worker", "add"} =>
              (NobodyWaits(Owner[e], conn[e].msg.tid) => NobodyWaits(Owner[e], conn[e].msg.tid)')
      BY <3>5
    <3>8. \A u \in Created : u \in Created'
      BY <1>7
    <3> QED
      BY <1>5, <1>8, <1>9, <3>2, <3>3, <3>6, <3>7, <3>8, RestThreads
  <2>11. WaitingRight'
    <3>1. UniqueTid'
      <4>1. ASSUME NEW q \in Proc PROVE Listed(q)'
        <5>1. \A u, v \in Waiting(q)' : thread'[u].original_tid = thread'[v].original_tid => u = v
          BY <2>3, <2>5, <2>6 DEF Listed
        <5>2. \A i, j \in 1..Len(waiting_threads'[q]) : waiting_threads'[q][i] = waiting_threads'[q][j] => i = j
          BY <2>2, <2>3, <2>4 DEF Listed
        <5> QED
          BY <5>1, <5>2 DEF Listed
      <4> QED
        BY <4>1, UniqueTidIsNext
    <3>2. ASSUME NEW q \in Proc, NEW u \in Waiting(q)'
          PROVE  /\ u \in Created' /\ Process(u) = q
                 /\ \A c \in Client : thread'[u].original_tid = Tid[c] /\ Home[c] = q => u = c
      BY <1>7, <2>5, <2>6, IInvParts DEF WaitingRight
    <3>3. \A c \in Client : thread'[c].original_tid = Tid[c]
      BY IInvParts DEF WaitingRight, Thread
    <3> QED
      BY <3>1, <3>2, <3>3 DEF WaitingRight, Process
  <2>12. \A q \in Proc :
           /\ \A i, j \in 1..Len(free_workers[q]) : free_workers[q][i] = free_workers[q][j] => i = j
           /\ \A u \in Frees(q) : /\ u \in Worker /\ u \in Created /\ Process(u) = q
                                  /\ u \notin Waiting(q)
                                  /\ \A e \in Conn : conn[e].thr # u
    BY IInvParts DEF FreeRight
  <2>13. \A q \in Proc :
           /\ \A i, j \in 1..Len(free_workers'[q]) : free_workers'[q][i] = free_workers'[q][j] => i = j
           /\ \A u \in Frees(q)' : u \in Frees(q) \/ (u = t /\ q = p /\ t \in Worker)
           /\ \A u \in Frees(q) : u \in Frees(q)'
           /\ q = p /\ t \in Worker => t \in Frees(q)'
    <3>1. CASE t \in Worker
      <4>1. t \notin Frees(p)
        BY <1>1, <2>12
      <4>2. /\ Frees(p)' = Frees(p) \cup {t}
            /\ \A q \in Proc : q # p => Frees(q)' = Frees(q)
            /\ \A i, j \in 1..Len(free_workers'[p]) : free_workers'[p][i] = free_workers'[p][j] => i = j
        BY <2>2, <2>12, <3>1, <4>1, IInvParts, FreesMore
      <4> QED
        BY <2>2, <2>12, <3>1, <4>2
    <3>2. CASE t \notin Worker
      <4>1. \A q \in Proc : Frees(q)' = Frees(q)
        BY <2>2, <3>2 DEF Frees
      <4> QED
        BY <2>2, <2>12, <3>2, <4>1
    <3> QED
      BY <3>1, <3>2
  <2>14. FreeRight'
    <3>1. ASSUME NEW q \in Proc, NEW u \in Frees(q)'
          PROVE  /\ u \in Worker /\ u \in Created' /\ Process(u) = q
                 /\ u \notin Waiting(q)'
                 /\ \A e \in Conn : conn'[e].thr # u
      <4>1. CASE u \in Frees(q)
        BY <1>7, <2>6, <2>8, <2>12, <4>1
      <4>2. CASE u = t /\ q = p /\ t \in Worker
        BY <1>1, <1>7, <2>5, <2>6, <2>8, <4>2
      <4> QED
        BY <2>13, <4>1, <4>2
    <3> QED
      BY <2>13, <3>1 DEF FreeRight, Process
  <2>15. WorkersKept'
    <3> SUFFICES ASSUME NEW u \in Worker
                 PROVE  /\ u \in Created' => \/ u \in Frees(u[1])' \/ u \in Waiting(u[1])'
                                             \/ \E e \in Conn : conn'[e].reader = "add" /\ conn'[e].thr = u
                        /\ u \notin Created' => thread'[u].stack = <<>> /\ thread'[u].wakeup = 0
      BY DEF WorkersKept
    <3>1. /\ u \in Created => \/ u \in Frees(u[1]) \/ u \in Waiting(u[1])
                              \/ \E e \in Conn : conn[e].reader = "add" /\ conn[e].thr = u
          /\ u \notin Created => thread[u].stack = <<>> /\ thread[u].wakeup = 0
      BY IInvParts DEF WorkersKept
    <3>2. u[1] \in Proc
      BY DEF Worker
    <3>3. u = t => u[1] = p
      BY <1>1, ThreadAssumption DEF Process
    <3>4. u # t /\ u \in Waiting(u[1]) => u \in Waiting(u[1])'
      BY <2>4, <3>2
    <3>5. u = t => u \in Frees(u[1])'
      BY <2>13, <3>3
    <3>6. u \in Frees(u[1]) => u \in Frees(u[1])'
      BY <2>13, <3>2
    <3> QED
      BY <1>7, <2>8, <3>1, <3>4, <3>5, <3>6 DEF UncreatedRest
  <2> QED
    BY <2>10, <2>11, <2>14, <2>15 DEF Registry
<1> QED
  BY <1>10, <1>11

-----------------------------------------------------------------------------
(* Calls are unregistered, at either end.                                  *)

\* The other threads, while t moves its handleCall of id on.
LEMMA ServerOthersRest ==
    ASSUME IInv, NEW t \in Thread, NEW id \in CallId, OnTop(t, <<"handleCall", id>>),
           CallsBut(id), rpc'[id].client = rpc[id].client,
           rpc[id].server # "posted", rpc'[id].server # "posted", \A e \in Conn : EndRests(e),
           NEW u \in Thread, u # t, thread'[u].stack = thread[u].stack, SameId(u), SameBox(u)
    PROVE  Rests(u)
<1>1. <<"handleCall", id>> \notin Frames(u)
  BY TopNotElsewhere
<1>2. Frames(u)' = Frames(u)
  BY DEF Frames
<1>3. \A k \in CallId : k = id \/ rpc'[k] = rpc[k]
  BY DEF CallsBut
<1>4. \A k \in CallId : /\ MakesIt(u, k)' <=> MakesIt(u, k)
                        /\ AddsIt(u, k)' <=> AddsIt(u, k)
                        /\ AddsIt(u, k) => rpc'[k].client = rpc[k].client
  BY <1>2, <1>3 DEF MakesIt, AddsIt
<1>5. \A k \in CallId : ServesIt(u, k)' <=> ServesIt(u, k)
  BY <1>1, <1>2, <1>3 DEF ServesIt
<1>6. \A k \in CallId : HasIt(u, k)' <=> HasIt(u, k)
  BY <1>3 DEF HasIt, SameBox
<1>7. \A e \in Conn : /\ GetsIt(u, e)' <=> GetsIt(u, e)
                      /\ AddsWorker(u, e)' <=> AddsWorker(u, e)
  BY DEF GetsIt, AddsWorker, EndRests
<1> QED
  BY <1>4, <1>5, <1>6, <1>7 DEF Rests, SameId

\* Release keeps the invariant: handleCall goes on.
LEMMA ReleaseKeeps ==
    ASSUME IInv, NEW t \in Thread, NEW id \in CallId, Release(t, id)
    PROVE  IInv' /\ ServerMoves(t, id) /\ Unregistered(t)
<1>1. OnTop(t, <<"handleCall", id>>) /\ rpc[id].server = "release"
  <2>1. Serving(t, id, "release")
    BY DEF Release
  <2> QED
    BY <2>1, IInvParts, TopFrame
<1>2. ServesIt(t, id)
  BY <1>1, TopPlaced DEF ServesIt
<1>3. ~JustAdded(t) /\ t \in Waiting(Process(t)) /\ thread[t].original_tid = Tid[id[1]]
  BY <1>2, ServesRegistered
<1>4. findWaitingThread(Process(t), thread[t].original_tid) = t
  BY <1>3, Found, Processes
<1>5. PICK x : x = <<"handleCall", id>>
  OBVIOUS
<1>6. x \in Registrations(t)
  BY <1>2, <1>5, IInvParts, RegistrationFacts DEF RegistrationsAre
<1>7. thread[t].recursion_count >= 1
  BY <1>3, <1>6, CountsDown
<1>8. /\ Unregistered(t)
      /\ UNCHANGED <<nworkers, conn, wire, aborted>>
      /\ ThreadsBut(t) /\ SameBox(t) /\ SameRun(t)
      /\ thread'[t].recursion_count = thread[t].recursion_count - 1
      /\ thread'[t].original_tid = thread[t].original_tid
      /\ CallsBut(id) /\ SameMade(id)
      /\ rpc'[id].client = rpc[id].client /\ rpc'[id].server = "reply"
      /\ rpc'[id].reply = rpc[id].reply /\ rpc'[id].served = rpc[id].served
      /\ rpc'[id].rtid = thread[t].original_tid
      /\ TypeOK' /\ Calm'
  BY <1>4, <1>7, ReleaseDoes, IInvParts
<1>9. \A u \in Thread : /\ thread'[u].stack = thread[u].stack /\ SameBox(u)
                        /\ thread'[u].original_tid = thread[u].original_tid
                        /\ u # t => SameId(u)
                        /\ thread'[u].used_connection = thread[u].used_connection
  BY <1>8 DEF ThreadsBut, SameBox, SameRun, SameId
<1>10. ServerMoves(t, id)
  <2>1. rpc[id].served = "Success"
    BY <1>1, CallFacts
  <2> QED
    BY <1>1, <1>3, <1>8, <1>9, <2>1 DEF ServerMoves, StacksStay, UsedStay, Inside, Through
<1>11. StacksRight'
  BY <1>10, IInvParts, ServerMovesStacks
<1>12. WireStays /\ \A e \in Conn : EndRests(e)
  BY <1>8 DEF WireStays, EndRests
<1>13. Messages'
  <2>1. \A k \in CallId : MessageOf(k) => CallWaits(k)
    BY <1>1, <1>8 DEF MessageOf, CallWaits, CallsBut
  <2> QED
    BY <1>9, <1>12, <2>1, IInvParts, BoxesRestMessages
<1>14. Frames(t)' = Frames(t)
  BY <1>9 DEF Frames
<1>15. Registrations(t)' = Registrations(t) \ {x}
  <2>1. \A k \in CallId : /\ MakesIt(t, k)' <=> (MakesIt(t, k) /\ x # <<"client_call", k>>)
                          /\ ServesIt(t, k)' <=> (ServesIt(t, k) /\ x # <<"handleCall", k>>)
                          /\ HasIt(t, k)' <=> (HasIt(t, k) /\ x # <<"posted", k>>)
    BY <1>1, <1>5, <1>8, <1>9, <1>14 DEF CallsBut, MakesIt, ServesIt, HasIt, SameBox
  <2>2. \A e \in Conn : GetsIt(t, e)' <=> (GetsIt(t, e) /\ x # <<"reader", e>>)
    BY <1>5, <1>8 DEF GetsIt
  <2> QED
    BY <1>8, <2>1, <2>2, IInvParts, RegistrationsLose
<1>16. \A k \in CallId : ~AddsIt(t, k)'
  <2>1. \A k \in CallId : ~AddsIt(t, k)
    BY <1>3, IInvParts, RegistrationFacts DEF RegistrationsAre
  <2> QED
    BY <1>8, <1>14, <2>1 DEF AddsIt, CallsBut
<1>17. Registry'
  <2>1. \A u \in Thread : u # t => Rests(u) /\ thread'[u].stack = thread[u].stack
    BY <1>1, <1>8, <1>9, <1>12, ServerOthersRest
  <2>2. FramesWait
    BY <1>9, StacksWait
  <2>3. \A k \in CallId : rpc[k].client = "wait" => x # <<"client_call", k>>
    BY <1>5
  <2>4. \A e \in Conn : x # <<"reader", e>>
    BY <1>5
  <2> QED
    BY <1>3, <1>6, <1>8, <1>9, <1>12, <1>13, <1>15, <1>16, <2>1, <2>2, <2>3, <2>4, UnregisterRegistry
<1>18. ConnsCounted'
  <2>1. \A k \in CallId : CallStays(k)
    BY <1>1, <1>8 DEF CallStays, CallsBut, SameMade, IsOpen, Inside
  <2> QED
    BY <1>8, <2>1, IInvParts, ConnsStay DEF SameCounts
<1> QED
  BY <1>8, <1>10, <1>11, <1>13, <1>17, <1>18, Together

\* The frames of a stack after one was pushed, or popped.
LEMMA PushedSet ==
    ASSUME IInv, TypeOK', NEW t \in Thread, NEW f \in Frame, Pushed(t, f)
    PROVE  /\ \A g \in Frame : g \in Frames(t)' <=> (g \in Frames(t) \/ g = f)
           /\ \A u \in Thread : u # t => Frames(u)' = Frames(u)
<1>1. FramesTyped /\ FramesTyped' /\ StacksTyped
  BY IInvParts, StackTypesNext
<1>2. PICK s : s = thread[t].stack
  OBVIOUS
<1>3. PICK r : r = thread'[t].stack
  OBVIOUS
<1>4. /\ Len(s) \in Nat /\ Len(r) = Len(s) + 1 /\ r[Len(s) + 1] = f
      /\ \A i \in 1..Len(s) : r[i] = s[i]
  BY <1>1, <1>2, <1>3 DEF Pushed, StacksTyped
<1>5. ASSUME NEW g \in Frame PROVE g \in Frames(t)' <=> (g \in Frames(t) \/ g = f)
  <2>1. g \in Frames(t)' <=> \E i \in 1..Len(r) : r[i] = g
    BY <1>1, <1>3 DEF FramesTyped
  <2>2. g \in Frames(t) <=> \E i \in 1..Len(s) : s[i] = g
    BY <1>1, <1>2 DEF FramesTyped
  <2> QED
    BY <1>4, <2>1, <2>2
<1>6. \A u \in Thread : u # t => Frames(u)' = Frames(u)
  BY DEF Pushed, Frames
<1> QED
  BY <1>5, <1>6

\* The frames of a stack without its top.
LEMMA PoppedSet ==
    ASSUME IInv, TypeOK', NEW t \in Thread, NEW f \in Frame, OnTop(t, f), Popped(t)
    PROVE  /\ \A g \in Frame : g \in Frames(t)' <=> (g \in Frames(t) /\ g # f)
           /\ \A u \in Thread : u # t => Frames(u)' = Frames(u)
<1>1. FramesTyped /\ FramesTyped' /\ StacksTyped
  BY IInvParts, StackTypesNext
<1>2. PICK s : s = thread[t].stack
  OBVIOUS
<1>3. PICK r : r = thread'[t].stack
  OBVIOUS
<1>4. /\ Len(s) \in Nat /\ Len(s) > 0 /\ Len(r) = Len(s) - 1 /\ s[Len(s)] = f
      /\ \A i \in 1..Len(s) - 1 : r[i] = s[i]
  BY <1>1, <1>2, <1>3 DEF Popped, StacksTyped, OnTop
<1>5. \A i \in 1..Len(s) : s[i] = f => i = Len(s)
  BY <1>2, IInvParts, TopIsOnly
<1>6. ASSUME NEW g \in Frame PROVE g \in Frames(t)' <=> (g \in Frames(t) /\ g # f)
  <2>1. g \in Frames(t)' <=> \E i \in 1..Len(r) : r[i] = g
    BY <1>1, <1>3 DEF FramesTyped
  <2>2. g \in Frames(t) <=> \E i \in 1..Len(s) : s[i] = g
    BY <1>1, <1>2 DEF FramesTyped
  <2>3. ASSUME NEW i \in 1..Len(r), r[i] = g PROVE i \in 1..Len(s) /\ s[i] = g /\ g # f
    BY <1>4, <1>5, <2>3
  <2>4. ASSUME NEW i \in 1..Len(s), s[i] = g, g # f PROVE i \in 1..Len(r) /\ r[i] = g
    BY <1>4, <2>4
  <2> QED
    BY <2>1, <2>2, <2>3, <2>4
<1>7. \A u \in Thread : u # t => Frames(u)' = Frames(u)
  BY DEF Popped, Frames
<1> QED
  BY <1>6, <1>7

\* Messages where no box and no reader moves, and stacks keep the calls that wait.
LEMMA FramesWaitMessages ==
    ASSUME Messages, WireStays, FramesWait, \A e \in Conn : EndRests(e),
           \A u \in Thread : SameBox(u) /\ thread'[u].original_tid = thread[u].original_tid,
           \A k \in CallId : MessageOf(k) => CallWaits(k)
    PROVE  Messages'
<1>1. MessagesStay
  <2>1. \A t \in Thread : BoxStays(t)
    BY DEF BoxStays, SameBox
  <2>2. \A e \in Conn : ReaderStays(e)
    BY DEF EndRests, ReaderStays, Holds
  <2> QED
    BY <2>1, <2>2 DEF MessagesStay
<1> QED
  BY <1>1, MessagesStayMessages

\* Return keeps the invariant: client_call returns.
LEMMA ReturnKeeps ==
    ASSUME IInv, NEW t \in Thread, NEW id \in CallId, Return(t, id)
    PROVE  IInv' /\ CallReturns(t, id) /\ Unregistered(t)
<1>1. OnTop(t, <<"client_call", id>>) /\ rpc[id].client = "return"
  <2>1. Calling(t, id, "return")
    BY DEF Return
  <2> QED
    BY <2>1, IInvParts, TopFrame
<1>2. MakesIt(t, id)
  BY <1>1, TopPlaced DEF MakesIt
<1>3. ~JustAdded(t) /\ t \in Waiting(Process(t)) /\ thread[t].original_tid = Tid[id[1]]
  BY <1>1, <1>2, MakesRegistered
<1>4. findWaitingThread(Process(t), rpc[id].tid) = t
  <2>1. rpc[id].tid = Tid[id[1]]
    BY <1>1, CallFacts
  <2> QED
    BY <1>3, <2>1, Found, Processes
<1>5. PICK x : x = <<"client_call", id>>
  OBVIOUS
<1>6. x \in Registrations(t) /\ x \in Frame
  BY <1>2, <1>5, IInvParts, RegistrationFacts, IsFrame DEF RegistrationsAre
<1>7. thread[t].recursion_count >= 1
  BY <1>3, <1>6, CountsDown
<1>8. PICK e \in Conn : e = rpc[id].conn
  BY <1>1, CallFacts
<1>9. conn[e].ref_cnt >= 1
  BY CountersUp
<1>10. /\ Unregistered(t)
       /\ UNCHANGED <<nworkers, wire, aborted>>
       /\ ThreadsBut(t) /\ SameBox(t)
       /\ thread'[t].recursion_count = thread[t].recursion_count - 1
       /\ thread'[t].original_tid = thread[t].original_tid
       /\ thread'[t].used_connection = rpc[id].used
       /\ thread'[t].stack = Front(thread[t].stack)
       /\ CallAt(id, "done", rpc[id].server)
       /\ ConnsBut(e) /\ SameReader(e)
       /\ conn'[e].ref_cnt = conn[e].ref_cnt - 1
       /\ conn'[e].incoming_calls_cnt = conn[e].incoming_calls_cnt
       /\ TypeOK' /\ Calm'
  BY <1>4, <1>7, <1>8, <1>9, ReturnDoes, IInvParts
<1>11. CallsBut(id) /\ SameMade(id) /\ SameAnswer(id) /\ rpc'[id].client = "done" /\ rpc'[id].server = rpc[id].server
  BY <1>10 DEF CallAt
<1>12. \A u \in Thread : /\ SameBox(u) /\ thread'[u].original_tid = thread[u].original_tid
                         /\ u # t => /\ SameId(u) /\ thread'[u].stack = thread[u].stack
                                     /\ thread'[u].used_connection = thread[u].used_connection
  BY <1>10 DEF ThreadsBut, SameBox, SameId
<1>13. Popped(t)
  <2>1. PICK s \in Seq(Frame) : s = thread[t].stack
    BY IInvParts DEF TypeOK, ThreadRec
  <2>2. s # <<>>
    BY <1>1, <2>1 DEF OnTop
  <2>3. Len(Front(s)) = Len(s) - 1 /\ \A i \in 1..Len(s) - 1 : Front(s)[i] = s[i]
    BY <2>1, <2>2, FrontFacts
  <2> QED
    BY <1>10, <1>12, <2>1, <2>3 DEF Popped
<1>14. CallReturns(t, id)
  BY <1>1, <1>10, <1>11, <1>13 DEF CallReturns
<1>15. StacksRight'
  BY <1>10, <1>14, IInvParts, StackTypesNext, CallReturnsStacks
<1>16. WireStays /\ \A f \in Conn : EndRests(f)
  BY <1>10 DEF WireStays, EndRests, ConnsBut, SameReader
<1>17. /\ \A g \in Frame : g \in Frames(t)' <=> (g \in Frames(t) /\ g # x)
       /\ \A u \in Thread : u # t => Frames(u)' = Frames(u)
  BY <1>1, <1>5, <1>6, <1>10, <1>13, PoppedSet
<1>18. FramesWait
  <2> SUFFICES ASSUME NEW u \in Thread, NEW k \in CallId, <<"client_call", k>> \in Frames(u),
                      rpc[k].client = "wait"
               PROVE  <<"client_call", k>> \in Frames(u)'
    BY DEF FramesWait
  <2>1. <<"client_call", k>> # x
    BY <1>1, <1>5
  <2> QED
    BY <1>17, <2>1, IsFrame
<1>19. Messages'
  <2>1. \A k \in CallId : MessageOf(k) => CallWaits(k)
    BY <1>1, <1>11 DEF MessageOf, CallWaits, CallsBut
  <2> QED
    BY <1>12, <1>16, <1>18, <2>1, IInvParts, FramesWaitMessages
<1>20. \A k \in CallId : /\ <<"client_call", k>> \in Frames(t)' <=> (<<"client_call", k>> \in Frames(t) /\ k # id)
                         /\ <<"handleCall", k>> \in Frames(t)' <=> <<"handleCall", k>> \in Frames(t)
  <2> TAKE k \in CallId
  <2>1. <<"client_call", k>> \in Frame /\ <<"handleCall", k>> \in Frame
    BY IsFrame
  <2>2. <<"client_call", k>> # x <=> k # id
    BY <1>5
  <2>3. <<"handleCall", k>> # x
    BY <1>5
  <2> QED
    BY <1>17, <2>1, <2>2, <2>3
<1>21. Registrations(t)' = Registrations(t) \ {x}
  <2>1. \A k \in CallId : /\ MakesIt(t, k)' <=> (MakesIt(t, k) /\ x # <<"client_call", k>>)
                          /\ ServesIt(t, k)' <=> (ServesIt(t, k) /\ x # <<"handleCall", k>>)
                          /\ HasIt(t, k)' <=> (HasIt(t, k) /\ x # <<"posted", k>>)
    BY <1>1, <1>5, <1>11, <1>12, <1>20 DEF CallsBut, MakesIt, ServesIt, HasIt, SameBox
  <2>2. \A f \in Conn : GetsIt(t, f)' <=> (GetsIt(t, f) /\ x # <<"reader", f>>)
    BY <1>5, <1>16 DEF GetsIt, EndRests
  <2> QED
    BY <1>10, <2>1, <2>2, IInvParts, RegistrationsLose
<1>22. \A k \in CallId : ~AddsIt(t, k)'
  <2>1. \A k \in CallId : ~AddsIt(t, k)
    BY <1>3, IInvParts, RegistrationFacts DEF RegistrationsAre
  <2> QED
    BY <1>11, <1>20, <2>1 DEF AddsIt, CallsBut
<1>23. Registry'
  <2>1. \A u \in Thread : u # t => Rests(u) /\ thread'[u].stack = thread[u].stack
    BY <1>1, <1>11, <1>12, <1>16, ClientOthersRest
  <2>2. \A k \in CallId : rpc[k].client = "wait" => x # <<"client_call", k>>
    BY <1>1, <1>5
  <2>3. \A f \in Conn : x # <<"reader", f>>
    BY <1>5
  <2> QED
    BY <1>3, <1>6, <1>10, <1>12, <1>16, <1>18, <1>19, <1>21, <1>22, <2>1, <2>2, <2>3, UnregisterRegistry
<1>24. ConnsCounted'
  BY <1>1, <1>8, <1>10, <1>11, ReturnCounts
<1> QED
  BY <1>10, <1>14, <1>15, <1>19, <1>23, <1>24, Together

-----------------------------------------------------------------------------
(* Steps that leave every thread registered for what it was.               *)

\* A thread that runs or is given something has been created.
LEMMA RunsCreated ==
    IInv => \A t \in Thread : (\E f : OnTop(t, f)) \/ Boxed(t) => t \in Created
<1> SUFFICES ASSUME IInv, NEW t \in Thread, (\E f : OnTop(t, f)) \/ Boxed(t), t \notin Created PROVE FALSE
  OBVIOUS
<1>1. t \in Worker
  BY DEF Created, Thread
<1>2. thread[t].stack = <<>> /\ thread[t].wakeup = 0
  BY <1>1, IInvParts DEF WorkersKept
<1> QED
  BY <1>2 DEF OnTop, Boxed

\* A thread that readers have chosen is one, and has nothing in its box.
LEMMA AimedFacts ==
    IInv => \A e \in Conn : Aims(e) => conn[e].thr \in Thread /\ thread[conn[e].thr].wakeup = 0
<1> SUFFICES ASSUME IInv, NEW e \in Conn, Aims(e)
             PROVE  conn[e].thr \in Thread /\ thread[conn[e].thr].wakeup = 0
  OBVIOUS
<1>1. TargetRight(e)
  BY IInvParts, TargetsAre
<1> QED
  BY <1>1 DEF TargetRight, Created, Thread

\* Registry stays, if all threads and all readers rest.
LEMMA AllRestRegistry ==
    ASSUME IInv, TypeOK', Messages', ListsStay, FramesWait, UncreatedRest,
           \A u \in Thread : Rests(u),
           \A e \in Conn : EndRests(e) /\ TargetRests(e)
    PROVE  Registry'
<1> DEFINE E == {}
<1>1. \A x : x \notin E
  OBVIOUS
<1> HIDE DEF E
<1> QED
  BY <1>1, RestRegistry

\* Leave keeps the invariant: handleCall returns.
LEMMA LeaveKeeps ==
    ASSUME IInv, NEW t \in Thread, NEW id \in CallId, Leave(t, id)
    PROVE  IInv' /\ HandlerLeaves(t, id)
<1>1. OnTop(t, <<"handleCall", id>>) /\ rpc[id].server = "leave"
  <2>1. Serving(t, id, "leave")
    BY DEF Leave
  <2> QED
    BY <2>1, IInvParts, TopFrame
<1>2. rpc[id].served = "Success" /\ ServedAt(id) \in Conn
  BY <1>1, CallFacts DEF Through
<1>3. PICK e \in Conn : e = ServedAt(id)
  BY <1>2
<1>4. conn[e].ref_cnt >= 2
  BY CountersUp
<1>5. /\ UNCHANGED <<waiting_threads, free_workers, nworkers, wire, aborted>>
      /\ ThreadsBut(t) /\ SameId(t) /\ SameBox(t)
      /\ thread'[t].used_connection = thread[t].used_connection
      /\ thread'[t].stack = Front(thread[t].stack)
      /\ CallAt(id, rpc[id].client, "done")
      /\ ConnsBut(e) /\ SameReader(e)
      /\ conn'[e].ref_cnt = conn[e].ref_cnt - 2
      /\ conn'[e].incoming_calls_cnt = conn[e].incoming_calls_cnt
      /\ TypeOK' /\ Calm'
  BY <1>2, <1>3, <1>4, LeaveDoes, IInvParts
<1>6. CallsBut(id) /\ SameMade(id) /\ SameAnswer(id) /\ rpc'[id].server = "done" /\ rpc'[id].client = rpc[id].client
  BY <1>5 DEF CallAt
<1>7. \A u \in Thread : /\ SameBox(u) /\ thread'[u].original_tid = thread[u].original_tid /\ SameId(u)
                        /\ thread'[u].used_connection = thread[u].used_connection
                        /\ u # t => thread'[u].stack = thread[u].stack
  BY <1>5 DEF ThreadsBut, SameBox, SameId
<1>8. Popped(t)
  <2>1. PICK s \in Seq(Frame) : s = thread[t].stack
    BY IInvParts DEF TypeOK, ThreadRec
  <2>2. s # <<>>
    BY <1>1, <2>1 DEF OnTop
  <2>3. Len(Front(s)) = Len(s) - 1 /\ \A i \in 1..Len(s) - 1 : Front(s)[i] = s[i]
    BY <2>1, <2>2, FrontFacts
  <2> QED
    BY <1>5, <1>7, <2>1, <2>3 DEF Popped
<1>9. HandlerLeaves(t, id)
  BY <1>1, <1>5, <1>6, <1>8 DEF HandlerLeaves
<1>10. StacksRight'
  BY <1>5, <1>9, IInvParts, StackTypesNext, HandlerLeavesStacks
<1>11. WireStays /\ \A f \in Conn : EndRests(f)
  BY <1>5 DEF WireStays, EndRests, ConnsBut, SameReader
<1>12. PICK x \in Frame : x = <<"handleCall", id>>
  BY IsFrame
<1>13. /\ \A g \in Frame : g \in Frames(t)' <=> (g \in Frames(t) /\ g # x)
       /\ \A u \in Thread : u # t => Frames(u)' = Frames(u)
  BY <1>1, <1>5, <1>8, <1>12, PoppedSet
<1>14. \A k \in CallId : /\ <<"client_call", k>> \in Frames(t)' <=> <<"client_call", k>> \in Frames(t)
                         /\ k # id => (<<"handleCall", k>> \in Frames(t)' <=> <<"handleCall", k>> \in Frames(t))
  <2> TAKE k \in CallId
  <2>1. <<"client_call", k>> \in Frame /\ <<"handleCall", k>> \in Frame
    BY IsFrame
  <2>2. k # id => <<"handleCall", k>> # x
    BY <1>12
  <2>3. <<"client_call", k>> # x
    BY <1>12
  <2> QED
    BY <1>13, <2>1, <2>2, <2>3
<1>15. FramesWait
  BY <1>13, <1>14 DEF FramesWait
<1>16. Messages'
  <2>1. \A k \in CallId : MessageOf(k) => CallWaits(k)
    BY <1>1, <1>6 DEF MessageOf, CallWaits, CallsBut, SameMade, Through
  <2> QED
    BY <1>7, <1>11, <1>15, <2>1, IInvParts, FramesWaitMessages
<1>17. Rests(t)
  <2>1. \A k \in CallId : /\ MakesIt(t, k)' <=> MakesIt(t, k)
                          /\ AddsIt(t, k)' <=> AddsIt(t, k)
                          /\ AddsIt(t, k) => rpc'[k].client = rpc[k].client
    BY <1>6, <1>14 DEF MakesIt, AddsIt, CallsBut
  <2>2. \A k \in CallId : ServesIt(t, k)' <=> ServesIt(t, k)
    BY <1>1, <1>6, <1>14 DEF ServesIt, CallsBut
  <2>3. \A k \in CallId : HasIt(t, k)' <=> HasIt(t, k)
    BY <1>1, <1>5, <1>6 DEF HasIt, CallsBut, SameBox
  <2>4. \A f \in Conn : /\ GetsIt(t, f)' <=> GetsIt(t, f)
                        /\ AddsWorker(t, f)' <=> AddsWorker(t, f)
    BY <1>11 DEF GetsIt, AddsWorker, EndRests
  <2> QED
    BY <1>5, <2>1, <2>2, <2>3, <2>4 DEF Rests, SameId
<1>18. Registry'
  <2>1. \A u \in Thread : Rests(u)
    <3>1. \A u \in Thread : u # t => Rests(u)
      BY <1>1, <1>6, <1>7, <1>11, ServerOthersRest
    <3> QED
      BY <1>17, <3>1
  <2>2. ListsStay
    BY <1>5, <1>7 DEF ListsStay
  <2>3. UncreatedRest
    <3>1. t \in Created
      BY <1>1, RunsCreated
    <3> QED
      BY <1>7, <3>1 DEF UncreatedRest, Thread, SameBox
  <2>4. \A f \in Conn : TargetRests(f)
    BY <1>7, AimedFacts DEF TargetRests, SameBox
  <2> QED
    BY <1>5, <1>11, <1>15, <1>16, <2>1, <2>2, <2>3, <2>4, AllRestRegistry
<1>19. ConnsCounted'
  BY <1>1, <1>3, <1>5, <1>6, LeaveCounts
<1> QED
  BY <1>5, <1>9, <1>10, <1>16, <1>18, <1>19, Together

\* TakeReturn keeps the invariant: client_call goes on.
LEMMA TakeReturnKeeps ==
    ASSUME IInv, NEW t \in Thread, NEW id \in CallId, TakeReturn(t, id)
    PROVE  IInv' /\ ClientMoves(t, id)
<1>1. thread[t].wakeup > 0 /\ thread[t].wakeup_data.cmd = "CmdReturn"
  BY DEF TakeReturn
<1>2. PICK m : m = thread[t].wakeup_data
  OBVIOUS
<1>3. Boxed(t)
  BY <1>1 DEF Boxed
<1>4. /\ thread[t].wakeup = 1 /\ m \in Msg /\ m.id \in CallId
      /\ rpc[m.id].client = "wait" /\ rpc[m.id].server \in Through
      /\ <<"client_call", m.id>> \in Frames(t)
  BY <1>1, <1>2, <1>3, IInvParts, BoxFacts
<1>5. /\ OnTop(t, <<"client_call", id>>) /\ rpc[id].client = "wait"
      /\ UNCHANGED <<waiting_threads, free_workers, nworkers, conn, wire, aborted>>
      /\ ThreadsBut(t) /\ SameId(t) /\ SameRun(t)
      /\ thread'[t].wakeup = thread[t].wakeup - 1
      /\ CallsBut(id) /\ SameMade(id)
      /\ rpc'[id].client = "return" /\ rpc'[id].server = rpc[id].server
      /\ rpc'[id].rtid = rpc[id].rtid /\ rpc'[id].served = rpc[id].served
      /\ rpc'[id].reply = m.id
      /\ TypeOK' /\ Calm'
  BY <1>2, <1>4, TakeReturnDoes, IInvParts
<1>6. m.id = id
  <2> SUFFICES ASSUME m.id # id PROVE FALSE
    OBVIOUS
  <2>1. PICK i \in 1..Len(thread[t].stack) : thread[t].stack[i] = <<"client_call", m.id>>
    BY <1>4, IInvParts, IsFrame DEF FramesTyped
  <2>2. PICK n \in 1..Len(thread[t].stack) : n = Len(thread[t].stack) /\ thread[t].stack[n] = <<"client_call", id>>
    BY <1>5, IInvParts DEF OnTop, StacksTyped
  <2>3. i < n
    BY <2>1, <2>2, IInvParts DEF StacksTyped
  <2>4. Before(m.id, id)
    BY <2>1, <2>2, <2>3, IInvParts DEF LaterAbove
  <2>5. IsOpen(m.id) /\ IsOpen(id)
    BY <1>4, <1>5 DEF IsOpen
  <2> QED
    BY <1>4, <2>4, <2>5, IInvParts DEF CallsNest, Through
<1>7. \A u \in Thread : /\ thread'[u].stack = thread[u].stack /\ SameId(u)
                        /\ thread'[u].original_tid = thread[u].original_tid
                        /\ thread'[u].used_connection = thread[u].used_connection
                        /\ u # t => SameBox(u)
  BY <1>5 DEF ThreadsBut, SameBox, SameRun, SameId
<1>8. ClientMoves(t, id)
  BY <1>4, <1>5, <1>6, <1>7 DEF ClientMoves, StacksStay, IsOpen
<1>9. StacksRight'
  BY <1>8, IInvParts, ClientMovesStacks
<1>10. WireStays /\ \A f \in Conn : EndRests(f)
  BY <1>5 DEF WireStays, EndRests
<1>11. FramesWait
  BY <1>7, StacksWait
<1>12. thread'[t].wakeup = 0
  BY <1>4, <1>5
<1>13. Messages'
  <2>1. \A f \in Conn : ReaderStays(f)
    BY <1>10 DEF EndRests, ReaderStays, Holds
  <2>2. \A u \in Thread \ {t} : BoxStays(u)
    BY <1>7 DEF BoxStays, SameBox
  <2>3. \A k \in CallId \ {id} : CallWaits(k)
    BY <1>5 DEF CallsBut, CallWaits
  <2>4. MessageTaken(t)
    BY <1>2, <1>3, <1>6, <1>10, <1>11, <1>12, <2>1, <2>2, <2>3 DEF MessageTaken, Boxed
  <2> QED
    BY <2>4, IInvParts, MessageTakenMessages
<1>14. Frames(t)' = Frames(t)
  BY <1>7 DEF Frames
<1>15. Rests(t)
  <2>1. \A k \in CallId : /\ MakesIt(t, k)' <=> MakesIt(t, k)
                          /\ AddsIt(t, k)' <=> AddsIt(t, k)
                          /\ AddsIt(t, k) => rpc'[k].client = rpc[k].client
    BY <1>5, <1>14 DEF MakesIt, AddsIt, CallsBut
  <2>2. \A k \in CallId : ServesIt(t, k)' <=> ServesIt(t, k)
    BY <1>5, <1>14 DEF ServesIt, CallsBut
  <2>3. \A k \in CallId : HasIt(t, k)' <=> HasIt(t, k)
    BY <1>2, <1>4, <1>12 DEF HasIt, Through
  <2>4. \A f \in Conn : /\ GetsIt(t, f)' <=> GetsIt(t, f)
                        /\ AddsWorker(t, f)' <=> AddsWorker(t, f)
    BY <1>10 DEF GetsIt, AddsWorker, EndRests
  <2> QED
    BY <1>5, <2>1, <2>2, <2>3, <2>4 DEF Rests, SameId
<1>16. Registry'
  <2>1. \A u \in Thread : Rests(u)
    <3>1. \A u \in Thread : u # t => Rests(u)
      BY <1>5, <1>7, <1>10, ClientOthersRest
    <3> QED
      BY <1>15, <3>1
  <2>2. ListsStay
    BY <1>5, <1>7 DEF ListsStay
  <2>3. UncreatedRest
    <3>1. t \in Created
      BY <1>3, RunsCreated
    <3> QED
      BY <1>7, <3>1 DEF UncreatedRest, Thread, SameBox
  <2>4. \A f \in Conn : TargetRests(f)
    <3> SUFFICES ASSUME NEW f \in Conn, Aims(f) PROVE TargetRests(f)
      BY DEF TargetRests
    <3>1. conn[f].thr \in Thread /\ conn[f].thr # t
      BY <1>4, AimedFacts
    <3> QED
      BY <1>7, <3>1 DEF TargetRests, SameBox
  <2> QED
    BY <1>5, <1>10, <1>11, <1>13, <2>1, <2>2, <2>3, <2>4, AllRestRegistry
<1>17. ConnsCounted'
  <2>1. \A k \in CallId : CallStays(k)
    BY <1>5 DEF CallStays, CallsBut, SameMade, IsOpen
  <2> QED
    BY <1>5, <2>1, IInvParts, ConnsStay DEF SameCounts
<1> QED
  BY <1>5, <1>8, <1>9, <1>13, <1>16, <1>17, Together

-----------------------------------------------------------------------------
(* A call begins, and begins to be served.                                 *)

\* A pushed frame, as the stacks before and after are lists.
LEMMA AppendPushes ==
    ASSUME TypeOK, NEW t \in Thread, NEW f \in Frame,
           thread'[t].stack = Append(thread[t].stack, f), ThreadsBut(t), SameId(t)
    PROVE  Pushed(t, f)
<1>1. PICK s \in Seq(Frame) : s = thread[t].stack
  BY DEF TypeOK, ThreadRec
<1>2. PICK r : r = Append(s, f)
  OBVIOUS
<1>3. /\ Len(r) = Len(s) + 1 /\ r[Len(s) + 1] = f
      /\ \A i \in 1..Len(s) : r[i] = s[i]
  BY <1>1, <1>2, AppendFacts
<1>4. thread'[t].stack = r
  BY <1>1, <1>2
<1>5. /\ \A u \in Thread \ {t} : thread'[u].stack = thread[u].stack
      /\ \A u \in Thread : thread'[u].original_tid = thread[u].original_tid
      /\ \A u \in Thread \ {t} : thread'[u].used_connection = thread[u].used_connection
  BY DEF ThreadsBut, SameId
<1> QED
  BY <1>1, <1>3, <1>4, <1>5 DEF Pushed

\* ClientCall keeps the invariant: a call begins.
LEMMA ClientCallKeeps ==
    ASSUME IInv, TidsDiffer, NEW t \in Thread, t \in Created, NEW s, ClientCall(t, s)
    PROVE  IInv' /\ \E id \in CallId, e \in Conn : OpensCall(t, id, e)
<1>1. thread[t].used_connection # None => Owner[thread[t].used_connection] = Process(t)
  BY IInvParts DEF UsedRight
<1>2. PICK id \in CallId, e \in Conn :
           /\ Owner[e] = Process(t)
           /\ rpc[id].client = "none"
           /\ \A k \in CallId : Before(k, id) => rpc[k].client # "none"
           /\ \/ Len(thread[t].stack) = 0 /\ t = id[1]
              \/ \E k \in CallId : /\ OnTop(t, <<"handleCall", k>>)
                                   /\ rpc[k].server = "running" /\ k[1] = id[1]
           /\ UNCHANGED <<waiting_threads, free_workers, nworkers, wire, aborted>>
           /\ ThreadsBut(t) /\ SameId(t) /\ SameBox(t)
           /\ thread'[t].used_connection = thread[t].used_connection
           /\ thread'[t].stack = Append(thread[t].stack, <<"client_call", id>>)
           /\ CallsBut(id) /\ SameAnswer(id)
           /\ rpc'[id].server = rpc[id].server /\ rpc'[id].client = "acquire"
           /\ rpc'[id].conn = e /\ rpc'[id].used = thread[t].used_connection
           /\ rpc'[id].tid = thread[t].original_tid
           /\ ConnsBut(e) /\ SameReader(e)
           /\ conn'[e].ref_cnt = conn[e].ref_cnt + 1
           /\ conn'[e].incoming_calls_cnt = conn[e].incoming_calls_cnt
           /\ TypeOK' /\ Calm'
  BY <1>1, IInvParts, ClientCallDoes
<1>3. PICK x \in Frame : x = <<"client_call", id>>
  BY IsFrame
<1>4. Pushed(t, x)
  BY <1>2, <1>3, IInvParts, AppendPushes
<1>5. thread[t].original_tid = Tid[id[1]]
  <2>1. CASE t = id[1]
    BY <2>1, Clients, IInvParts DEF WaitingRight
  <2>2. CASE \E k \in CallId : /\ OnTop(t, <<"handleCall", k>>)
                               /\ rpc[k].server = "running" /\ k[1] = id[1]
    BY <2>2, TopPlaced
  <2> QED
    BY <1>2, <2>1, <2>2
<1>6. OpensCall(t, id, e)
  BY <1>2, <1>3, <1>4, <1>5 DEF OpensCall
<1>7. StacksRight'
  BY <1>2, <1>6, IInvParts, StackTypesNext, OpensCallStacks
<1>8. /\ \A g \in Frame : g \in Frames(t)' <=> (g \in Frames(t) \/ g = x)
      /\ \A u \in Thread : u # t => Frames(u)' = Frames(u)
  BY <1>2, <1>4, PushedSet
<1>9. \A k \in CallId : /\ k # id => (<<"client_call", k>> \in Frames(t)' <=> <<"client_call", k>> \in Frames(t))
                        /\ <<"handleCall", k>> \in Frames(t)' <=> <<"handleCall", k>> \in Frames(t)
                        /\ <<"client_call", k>> \in Frames(t) => <<"client_call", k>> \in Frames(t)'
  <2> TAKE k \in CallId
  <2>1. <<"client_call", k>> \in Frame /\ <<"handleCall", k>> \in Frame
    BY IsFrame
  <2>2. k # id => <<"client_call", k>> # x
    BY <1>3
  <2>3. <<"handleCall", k>> # x
    BY <1>3
  <2> QED
    BY <1>8, <2>1, <2>2, <2>3
<1>10. FramesWait
  BY <1>8, <1>9 DEF FramesWait
<1>11. WireStays /\ \A f \in Conn : EndRests(f)
  BY <1>2 DEF WireStays, EndRests, ConnsBut, SameReader
<1>12. \A u \in Thread : /\ SameBox(u) /\ thread'[u].original_tid = thread[u].original_tid /\ SameId(u)
                         /\ u # t => thread'[u].stack = thread[u].stack
  BY <1>2 DEF ThreadsBut, SameBox, SameId
<1>13. Messages'
  <2>1. \A k \in CallId : MessageOf(k) => CallWaits(k)
    BY <1>2 DEF MessageOf, CallWaits, CallsBut
  <2> QED
    BY <1>10, <1>11, <1>12, <2>1, IInvParts, FramesWaitMessages
<1>14. ASSUME NEW u \in Thread PROVE <<"client_call", id>> \notin Frames(u)
  <2> SUFFICES ASSUME <<"client_call", id>> \in Frames(u) PROVE FALSE
    OBVIOUS
  <2>1. PICK i \in 1..Len(thread[u].stack) : thread[u].stack[i] = <<"client_call", id>>
    BY IInvParts, IsFrame DEF FramesTyped
  <2>2. IsOpen(id)
    BY <2>1, IInvParts DEF FramesPlaced
  <2> QED
    BY <1>2, <2>2 DEF IsOpen
<1>15. rpc[id].server = "none"
  BY <1>2, CallFacts
<1>16. ASSUME NEW u \in Thread PROVE Rests(u)
  <2>1. \A k \in CallId : /\ k # id => (<<"client_call", k>> \in Frames(u)' <=> <<"client_call", k>> \in Frames(u))
                          /\ <<"handleCall", k>> \in Frames(u)' <=> <<"handleCall", k>> \in Frames(u)
    BY <1>8, <1>9
  <2>2. \A k \in CallId : k = id \/ rpc'[k] = rpc[k]
    BY <1>2 DEF CallsBut
  <2>3. \A k \in CallId : /\ MakesIt(u, k)' <=> MakesIt(u, k)
                          /\ AddsIt(u, k)' <=> AddsIt(u, k)
                          /\ AddsIt(u, k) => rpc'[k].client = rpc[k].client
    BY <1>2, <1>14, <2>1, <2>2 DEF MakesIt, AddsIt
  <2>4. \A k \in CallId : ServesIt(u, k)' <=> ServesIt(u, k)
    BY <1>2, <2>1, <2>2 DEF ServesIt
  <2>5. \A k \in CallId : HasIt(u, k)' <=> HasIt(u, k)
    BY <1>2, <1>12, <2>2 DEF HasIt, SameBox
  <2>6. \A f \in Conn : /\ GetsIt(u, f)' <=> GetsIt(u, f)
                        /\ AddsWorker(u, f)' <=> AddsWorker(u, f)
    BY <1>11 DEF GetsIt, AddsWorker, EndRests
  <2>7. SameId(u)
    BY <1>12
  <2> QED
    BY <2>3, <2>4, <2>5, <2>6, <2>7 DEF Rests, SameId
<1>17. Registry'
  <2>1. ListsStay
    BY <1>2, <1>12 DEF ListsStay
  <2>2. UncreatedRest
    BY <1>12 DEF UncreatedRest, Thread, SameBox
  <2>3. \A f \in Conn : TargetRests(f)
    BY <1>12, AimedFacts DEF TargetRests, SameBox
  <2> QED
    BY <1>2, <1>10, <1>11, <1>13, <1>16, <2>1, <2>2, <2>3, AllRestRegistry
<1>18. ConnsCounted'
  BY <1>2, <1>15, OpensCounts
<1> QED
  BY <1>2, <1>6, <1>7, <1>13, <1>17, <1>18, Together

\* HandleCall keeps the invariant: a thread begins to serve a call.
LEMMA HandleCallKeeps ==
    ASSUME IInv, TidsDiffer, NEW t \in Thread, HandleCall(t)
    PROVE  IInv' /\ \E id \in CallId : TakesCall(t, id)
<1>1. Boxed(t)
  BY DEF HandleCall, Boxed
<1>2. PICK m : m = thread[t].wakeup_data
  OBVIOUS
<1>3. /\ thread[t].wakeup = 1
      /\ m \in Msg /\ m.id \in CallId /\ m.tid = Tid[m.id[1]] /\ thread[t].original_tid = m.tid
      /\ MessageOf(m.id) /\ rpc[m.id].client = "wait"
      /\ \/ /\ m.cmd = "CmdCall" /\ rpc[m.id].server = "posted"
            /\ thread[t].wakeup_conn = ServedAt(m.id) /\ Owner[ServedAt(m.id)] = Process(t)
         \/ /\ m.cmd = "CmdReturn" /\ rpc[m.id].server \in Through
            /\ <<"client_call", m.id>> \in Frames(t)
  BY <1>1, <1>2, IInvParts, BoxFacts
<1>4. m.cmd = "CmdCall"
  <2> SUFFICES ASSUME m.cmd # "CmdCall" PROVE FALSE
    OBVIOUS
  <2>1. <<"client_call", m.id>> \in Frames(t)
    BY <1>3
  <2>2. PICK i \in 1..Len(thread[t].stack) : thread[t].stack[i] = <<"client_call", m.id>>
    BY <1>3, <2>1, IInvParts, IsFrame DEF FramesTyped
  <2>3. thread[t].stack = <<>>
    BY <1>2 DEF HandleCall, Idle
  <2> QED
    BY <2>2, <2>3, IInvParts DEF StacksTyped
<1>5. PICK id \in CallId : id = m.id
  BY <1>3
<1>6. ServedAt(id) \in Conn
  BY <1>3, <1>5, CallFacts
<1>7. PICK e \in Conn : e = ServedAt(id)
  BY <1>6
<1>8. /\ rpc[id].server = "posted" /\ rpc[id].client = "wait" /\ thread[t].wakeup_conn = e
      /\ Owner[e] = Process(t) /\ thread[t].original_tid = Tid[id[1]]
  BY <1>3, <1>4, <1>5, <1>7
<1>9. /\ \/ t \in Worker /\ Len(thread[t].stack) = 0
         \/ \E k \in CallId : OnTop(t, <<"client_call", k>>) /\ rpc[k].client = "wait"
      /\ UNCHANGED <<waiting_threads, free_workers, nworkers, wire, aborted>>
      /\ ThreadsBut(t) /\ SameId(t)
      /\ thread'[t].wakeup = thread[t].wakeup - 1
      /\ thread'[t].used_connection = e
      /\ thread'[t].stack = Append(thread[t].stack, <<"handleCall", id>>)
      /\ CallAt(id, rpc[id].client, "running")
      /\ ConnsBut(e) /\ SameReader(e)
      /\ conn'[e].ref_cnt = conn[e].ref_cnt + 1
      /\ conn'[e].incoming_calls_cnt = conn[e].incoming_calls_cnt + 1
      /\ TypeOK' /\ Calm'
  BY <1>2, <1>3, <1>4, <1>5, <1>8, IInvParts, HandleCallDoes
<1>10. CallsBut(id) /\ SameMade(id) /\ SameAnswer(id) /\ rpc'[id].client = "wait" /\ rpc'[id].server = "running"
  BY <1>8, <1>9 DEF CallAt
<1>11. PICK x : x = <<"posted", id>>
  OBVIOUS
<1>12. HasIt(t, id)
  BY <1>2, <1>3, <1>5, <1>8 DEF HasIt
<1>13. x \in Registrations(t)
  BY <1>11, <1>12, IInvParts, RegistrationFacts DEF RegistrationsAre
<1>14. ~JustAdded(t) /\ t \in Waiting(Process(t))
  <2>1. \A k \in CallId : AddsIt(t, k) => x # <<"client_call", k>>
    BY <1>11
  <2> QED
    BY <1>13, <2>1, Registered
<1>15. PICK y \in Frame : y = <<"handleCall", id>>
  BY IsFrame
<1>16. Pushed(t, y)
  BY <1>9, <1>15, IInvParts, AppendPushes
<1>17. TakesCall(t, id)
  <2>1. Process(t) = Home[id[1]] => t = id[1]
    BY <1>8, <1>14, Clients, Processes, IInvParts DEF WaitingRight
  <2>2. t \in Client => id[1] = t
    <3>1. t \in Client => Tid[t] = Tid[id[1]]
      BY <1>8, IInvParts DEF WaitingRight
    <3> QED
      BY <3>1, Clients DEF TidsDiffer
  <2>3. t \in Worker => t \notin Client
    BY ThreadAssumption
  <2> QED
    BY <1>7, <1>8, <1>9, <1>10, <1>15, <1>16, <2>1, <2>2, <2>3 DEF TakesCall
<1>18. StacksRight'
  BY <1>9, <1>17, IInvParts, StackTypesNext, TakesCallStacks
<1>19. /\ \A g \in Frame : g \in Frames(t)' <=> (g \in Frames(t) \/ g = y)
       /\ \A u \in Thread : u # t => Frames(u)' = Frames(u)
  BY <1>9, <1>16, PushedSet
<1>20. \A k \in CallId : /\ <<"client_call", k>> \in Frames(t)' <=> <<"client_call", k>> \in Frames(t)
                         /\ <<"handleCall", k>> \in Frames(t)' <=> (<<"handleCall", k>> \in Frames(t) \/ k = id)
  <2> TAKE k \in CallId
  <2>1. <<"client_call", k>> \in Frame /\ <<"handleCall", k>> \in Frame
    BY IsFrame
  <2>2. <<"handleCall", k>> = y <=> k = id
    BY <1>15
  <2>3. <<"client_call", k>> # y
    BY <1>15
  <2> QED
    BY <1>19, <2>1, <2>2, <2>3
<1>21. FramesWait
  BY <1>19, <1>20 DEF FramesWait
<1>22. WireStays /\ \A f \in Conn : EndRests(f)
  BY <1>9 DEF WireStays, EndRests, ConnsBut, SameReader
<1>23. \A u \in Thread : /\ thread'[u].original_tid = thread[u].original_tid /\ SameId(u)
                         /\ u # t => SameBox(u) /\ thread'[u].stack = thread[u].stack
  BY <1>9 DEF ThreadsBut, SameBox, SameId
<1>24. thread'[t].wakeup = 0
  BY <1>3, <1>9
<1>25. Messages'
  <2>1. \A f \in Conn : ReaderStays(f)
    BY <1>22 DEF EndRests, ReaderStays, Holds
  <2>2. \A u \in Thread \ {t} : BoxStays(u)
    BY <1>23 DEF BoxStays, SameBox
  <2>3. \A k \in CallId \ {id} : CallWaits(k)
    BY <1>10 DEF CallsBut, CallWaits
  <2>4. MessageTaken(t)
    BY <1>1, <1>2, <1>5, <1>21, <1>22, <1>24, <2>1, <2>2, <2>3 DEF MessageTaken, Boxed
  <2> QED
    BY <2>4, IInvParts, MessageTakenMessages
<1>26. \A k \in CallId : k = id \/ rpc'[k] = rpc[k]
  BY <1>10 DEF CallsBut
<1>27. ASSUME NEW u \in Thread PROVE <<"handleCall", id>> \notin Frames(u)
  <2> SUFFICES ASSUME <<"handleCall", id>> \in Frames(u) PROVE FALSE
    OBVIOUS
  <2>1. PICK i \in 1..Len(thread[u].stack) : thread[u].stack[i] = <<"handleCall", id>>
    BY IInvParts, IsFrame DEF FramesTyped
  <2>2. rpc[id].server \in Inside
    BY <2>1, IInvParts, SMTT(30) DEF FramesPlaced
  <2> QED
    BY <1>8, <2>2 DEF Inside
<1>28. ASSUME NEW u \in Thread, u # t PROVE Rests(u)
  <2>1. Frames(u)' = Frames(u)
    BY <1>19, <1>28
  <2>2. \A k \in CallId : /\ MakesIt(u, k)' <=> MakesIt(u, k)
                          /\ AddsIt(u, k)' <=> AddsIt(u, k)
                          /\ AddsIt(u, k) => rpc'[k].client = rpc[k].client
    BY <1>8, <1>10, <1>26, <2>1 DEF MakesIt, AddsIt
  <2>3. \A k \in CallId : ServesIt(u, k)' <=> ServesIt(u, k)
    BY <1>26, <1>27, <2>1 DEF ServesIt
  <2>4. \A k \in CallId : HasIt(u, k)' <=> HasIt(u, k)
    <3>1. SameBox(u)
      BY <1>23, <1>28
    <3>2. ~HasIt(u, id)
      <4>1. thread[u].wakeup > 0 /\ thread[u].wakeup_data.id = id => Boxed(u)
        BY DEF Boxed
      <4>2. OneMessage
        BY IInvParts
      <4> QED
        BY <1>1, <1>2, <1>5, <1>28, <4>1, <4>2, OneParts DEF HasIt
    <3> QED
      BY <1>10, <1>26, <3>1, <3>2 DEF HasIt, SameBox
  <2>5. \A f \in Conn : /\ GetsIt(u, f)' <=> GetsIt(u, f)
                        /\ AddsWorker(u, f)' <=> AddsWorker(u, f)
    BY <1>22 DEF GetsIt, AddsWorker, EndRests
  <2>6. SameId(u)
    BY <1>23
  <2> QED
    BY <2>2, <2>3, <2>4, <2>5, <2>6 DEF Rests, SameId
<1>29. y \notin Registrations(t)
  <2>1. ~ServesIt(t, id)
    BY <1>27 DEF ServesIt
  <2> QED
    BY <1>15, <2>1, IInvParts, RegistrationFacts DEF RegistrationsAre
<1>30. Registrations(t)' = (Registrations(t) \ {x}) \cup {y}
  <2> DEFINE R == (Registrations(t) \ {x}) \cup {y}
  <2>1. \A k \in CallId : /\ <<"client_call", k>> \in R <=> MakesIt(t, k)
                          /\ <<"handleCall", k>> \in R <=> (ServesIt(t, k) \/ k = id)
                          /\ <<"posted", k>> \in R <=> (HasIt(t, k) /\ k # id)
    BY <1>11, <1>15, IInvParts, RegistrationFacts DEF RegistrationsAre
  <2>2. \A f \in Conn : <<"reader", f>> \in R <=> GetsIt(t, f)
    BY <1>11, <1>15, IInvParts, RegistrationFacts DEF RegistrationsAre
  <2>3. \A z \in R : IsRegistration(z)
    BY <1>15, IInvParts, RegistrationFacts DEF RegistrationsAre, IsRegistration
  <2> HIDE DEF R
  <2>4. \A k \in CallId : MakesIt(t, k)' <=> MakesIt(t, k)
    BY <1>8, <1>10, <1>20, <1>26 DEF MakesIt
  <2>5. \A k \in CallId : ServesIt(t, k)' <=> (ServesIt(t, k) \/ k = id)
    BY <1>10, <1>20, <1>26 DEF ServesIt
  <2>6. \A k \in CallId : HasIt(t, k)' <=> (HasIt(t, k) /\ k # id)
    BY <1>2, <1>5, <1>24 DEF HasIt
  <2>7. \A f \in Conn : GetsIt(t, f)' <=> GetsIt(t, f)
    BY <1>22 DEF GetsIt, EndRests
  <2>8. Registrations(t)' = R
    BY <1>9, <2>1, <2>2, <2>3, <2>4, <2>5, <2>6, <2>7, RegistrationsTo
  <2> QED
    BY <2>8 DEF R
<1>31. ThreadCounted(t)'
  <2>1. /\ IsFiniteSet(Registrations(t) \ {x})
        /\ Cardinality(Registrations(t) \ {x}) = thread[t].recursion_count - 1
        /\ thread[t].recursion_count \in Nat
    BY <1>13, <1>14, CountsDown
  <2>2. PICK Q : Q = Registrations(t) \ {x}
    OBVIOUS
  <2>3. PICK R : R = Q \cup {y}
    OBVIOUS
  <2>4. IsFiniteSet(R) /\ Cardinality(R) = Cardinality(Q) + 1
    BY <1>29, <2>1, <2>2, <2>3, OneMore
  <2>5. Registrations(t)' = R /\ R # {}
    BY <1>30, <2>2, <2>3
  <2>6. thread'[t].recursion_count = Cardinality(R)
    BY <1>9, <2>1, <2>2, <2>4 DEF SameId
  <2>7. (t \in Waiting(Process(t)))'
    BY <1>9, <1>14 DEF Waiting, Process
  <2> QED
    BY <2>4, <2>5, <2>6, <2>7 DEF ThreadCounted
<1>32. CalledRight(t)'
  <2>1. \A k \in CallId : ~AddsIt(t, k)
    BY <1>14, IInvParts, RegistrationFacts DEF RegistrationsAre
  <2>2. \A k \in CallId : ~AddsIt(t, k)'
    BY <1>8, <1>10, <1>20, <1>26, <2>1 DEF AddsIt
  <2> QED
    BY <2>2 DEF CalledRight
<1>33. Registry'
  <2> DEFINE E == {}
             T == {t}
  <2>1. (\A z : z \notin E) /\ (\A u : u \in T <=> u = t)
    OBVIOUS
  <2> HIDE DEF E, T
  <2>2. ListsStay
    BY <1>9, <1>23 DEF ListsStay
  <2>3. UncreatedRest
    <3>1. t \in Created
      BY <1>1, RunsCreated
    <3> QED
      BY <1>23, <3>1 DEF UncreatedRest, Thread, SameBox
  <2>4. \A f \in Conn : TargetRests(f)
    <3> SUFFICES ASSUME NEW f \in Conn, Aims(f) PROVE TargetRests(f)
      BY DEF TargetRests
    <3>1. conn[f].thr \in Thread /\ conn[f].thr # t
      BY <1>3, AimedFacts
    <3> QED
      BY <1>23, <3>1 DEF TargetRests, SameBox
  <2>5. \A u \in Thread : u \notin T => Rests(u)
    BY <1>28, <2>1
  <2>6. \A u \in Thread : u \in T => ThreadCounted(u)' /\ CalledRight(u)'
    BY <1>31, <1>32, <2>1
  <2>7. \A f \in Conn : f \notin E /\ conn[f].reader \in {"add", "count"} => conn[f].thr \notin T
    BY <1>14, <2>1, IInvParts, RegistrationFacts DEF RegistrationsAre, AddsWorker
  <2> QED
    BY <1>9, <1>21, <1>22, <1>25, <2>1, <2>2, <2>3, <2>4, <2>5, <2>6, <2>7, RestRegistry
<1>34. ConnsCounted'
  BY <1>7, <1>8, <1>9, <1>10, TakesCounts
<1> QED
  BY <1>9, <1>17, <1>18, <1>25, <1>33, <1>34, Together

=============================================================================
