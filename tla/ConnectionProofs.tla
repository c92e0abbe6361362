--------------------------- MODULE ConnectionProofs ---------------------------
(***************************************************************************)
(* Proofs about Connection for any number of calls, requests and handles.  *)
(***************************************************************************)
EXTENDS Connection, FiniteSetTheorems, TLAPS

\* A message not handed over yet is about a call nobody serves.
MsgFresh ==
    reader = "post" /\ msg.cmd = "CmdCall" => call[msg.id] = "none"

IInv ==
    /\ TypeOK
    /\ MsgFresh
    /\ CallsCounted
    /\ RefsCounted
    /\ EmitExclusive
    /\ CleanupOnce
    /\ ReaderGoneMeansClosed
    /\ NoMissedCleanup

-----------------------------------------------------------------------------
(* The sets that are counted are finite, and change by one element.        *)

\* Every set of calls or of requests the counters are about is finite.
LEMMA CountedFinite ==
    /\ IsFiniteSet(Inside) /\ Cardinality(Inside) \in Nat
    /\ IsFiniteSet(Arrived) /\ Cardinality(Arrived) \in Nat
    /\ IsFiniteSet(Handled) /\ Cardinality(Handled) \in Nat
    /\ IsFiniteSet(Holding) /\ Cardinality(Holding) \in Nat
<1>1. Inside \subseteq Call /\ Arrived \subseteq Call /\ Handled \subseteq Call
      /\ Holding \subseteq Request
  BY DEF Inside, Arrived, Handled, Holding
<1>2. IsFiniteSet(Inside) /\ IsFiniteSet(Arrived) /\ IsFiniteSet(Handled)
      /\ IsFiniteSet(Holding)
  BY <1>1, FS_Subset, CallAssumption, RequestAssumption
<1> QED
  BY <1>2, FS_CardinalityType

\* A finite set that gains or loses an element counts one more or one less.
LEMMA CountAdd ==
    ASSUME NEW S, IsFiniteSet(S), NEW T, NEW x, x \notin S, T = S \cup {x}
    PROVE  Cardinality(T) = Cardinality(S) + 1
BY FS_AddElement

LEMMA CountRemove ==
    ASSUME NEW S, IsFiniteSet(S), NEW T, NEW x, x \in S, T = S \ {x}
    PROVE  Cardinality(T) = Cardinality(S) - 1
BY FS_RemoveElement

\* Counting one more than an element leaves another one.
LEMMA CountPositive ==
    ASSUME NEW S, IsFiniteSet(S), Cardinality(S) # 0
    PROVE  \E x : x \in S
BY FS_EmptySet

-----------------------------------------------------------------------------
(* How the three counts follow a call, and the fourth a request.           *)

In(pc, S) == IF pc \in S THEN 1 ELSE 0
InsidePC == {"running", "sending", "callout"}
IdlePC == {"none", "done"}
UnhandledPC == {"none", "posted", "done"}

\* Call k, or request o, goes from a to b and no other one moves.
CallMove(k, a, b) == call[k] = a /\ call' = [call EXCEPT ![k] = b]
RequestMove(o, a, b) == request[o] = a /\ request' = [request EXCEPT ![o] = b]

\* Two sets that differ at most in k count alike, but for k.
LEMMA CountFollows ==
    ASSUME NEW F, NEW G, NEW k, IsFiniteSet(F), IsFiniteSet(G),
           \A x : x # k => (x \in G <=> x \in F)
    PROVE  /\ Cardinality(F) \in Nat /\ Cardinality(G) \in Nat
           /\ Cardinality(G) + In(k, F) = Cardinality(F) + In(k, G)
<1>1. Cardinality(F) \in Nat /\ Cardinality(G) \in Nat
  BY FS_CardinalityType
<1>2. CASE k \in F <=> k \in G
  <2>1. F = G
    BY <1>2
  <2> QED BY <1>1, <2>1 DEF In
<1>3. CASE k \in F /\ k \notin G
  <2>1. G = F \ {k}
    BY <1>3
  <2>2. Cardinality(G) = Cardinality(F) - 1
    BY <1>3, <2>1, CountRemove
  <2> QED BY <1>1, <1>3, <2>2 DEF In
<1>4. CASE k \notin F /\ k \in G
  <2>1. G = F \cup {k}
    BY <1>4
  <2>2. Cardinality(G) = Cardinality(F) + 1
    BY <1>4, <2>1, CountAdd
  <2> QED BY <1>1, <1>4, <2>2 DEF In
<1> QED
  BY <1>2, <1>3, <1>4

\* When only call k moves, each of the three counts of calls follows it.
LEMMA CallMoves ==
    ASSUME TypeOK, NEW k \in Call, NEW a, NEW b, CallMove(k, a, b)
    PROVE  /\ Cardinality(Inside') + In(a, InsidePC)
                = Cardinality(Inside) + In(b, InsidePC)
           /\ Cardinality(Arrived') + In(b, IdlePC)
                = Cardinality(Arrived) + In(a, IdlePC)
           /\ Cardinality(Handled') + In(b, UnhandledPC)
                = Cardinality(Handled) + In(a, UnhandledPC)
           /\ Cardinality(Inside') \in Nat
           /\ Cardinality(Arrived') \in Nat
           /\ Cardinality(Handled') \in Nat
<1>1. call[k] = a /\ call'[k] = b /\ \A x \in Call : x # k => call'[x] = call[x]
  BY DEF TypeOK, CallMove
<1>2. IsFiniteSet(Inside') /\ IsFiniteSet(Arrived') /\ IsFiniteSet(Handled')
  <2>1. Inside' \subseteq Call /\ Arrived' \subseteq Call /\ Handled' \subseteq Call
    BY DEF Inside, Arrived, Handled
  <2> QED BY <2>1, FS_Subset, CallAssumption
<1>3. /\ Cardinality(Inside') \in Nat
      /\ Cardinality(Inside') + In(k, Inside) = Cardinality(Inside) + In(k, Inside')
  <2>1. \A x : x # k => (x \in Inside' <=> x \in Inside)
    BY <1>1 DEF Inside
  <2> QED BY <1>2, <2>1, CountedFinite, CountFollows
<1>4. /\ Cardinality(Arrived') \in Nat
      /\ Cardinality(Arrived') + In(k, Arrived) = Cardinality(Arrived) + In(k, Arrived')
  <2>1. \A x : x # k => (x \in Arrived' <=> x \in Arrived)
    BY <1>1 DEF Arrived
  <2> QED BY <1>2, <2>1, CountedFinite, CountFollows
<1>5. /\ Cardinality(Handled') \in Nat
      /\ Cardinality(Handled') + In(k, Handled) = Cardinality(Handled) + In(k, Handled')
  <2>1. \A x : x # k => (x \in Handled' <=> x \in Handled)
    BY <1>1 DEF Handled
  <2> QED BY <1>2, <2>1, CountedFinite, CountFollows
<1>6. /\ In(k, Inside) = In(a, InsidePC) /\ In(k, Inside') = In(b, InsidePC)
      /\ In(k, Arrived) = 1 - In(a, IdlePC) /\ In(k, Arrived') = 1 - In(b, IdlePC)
      /\ In(k, Handled) = 1 - In(a, UnhandledPC)
      /\ In(k, Handled') = 1 - In(b, UnhandledPC)
  BY <1>1 DEF In, Inside, InsidePC, Arrived, IdlePC, Handled, UnhandledPC
<1>7. /\ In(a, InsidePC) \in {0, 1} /\ In(b, InsidePC) \in {0, 1}
      /\ In(a, IdlePC) \in {0, 1} /\ In(b, IdlePC) \in {0, 1}
      /\ In(a, UnhandledPC) \in {0, 1} /\ In(b, UnhandledPC) \in {0, 1}
  BY DEF In
<1> QED
  BY <1>3, <1>4, <1>5, <1>6, <1>7, CountedFinite

\* When only request o moves, the count of the requests that hold a reference
\* follows it.
LEMMA RequestMoves ==
    ASSUME TypeOK, NEW o \in Request, NEW a, NEW b, RequestMove(o, a, b)
    PROVE  /\ Cardinality(Holding') + In(b, IdlePC)
                = Cardinality(Holding) + In(a, IdlePC)
           /\ Cardinality(Holding') \in Nat
<1>1. request[o] = a /\ request'[o] = b /\ \A x \in Request : x # o => request'[x] = request[x]
  BY DEF TypeOK, RequestMove
<1>2. IsFiniteSet(Holding')
  <2>1. Holding' \subseteq Request
    BY DEF Holding
  <2> QED BY <2>1, FS_Subset, RequestAssumption
<1>3. /\ Cardinality(Holding') \in Nat
      /\ Cardinality(Holding') + In(o, Holding) = Cardinality(Holding) + In(o, Holding')
  <2>1. \A x : x # o => (x \in Holding' <=> x \in Holding)
    BY <1>1 DEF Holding
  <2> QED BY <1>2, <2>1, CountedFinite, CountFollows
<1>4. /\ In(o, Holding) = 1 - In(a, IdlePC)
      /\ In(o, Holding') = 1 - In(b, IdlePC)
      /\ In(a, IdlePC) \in {0, 1} /\ In(b, IdlePC) \in {0, 1}
  BY <1>1 DEF In, Holding, IdlePC
<1> QED
  BY <1>3, <1>4, CountedFinite

-----------------------------------------------------------------------------
(* The inductive step.                                                     *)

\* The counters stay right, and with them every type.
LEMMA CountersStep ==
    ASSUME IInv, Next
    PROVE  TypeOK' /\ CallsCounted' /\ RefsCounted'
<1> USE CountedFinite, MaxHandlesAssumption
<1>a. ASSUME UNCHANGED call
      PROVE  Inside' = Inside /\ Arrived' = Arrived /\ Handled' = Handled
  BY <1>a DEF Inside, Arrived, Handled
<1>b. ASSUME UNCHANGED request
      PROVE  Holding' = Holding
  BY <1>b DEF Holding
<1>1. CASE ReaderStart
  BY <1>1, <1>a, <1>b DEF ReaderStart, IInv, TypeOK, CallsCounted, RefsCounted, ReaderHolds,
     State, ReaderPC, CallPC, RequestPC, Msg, NoMsg
<1>2. CASE ReaderCheck
  BY <1>2, <1>a, <1>b DEF ReaderCheck, IInv, TypeOK, CallsCounted, RefsCounted, ReaderHolds,
     State, ReaderPC, CallPC, RequestPC, Msg, NoMsg
<1>3. CASE RecvMessage
  BY <1>3, <1>a, <1>b DEF RecvMessage, IInv, TypeOK, CallsCounted, RefsCounted, ReaderHolds,
     State, ReaderPC, CallPC, RequestPC, Msg, NoMsg
<1>4. CASE RecvDisconnected
  BY <1>4, <1>a, <1>b DEF RecvDisconnected, IInv, TypeOK, CallsCounted, RefsCounted, ReaderHolds,
     State, ReaderPC, CallPC, RequestPC, Msg, NoMsg, Close
<1>5. CASE NotifyDisconnect
  BY <1>5, <1>a, <1>b DEF NotifyDisconnect, IInv, TypeOK, CallsCounted, RefsCounted, ReaderHolds,
     State, ReaderPC, CallPC, RequestPC, Msg, NoMsg
<1>6. CASE ReaderCleanup
  BY <1>6, <1>a, <1>b DEF ReaderCleanup, IInv, TypeOK, CallsCounted, RefsCounted, ReaderHolds,
     State, ReaderPC, CallPC, RequestPC, Msg, NoMsg
<1>7. CASE ReaderEmit
  BY <1>7, <1>a, <1>b DEF ReaderEmit, IInv, TypeOK, CallsCounted, RefsCounted, ReaderHolds,
     State, ReaderPC, CallPC, RequestPC, Msg, NoMsg, EmitCleanup
<1>8. CASE ReaderExit
  BY <1>8, <1>a, <1>b DEF ReaderExit, IInv, TypeOK, CallsCounted, RefsCounted, ReaderHolds,
     State, ReaderPC, CallPC, RequestPC, Msg, NoMsg
<1>9. CASE NewHandle
  BY <1>9, <1>a, <1>b DEF NewHandle, IInv, TypeOK, CallsCounted, RefsCounted, ReaderHolds,
     State, ReaderPC, CallPC, RequestPC, Msg, NoMsg
<1>10. CASE DropHandle
  BY <1>10, <1>a, <1>b DEF DropHandle, IInv, TypeOK, CallsCounted, RefsCounted, ReaderHolds,
     State, ReaderPC, CallPC, RequestPC, Msg, NoMsg
<1>11. CASE Break
  BY <1>11, <1>a, <1>b DEF Break, IInv, TypeOK, CallsCounted, RefsCounted, ReaderHolds,
     State, ReaderPC, CallPC, RequestPC, Msg, NoMsg
<1>12. CASE Post
  <2>1. CASE msg.cmd = "CmdCall"
    <3>1. msg.id \in Call /\ call[msg.id] = "none"
      BY <1>12, <2>1 DEF Post, IInv, MsgFresh, TypeOK, Msg, NoMsg
    <3>2. CallMove(msg.id, "none", "posted")
      BY <1>12, <2>1, <3>1 DEF Post, CallMove
    <3>3. /\ Cardinality(Inside') = Cardinality(Inside)
          /\ Cardinality(Arrived') = Cardinality(Arrived) + 1
          /\ Cardinality(Handled') = Cardinality(Handled)
      BY <3>1, <3>2, CallMoves DEF IInv, In, InsidePC, IdlePC, UnhandledPC
    <3> QED
      BY <1>12, <1>b, <2>1, <3>1, <3>2, <3>3
      DEF Post, IInv, TypeOK, CallsCounted, RefsCounted, ReaderHolds,
          State, ReaderPC, CallPC, RequestPC, Msg, NoMsg
  <2>2. CASE msg.cmd = "CmdReturn"
    BY <1>12, <1>a, <1>b, <2>2 DEF Post, IInv, TypeOK, CallsCounted, RefsCounted, ReaderHolds,
       State, ReaderPC, CallPC, RequestPC, Msg, NoMsg
  <2> QED BY <1>12, <2>1, <2>2 DEF Post
<1>13. CASE \E k \in Call : HandleCall(k)
  <2>1. PICK k \in Call : HandleCall(k)
    BY <1>13
  <2>2. "running" \in CallPC
    BY DEF CallPC
  <2>3. CallMove(k, "posted", "running")
    BY <2>1 DEF CallMove, HandleCall
  <2>4. /\ Cardinality(Inside') = Cardinality(Inside) + 1
        /\ Cardinality(Arrived') = Cardinality(Arrived)
        /\ Cardinality(Handled') = Cardinality(Handled) + 1
        /\ Cardinality(Inside') \in Nat /\ Cardinality(Arrived') \in Nat
        /\ Cardinality(Handled') \in Nat
    BY <2>2, <2>3, CallMoves DEF IInv, In, InsidePC, IdlePC, UnhandledPC
  <2> QED
    BY <2>1, <2>2, <2>3, <2>4, <1>b
    DEF HandleCall, IInv, TypeOK, CallsCounted, RefsCounted, ReaderHolds,
        State, ReaderPC, CallPC, RequestPC, Msg, NoMsg
<1>14. CASE \E k \in Call : Reply(k)
  <2>1. PICK k \in Call : Reply(k)
    BY <1>14
  <2>2. (IF state = "Closed" THEN "callout" ELSE "sending") \in CallPC
    BY DEF CallPC
  <2>3. CallMove(k, "running", (IF state = "Closed" THEN "callout" ELSE "sending"))
    BY <2>1 DEF CallMove, Reply
  <2>4. /\ Cardinality(Inside') = Cardinality(Inside)
        /\ Cardinality(Arrived') = Cardinality(Arrived)
        /\ Cardinality(Handled') = Cardinality(Handled)
        /\ Cardinality(Inside') \in Nat /\ Cardinality(Arrived') \in Nat
        /\ Cardinality(Handled') \in Nat
    BY <2>2, <2>3, CallMoves DEF IInv, In, InsidePC, IdlePC, UnhandledPC
  <2> QED
    BY <2>1, <2>2, <2>3, <2>4, <1>b
    DEF Reply, IInv, TypeOK, CallsCounted, RefsCounted, ReaderHolds,
        State, ReaderPC, CallPC, RequestPC, Msg, NoMsg
<1>15. CASE \E k \in Call : WriteReply(k)
  <2>1. PICK k \in Call : WriteReply(k)
    BY <1>15
  <2>2. "callout" \in CallPC
    BY DEF CallPC
  <2>3. CallMove(k, "sending", "callout")
    BY <2>1 DEF CallMove, WriteReply
  <2>4. /\ Cardinality(Inside') = Cardinality(Inside)
        /\ Cardinality(Arrived') = Cardinality(Arrived)
        /\ Cardinality(Handled') = Cardinality(Handled)
        /\ Cardinality(Inside') \in Nat /\ Cardinality(Arrived') \in Nat
        /\ Cardinality(Handled') \in Nat
    BY <2>2, <2>3, CallMoves DEF IInv, In, InsidePC, IdlePC, UnhandledPC
  <2> QED
    BY <2>1, <2>2, <2>3, <2>4, <1>b
    DEF WriteReply, IInv, TypeOK, CallsCounted, RefsCounted, ReaderHolds,
        State, ReaderPC, CallPC, RequestPC, Msg, NoMsg, write, Close
<1>16. CASE \E k \in Call : NoReply(k)
  <2>1. PICK k \in Call : NoReply(k)
    BY <1>16
  <2>2. "callout" \in CallPC
    BY DEF CallPC
  <2>3. CallMove(k, "running", "callout")
    BY <2>1 DEF CallMove, NoReply
  <2>4. /\ Cardinality(Inside') = Cardinality(Inside)
        /\ Cardinality(Arrived') = Cardinality(Arrived)
        /\ Cardinality(Handled') = Cardinality(Handled)
        /\ Cardinality(Inside') \in Nat /\ Cardinality(Arrived') \in Nat
        /\ Cardinality(Handled') \in Nat
    BY <2>2, <2>3, CallMoves DEF IInv, In, InsidePC, IdlePC, UnhandledPC
  <2> QED
    BY <2>1, <2>2, <2>3, <2>4, <1>b
    DEF NoReply, IInv, TypeOK, CallsCounted, RefsCounted, ReaderHolds,
        State, ReaderPC, CallPC, RequestPC, Msg, NoMsg
<1>17. CASE \E k \in Call : CallOut(k)
  <2>1. PICK k \in Call : CallOut(k)
    BY <1>17
  <2>2. PICK b \in {"cleanup", "leave"} : b = AfterCallOut
    BY DEF AfterCallOut
  <2>3. CallMove(k, "callout", b)
    BY <2>1, <2>2 DEF CallMove, CallOut
  <2>4. /\ Cardinality(Inside') = Cardinality(Inside) - 1
        /\ Cardinality(Arrived') = Cardinality(Arrived)
        /\ Cardinality(Handled') = Cardinality(Handled)
        /\ Cardinality(Inside') \in Nat /\ Cardinality(Arrived') \in Nat
        /\ Cardinality(Handled') \in Nat
    BY <2>2, <2>3, CallMoves DEF IInv, In, InsidePC, IdlePC, UnhandledPC, AfterCallOut
  <2> QED
    BY <2>1, <2>2, <2>3, <2>4, <1>b
    DEF CallOut, IInv, TypeOK, CallsCounted, RefsCounted, ReaderHolds,
        State, ReaderPC, CallPC, RequestPC, Msg, NoMsg, AfterCallOut
<1>18. CASE \E k \in Call : CallOutCleanup(k)
  <2>1. PICK k \in Call : CallOutCleanup(k)
    BY <1>18
  <2>2. (IF MayCleanup THEN "emit" ELSE "leave") \in CallPC
    BY DEF CallPC
  <2>3. CallMove(k, "cleanup", (IF MayCleanup THEN "emit" ELSE "leave"))
    BY <2>1 DEF CallMove, CallOutCleanup
  <2>4. /\ Cardinality(Inside') = Cardinality(Inside)
        /\ Cardinality(Arrived') = Cardinality(Arrived)
        /\ Cardinality(Handled') = Cardinality(Handled)
        /\ Cardinality(Inside') \in Nat /\ Cardinality(Arrived') \in Nat
        /\ Cardinality(Handled') \in Nat
    BY <2>2, <2>3, CallMoves DEF IInv, In, InsidePC, IdlePC, UnhandledPC
  <2> QED
    BY <2>1, <2>2, <2>3, <2>4, <1>b
    DEF CallOutCleanup, IInv, TypeOK, CallsCounted, RefsCounted, ReaderHolds,
        State, ReaderPC, CallPC, RequestPC, Msg, NoMsg
<1>19. CASE \E k \in Call : CallOutEmit(k)
  <2>1. PICK k \in Call : CallOutEmit(k)
    BY <1>19
  <2>2. "leave" \in CallPC
    BY DEF CallPC
  <2>3. CallMove(k, "emit", "leave")
    BY <2>1 DEF CallMove, CallOutEmit
  <2>4. /\ Cardinality(Inside') = Cardinality(Inside)
        /\ Cardinality(Arrived') = Cardinality(Arrived)
        /\ Cardinality(Handled') = Cardinality(Handled)
        /\ Cardinality(Inside') \in Nat /\ Cardinality(Arrived') \in Nat
        /\ Cardinality(Handled') \in Nat
    BY <2>2, <2>3, CallMoves DEF IInv, In, InsidePC, IdlePC, UnhandledPC
  <2> QED
    BY <2>1, <2>2, <2>3, <2>4, <1>b
    DEF CallOutEmit, IInv, TypeOK, CallsCounted, RefsCounted, ReaderHolds,
        State, ReaderPC, CallPC, RequestPC, Msg, NoMsg, EmitCleanup
<1>20. CASE \E k \in Call : Leave(k)
  <2>1. PICK k \in Call : Leave(k)
    BY <1>20
  <2>2. "done" \in CallPC
    BY DEF CallPC
  <2>3. CallMove(k, "leave", "done")
    BY <2>1 DEF CallMove, Leave
  <2>4. /\ Cardinality(Inside') = Cardinality(Inside)
        /\ Cardinality(Arrived') = Cardinality(Arrived) - 1
        /\ Cardinality(Handled') = Cardinality(Handled) - 1
        /\ Cardinality(Inside') \in Nat /\ Cardinality(Arrived') \in Nat
        /\ Cardinality(Handled') \in Nat
    BY <2>2, <2>3, CallMoves DEF IInv, In, InsidePC, IdlePC, UnhandledPC
  <2> QED
    BY <2>1, <2>2, <2>3, <2>4, <1>b
    DEF Leave, IInv, TypeOK, CallsCounted, RefsCounted, ReaderHolds,
        State, ReaderPC, CallPC, RequestPC, Msg, NoMsg
<1>21. CASE \E o \in Request : SelectConnection(o)
  <2>1. PICK o \in Request : SelectConnection(o)
    BY <1>21
  <2>2. "held" \in RequestPC
    BY DEF RequestPC
  <2>3. RequestMove(o, "none", "held")
    BY <2>1 DEF RequestMove, SelectConnection
  <2>4. Cardinality(Holding') = Cardinality(Holding) + 1 /\ Cardinality(Holding') \in Nat
    BY <2>2, <2>3, RequestMoves DEF IInv, In, IdlePC
  <2> QED
    BY <2>1, <2>2, <2>3, <2>4, <1>a
    DEF SelectConnection, IInv, TypeOK, CallsCounted, RefsCounted, ReaderHolds,
        State, ReaderPC, CallPC, RequestPC, Msg, NoMsg
<1>22. CASE \E o \in Request : SendCall(o)
  <2>1. PICK o \in Request : SendCall(o)
    BY <1>22
  <2>2. (IF state = "Closed" THEN "leaked" ELSE "sending") \in RequestPC
    BY DEF RequestPC
  <2>3. RequestMove(o, "held", (IF state = "Closed" THEN "leaked" ELSE "sending"))
    BY <2>1 DEF RequestMove, SendCall
  <2>4. Cardinality(Holding') = Cardinality(Holding) /\ Cardinality(Holding') \in Nat
    BY <2>2, <2>3, RequestMoves DEF IInv, In, IdlePC
  <2> QED
    BY <2>1, <2>2, <2>3, <2>4, <1>a
    DEF SendCall, IInv, TypeOK, CallsCounted, RefsCounted, ReaderHolds,
        State, ReaderPC, CallPC, RequestPC, Msg, NoMsg
<1>23. CASE \E o \in Request : WriteCall(o)
  <2>1. PICK o \in Request : WriteCall(o)
    BY <1>23
  <2>2. PICK ok \in BOOLEAN :
          write(ok) /\ RequestMove(o, "sending", IF ok THEN "sent" ELSE "leaked")
    BY <2>1 DEF WriteCall, RequestMove
  <2>3. (IF ok THEN "sent" ELSE "leaked") \in RequestPC
    BY DEF RequestPC
  <2>4. Cardinality(Holding') = Cardinality(Holding)
    BY <2>1, <2>2, <2>3, RequestMoves DEF WriteCall, IInv, In, IdlePC
  <2> QED
    BY <2>1, <2>2, <2>3, <2>4, <1>a
    DEF WriteCall, IInv, TypeOK, CallsCounted, RefsCounted, ReaderHolds,
        State, ReaderPC, CallPC, RequestPC, Msg, NoMsg, write, Close
<1>24. CASE \E o \in Request : FinishCall(o)
  <2>1. PICK o \in Request : FinishCall(o)
    BY <1>24
  <2>2. "done" \in RequestPC
    BY DEF RequestPC
  <2>3. RequestMove(o, "sent", "done")
    BY <2>1 DEF RequestMove, FinishCall
  <2>4. Cardinality(Holding') = Cardinality(Holding) - 1 /\ Cardinality(Holding') \in Nat
    BY <2>2, <2>3, RequestMoves DEF IInv, In, IdlePC
  <2> QED
    BY <2>1, <2>2, <2>3, <2>4, <1>a
    DEF FinishCall, IInv, TypeOK, CallsCounted, RefsCounted, ReaderHolds,
        State, ReaderPC, CallPC, RequestPC, Msg, NoMsg
<1> QED
  BY <1>1, <1>2, <1>3, <1>4, <1>5, <1>6, <1>7, <1>8, <1>9, <1>10, <1>11, <1>12, <1>13, <1>14, <1>15, <1>16, <1>17, <1>18, <1>19, <1>20, <1>21, <1>22, <1>23, <1>24 DEF Next, ReaderRuns, ServerRuns

\* Only one thread at a time notifies the services, and it leaves the mark
\* that stops every later one.
LEMMA CleanupStep ==
    ASSUME IInv, Next
    PROVE  MsgFresh' /\ EmitExclusive' /\ CleanupOnce' /\ ReaderGoneMeansClosed'
<1>1. CASE ReaderStart
  BY <1>1 DEF ReaderStart, IInv, TypeOK, MsgFresh, EmitExclusive,
     CleanupOnce, ReaderGoneMeansClosed, Msg, NoMsg, State
<1>2. CASE ReaderCheck
  BY <1>2 DEF ReaderCheck, IInv, TypeOK, MsgFresh, EmitExclusive,
     CleanupOnce, ReaderGoneMeansClosed, Msg, NoMsg, State
<1>3. CASE RecvMessage
  BY <1>3 DEF RecvMessage, IInv, TypeOK, MsgFresh, EmitExclusive,
     CleanupOnce, ReaderGoneMeansClosed, Msg, NoMsg, State
<1>4. CASE RecvDisconnected
  BY <1>4 DEF RecvDisconnected, Close, LockFree, IInv, TypeOK, MsgFresh, EmitExclusive,
     CleanupOnce, ReaderGoneMeansClosed, Msg, NoMsg, State
<1>5. CASE Post
  BY <1>5 DEF Post, IInv, TypeOK, MsgFresh, EmitExclusive,
     CleanupOnce, ReaderGoneMeansClosed, Msg, NoMsg, State
<1>6. CASE NotifyDisconnect
  BY <1>6 DEF NotifyDisconnect, IInv, TypeOK, MsgFresh, EmitExclusive,
     CleanupOnce, ReaderGoneMeansClosed, Msg, NoMsg, State
<1>7. CASE ReaderCleanup
  BY <1>7 DEF ReaderCleanup, MayCleanup, LockFree, IInv, TypeOK, MsgFresh, EmitExclusive,
     CleanupOnce, ReaderGoneMeansClosed, Msg, NoMsg, State
<1>8. CASE ReaderEmit
  BY <1>8 DEF ReaderEmit, EmitCleanup, IInv, TypeOK, MsgFresh, EmitExclusive,
     CleanupOnce, ReaderGoneMeansClosed, Msg, NoMsg, State
<1>9. CASE ReaderExit
  BY <1>9 DEF ReaderExit, IInv, TypeOK, MsgFresh, EmitExclusive,
     CleanupOnce, ReaderGoneMeansClosed, Msg, NoMsg, State
<1>10. CASE \E k \in Call : HandleCall(k)
  BY <1>10 DEF HandleCall, IInv, TypeOK, MsgFresh, EmitExclusive,
     CleanupOnce, ReaderGoneMeansClosed, Msg, NoMsg, State
<1>11. CASE \E k \in Call : Reply(k)
  BY <1>11 DEF Reply, IInv, TypeOK, MsgFresh, EmitExclusive,
     CleanupOnce, ReaderGoneMeansClosed, Msg, NoMsg, State
<1>12. CASE \E k \in Call : WriteReply(k)
  BY <1>12 DEF WriteReply, write, Close, LockFree, IInv, TypeOK, MsgFresh, EmitExclusive,
     CleanupOnce, ReaderGoneMeansClosed, Msg, NoMsg, State
<1>13. CASE \E k \in Call : NoReply(k)
  BY <1>13 DEF NoReply, IInv, TypeOK, MsgFresh, EmitExclusive,
     CleanupOnce, ReaderGoneMeansClosed, Msg, NoMsg, State
<1>14. CASE \E k \in Call : CallOut(k)
  BY <1>14 DEF CallOut, AfterCallOut, IInv, TypeOK, MsgFresh, EmitExclusive,
     CleanupOnce, ReaderGoneMeansClosed, Msg, NoMsg, State
<1>15. CASE \E k \in Call : CallOutCleanup(k)
  BY <1>15 DEF CallOutCleanup, MayCleanup, LockFree, IInv, TypeOK, MsgFresh, EmitExclusive,
     CleanupOnce, ReaderGoneMeansClosed, Msg, NoMsg, State
<1>16. CASE \E k \in Call : CallOutEmit(k)
  BY <1>16 DEF CallOutEmit, EmitCleanup, IInv, TypeOK, MsgFresh, EmitExclusive,
     CleanupOnce, ReaderGoneMeansClosed, Msg, NoMsg, State
<1>17. CASE \E k \in Call : Leave(k)
  BY <1>17 DEF Leave, IInv, TypeOK, MsgFresh, EmitExclusive,
     CleanupOnce, ReaderGoneMeansClosed, Msg, NoMsg, State
<1>18. CASE \E o \in Request : SelectConnection(o)
  BY <1>18 DEF SelectConnection, IInv, TypeOK, MsgFresh, EmitExclusive,
     CleanupOnce, ReaderGoneMeansClosed, Msg, NoMsg, State
<1>19. CASE \E o \in Request : SendCall(o)
  BY <1>19 DEF SendCall, IInv, TypeOK, MsgFresh, EmitExclusive,
     CleanupOnce, ReaderGoneMeansClosed, Msg, NoMsg, State
<1>20. CASE \E o \in Request : WriteCall(o)
  BY <1>20 DEF WriteCall, write, Close, LockFree, IInv, TypeOK, MsgFresh, EmitExclusive,
     CleanupOnce, ReaderGoneMeansClosed, Msg, NoMsg, State
<1>21. CASE \E o \in Request : FinishCall(o)
  BY <1>21 DEF FinishCall, IInv, TypeOK, MsgFresh, EmitExclusive,
     CleanupOnce, ReaderGoneMeansClosed, Msg, NoMsg, State
<1>22. CASE NewHandle
  BY <1>22 DEF NewHandle, IInv, TypeOK, MsgFresh, EmitExclusive,
     CleanupOnce, ReaderGoneMeansClosed, Msg, NoMsg, State
<1>23. CASE DropHandle
  BY <1>23 DEF DropHandle, IInv, TypeOK, MsgFresh, EmitExclusive,
     CleanupOnce, ReaderGoneMeansClosed, Msg, NoMsg, State
<1>24. CASE Break
  BY <1>24 DEF Break, IInv, TypeOK, MsgFresh, EmitExclusive,
     CleanupOnce, ReaderGoneMeansClosed, Msg, NoMsg, State
<1> QED
  BY <1>1, <1>2, <1>3, <1>4, <1>5, <1>6, <1>7, <1>8, <1>9, <1>10, <1>11, <1>12, <1>13, <1>14, <1>15, <1>16, <1>17, <1>18, <1>19, <1>20, <1>21, <1>22, <1>23, <1>24
  DEF Next, ReaderRuns, ServerRuns

\* A counter that is not zero counts a thread that will come to call_out; one
\* that is not one counts another thread besides.
LEMMA SomeoneInside ==
    ASSUME IInv
    PROVE  /\ incoming_calls_cnt # 0 => \E k \in Call : k \in Inside
           /\ \A k \in Inside : incoming_calls_cnt # 1 =>
                 \E j \in Call \ {k} : j \in Inside
<1>1. Inside \subseteq Call
  BY DEF Inside
<1>2. incoming_calls_cnt # 0 => \E k \in Call : k \in Inside
  BY <1>1, CountedFinite, CountPositive DEF IInv, CallsCounted
<1>3. ASSUME NEW k \in Inside, incoming_calls_cnt # 1
      PROVE  \E j \in Call \ {k} : j \in Inside
  <2>1. Cardinality(Inside \ {k}) = Cardinality(Inside) - 1
    BY CountedFinite, CountRemove
  <2>2. IsFiniteSet(Inside \ {k}) /\ Cardinality(Inside \ {k}) # 0
    BY <1>3, <2>1, CountedFinite, FS_RemoveElement DEF IInv, CallsCounted
  <2>3. \E x : x \in Inside \ {k}
    BY <2>2, CountPositive
  <2> QED BY <1>1, <2>3
<1> QED
  BY <1>2, <1>3

\* The cleanup is not lost: whoever leaves without doing it leaves behind a
\* thread that will try.
LEMMA MissedStep ==
    ASSUME IInv, Next
    PROVE  NoMissedCleanup'
<1>1. CASE ReaderStart
  BY <1>1 DEF ReaderStart, IInv, TypeOK, NoMissedCleanup,
     ReaderGoneMeansClosed, EmitExclusive, Msg, NoMsg, State
<1>2. CASE ReaderCheck
  BY <1>2 DEF ReaderCheck, IInv, TypeOK, NoMissedCleanup,
     ReaderGoneMeansClosed, EmitExclusive, Msg, NoMsg, State
<1>3. CASE RecvMessage
  BY <1>3 DEF RecvMessage, IInv, TypeOK, NoMissedCleanup,
     ReaderGoneMeansClosed, EmitExclusive, Msg, NoMsg, State
<1>4. CASE RecvDisconnected
  BY <1>4 DEF RecvDisconnected, Close, LockFree, IInv, TypeOK, NoMissedCleanup,
     ReaderGoneMeansClosed, EmitExclusive, Msg, NoMsg, State
<1>5. CASE Post
  BY <1>5 DEF Post, IInv, TypeOK, NoMissedCleanup,
     ReaderGoneMeansClosed, EmitExclusive, Msg, NoMsg, State
<1>6. CASE NotifyDisconnect
  BY <1>6 DEF NotifyDisconnect, IInv, TypeOK, NoMissedCleanup,
     ReaderGoneMeansClosed, EmitExclusive, Msg, NoMsg, State
<1>7. CASE ReaderCleanup
  BY <1>7, SomeoneInside
  DEF ReaderCleanup, MayCleanup, IInv, TypeOK, NoMissedCleanup, Inside
<1>8. CASE ReaderEmit
  BY <1>8 DEF ReaderEmit, EmitCleanup, IInv, TypeOK, NoMissedCleanup,
     ReaderGoneMeansClosed, EmitExclusive, Msg, NoMsg, State
<1>9. CASE ReaderExit
  BY <1>9 DEF ReaderExit, IInv, TypeOK, NoMissedCleanup,
     ReaderGoneMeansClosed, EmitExclusive, Msg, NoMsg, State
<1>10. CASE \E k \in Call : HandleCall(k)
  BY <1>10 DEF HandleCall, IInv, TypeOK, NoMissedCleanup,
     ReaderGoneMeansClosed, EmitExclusive, Msg, NoMsg, State
<1>11. CASE \E k \in Call : Reply(k)
  BY <1>11 DEF Reply, IInv, TypeOK, NoMissedCleanup,
     ReaderGoneMeansClosed, EmitExclusive, Msg, NoMsg, State
<1>12. CASE \E k \in Call : WriteReply(k)
  BY <1>12 DEF WriteReply, write, Close, LockFree, IInv, TypeOK, NoMissedCleanup,
     ReaderGoneMeansClosed, EmitExclusive, Msg, NoMsg, State
<1>13. CASE \E k \in Call : NoReply(k)
  BY <1>13 DEF NoReply, IInv, TypeOK, NoMissedCleanup,
     ReaderGoneMeansClosed, EmitExclusive, Msg, NoMsg, State
<1>14. CASE \E k \in Call : CallOut(k)
  <2>1. PICK k \in Call : CallOut(k)
    BY <1>14
  <2>2. CASE incoming_calls_cnt = 1
    BY <2>1, <2>2 DEF CallOut, AfterCallOut, IInv, TypeOK, NoMissedCleanup
  <2>3. CASE incoming_calls_cnt # 1
    <3>1. k \in Inside
      BY <2>1 DEF CallOut, Inside
    <3>2. PICK j \in Call \ {k} : j \in Inside
      BY <2>3, <3>1, SomeoneInside
    <3> QED
      BY <2>1, <3>2 DEF CallOut, IInv, TypeOK, NoMissedCleanup, Inside
  <2> QED BY <2>2, <2>3
<1>15. CASE \E k \in Call : CallOutCleanup(k)
  BY <1>15, SomeoneInside
  DEF CallOutCleanup, MayCleanup, IInv, TypeOK, NoMissedCleanup, Inside
<1>16. CASE \E k \in Call : CallOutEmit(k)
  BY <1>16 DEF CallOutEmit, EmitCleanup, IInv, TypeOK, NoMissedCleanup,
     ReaderGoneMeansClosed, EmitExclusive, Msg, NoMsg, State
<1>17. CASE \E k \in Call : Leave(k)
  BY <1>17 DEF Leave, IInv, TypeOK, NoMissedCleanup,
     ReaderGoneMeansClosed, EmitExclusive, Msg, NoMsg, State
<1>18. CASE \E o \in Request : SelectConnection(o)
  BY <1>18 DEF SelectConnection, IInv, TypeOK, NoMissedCleanup,
     ReaderGoneMeansClosed, EmitExclusive, Msg, NoMsg, State
<1>19. CASE \E o \in Request : SendCall(o)
  BY <1>19 DEF SendCall, IInv, TypeOK, NoMissedCleanup,
     ReaderGoneMeansClosed, EmitExclusive, Msg, NoMsg, State
<1>20. CASE \E o \in Request : WriteCall(o)
  BY <1>20 DEF WriteCall, write, Close, LockFree, IInv, TypeOK, NoMissedCleanup,
     ReaderGoneMeansClosed, EmitExclusive, Msg, NoMsg, State
<1>21. CASE \E o \in Request : FinishCall(o)
  BY <1>21 DEF FinishCall, IInv, TypeOK, NoMissedCleanup,
     ReaderGoneMeansClosed, EmitExclusive, Msg, NoMsg, State
<1>22. CASE NewHandle
  BY <1>22 DEF NewHandle, IInv, TypeOK, NoMissedCleanup,
     ReaderGoneMeansClosed, EmitExclusive, Msg, NoMsg, State
<1>23. CASE DropHandle
  BY <1>23 DEF DropHandle, IInv, TypeOK, NoMissedCleanup,
     ReaderGoneMeansClosed, EmitExclusive, Msg, NoMsg, State
<1>24. CASE Break
  BY <1>24 DEF Break, IInv, TypeOK, NoMissedCleanup,
     ReaderGoneMeansClosed, EmitExclusive, Msg, NoMsg, State
<1> QED
  BY <1>1, <1>2, <1>3, <1>4, <1>5, <1>6, <1>7, <1>8, <1>9, <1>10, <1>11, <1>12, <1>13, <1>14, <1>15, <1>16, <1>17, <1>18, <1>19, <1>20, <1>21, <1>22, <1>23, <1>24
  DEF Next, ReaderRuns, ServerRuns

\* The invariant is inductive.
LEMMA Inductive == IInv /\ [Next]_vars => IInv'
<1>1. ASSUME IInv, Next
      PROVE  IInv'
  BY <1>1, CountersStep, CleanupStep, MissedStep DEF IInv
<1>2. ASSUME IInv, UNCHANGED vars
      PROVE  IInv'
  BY <1>2 DEF vars, IInv, TypeOK, MsgFresh, CallsCounted, RefsCounted, EmitExclusive,
     CleanupOnce, ReaderGoneMeansClosed, NoMissedCleanup, Inside, Arrived, Handled,
     Holding, ReaderHolds
<1> QED
  BY <1>1, <1>2

LEMMA Initially == Init => IInv
<1> SUFFICES ASSUME Init PROVE IInv
  OBVIOUS
<1>1. Inside = {} /\ Arrived = {} /\ Handled = {} /\ Holding = {}
  BY DEF Init, Inside, Arrived, Handled, Holding
<1>2. Cardinality({}) = 0
  BY FS_EmptySet
<1>3. TypeOK
  BY MaxHandlesAssumption
  DEF Init, TypeOK, State, Msg, NoMsg, ReaderPC, CallPC, RequestPC
<1>4. CallsCounted /\ RefsCounted
  BY <1>1, <1>2 DEF Init, CallsCounted, RefsCounted, ReaderHolds
<1> QED
  BY <1>3, <1>4 DEF Init, IInv, MsgFresh, EmitExclusive, CleanupOnce,
     ReaderGoneMeansClosed, NoMissedCleanup, NoMsg

-----------------------------------------------------------------------------
(* The theorems.                                                           *)

\* The inductive invariant holds in every reachable state.
THEOREM Invariant == SafeSpec => []IInv
BY Initially, Inductive, PTL DEF SafeSpec

\* Types: in particular neither counter ever goes below zero, which is what
\* the assertions of unref (connection.cpp:152) and call_out (:175) demand.
THEOREM TypeCorrect == SafeSpec => []TypeOK
<1>1. IInv => TypeOK
  BY DEF IInv
<1> QED
  BY <1>1, Invariant, PTL

\* incoming_calls_cnt counts exactly the calls between call_in and call_out.
THEOREM CallsExact == SafeSpec => []CallsCounted
<1>1. IInv => CallsCounted
  BY DEF IInv
<1> QED
  BY <1>1, Invariant, PTL

\* ref_cnt counts exactly who holds the connection, those included who never
\* let it go (client_call.cpp:119).
THEOREM ReferencesExact == SafeSpec => []RefsCounted
<1>1. IInv => RefsCounted
  BY DEF IInv
<1> QED
  BY <1>1, Invariant, PTL

\* on_client_cleanup is emitted at most once, and that is marked in the state
\* exactly when it was.
THEOREM CleanedOnce == SafeSpec => []CleanupOnce
<1>1. IInv => CleanupOnce
  BY DEF IInv
<1> QED
  BY <1>1, Invariant, PTL

\* ... by one thread at a time, under the lock.
THEOREM NotifiedByOne == SafeSpec => []EmitExclusive
<1>1. IInv => EmitExclusive
  BY DEF IInv
<1> QED
  BY <1>1, Invariant, PTL

\* If the cleanup is still owed when the reader has gone, then a thread serving
\* a call is there to do it.
THEOREM CleanupNotMissed == SafeSpec => []NoMissedCleanup
<1>1. IInv => NoMissedCleanup
  BY DEF IInv
<1> QED
  BY <1>1, Invariant, PTL

\* The reader leaves only a connection that is no longer Active.
THEOREM ReaderLeavesClosed == SafeSpec => []ReaderGoneMeansClosed
<1>1. IInv => ReaderGoneMeansClosed
  BY DEF IInv
<1> QED
  BY <1>1, Invariant, PTL

=============================================================================
