--------------------------- MODULE DiscoveryProofs ---------------------------
(***************************************************************************)
(* Proofs about Discovery, for any servers, callers, services, stubs and   *)
(* interfaces, and lists of services of any length - up to the 256 the one *)
(* byte of an id can tell apart, where ids matter.                         *)
(***************************************************************************)
EXTENDS Discovery, SequenceTheorems, TLAPS

\* A list that is only appended to.
Extends(a, b) == Len(a) <= Len(b) /\ \A i \in 1..Len(a) : b[i] = a[i]

\* Of a server's lists: id is the position of a service that suits stub c and
\* has been put on the list of those in use.
Suits(pub, srv, id, c) ==
    /\ id < Len(pub)
    /\ check_functions(pub[id + 1], c)
    /\ \E j \in DOMAIN srv : srv[j] = pub[id + 1]

\* The resolver is the first of the services published.
ResolverFirst ==
    \A s \in Server :
        /\ Len(published_services[s]) <= MaxPublished
        /\ published_services[s] # <<>> => published_services[s][1] = Resolver

\* What the client has noted, is being answered, and has put into its calls.
EntriesSuit ==
    \A s \in Server : \A i \in DOMAIN client_services[s] :
        LET e == client_services[s][i] IN
        /\ e.service = Resolver => e.id = 0
        /\ e.service # Resolver =>
             Suits(published_services[s], server_services[s], e.id, e.service)

AnswersSuit ==
    \A t \in Caller : pc[t] = "answered" /\ answer[t] # None =>
        LET s == call[t].server IN
        Suits(published_services[s], server_services[s], StoredId(answer[t]),
              call[t].wanted)

\* What thread t has called, for as long as it remembers.
CallSuits(t) ==
    LET s == call[t].server IN
    IF call[t].stub = Resolver THEN call[t].service_id = 0
    ELSE /\ call[t].func \in DOMAIN Required[call[t].stub]
         /\ call[t].func_id = (call[t].func - 1) % 256
         /\ Suits(published_services[s], server_services[s], call[t].service_id,
                  call[t].stub)

CallsSuit == \A t \in Caller :
    pc[t] # "idle" => CallSuits(t) /\ (call[t].stub = Resolver <=> call[t].wanted # None)

IInv == /\ TypeOK /\ ResolverFirst /\ EntriesSuit /\ AnswersSuit /\ CallsSuit
        /\ NoneBroughtDown

-----------------------------------------------------------------------------
\* The detour of a position over two signed chars and back into a byte does no
\* harm to the first 256.
LEMMA IdsSurvive == \A n \in 0..255 : StoredId(SentId(n)) = n
<1> SUFFICES ASSUME NEW n \in 0..255
             PROVE  StoredId(SentId(n)) = n
  OBVIOUS
<1>1. n % 65536 = n /\ n % 256 = n /\ n \div 256 = 0
  OBVIOUS
<1>2. SignedChar(0) = 0
  BY DEF SignedChar
<1>3. SentId(n) = SignedChar(n) % 65536
  BY <1>1, <1>2 DEF SentId, SignedChar
<1>4. CASE n < 128
  BY <1>1, <1>3, <1>4 DEF SignedChar, StoredId
<1>5. CASE n >= 128
  <2>1. SignedChar(n) = n - 256
    BY <1>5 DEF SignedChar
  <2>2. (n - 256) % 65536 = n + 65280
    BY <1>5
  <2>3. (n + 65280) % 256 = n
    OBVIOUS
  <2> QED
    BY <1>3, <2>1, <2>2, <2>3 DEF StoredId
<1> QED
  BY <1>4, <1>5

LEMMA AppendExtends ==
    ASSUME NEW S, NEW a \in Seq(S), NEW x \in S
    PROVE  Extends(a, Append(a, x)) /\ Append(a, x) \in Seq(S)
BY AppendProperties DEF Extends

\* Published services stay where they are, and those in use in the list.
LEMMA SuitsStays ==
    ASSUME NEW S, NEW p \in Seq(S), NEW q \in Seq(S), Extends(p, q),
           NEW u \in Seq(S), NEW v \in Seq(S), Extends(u, v),
           NEW id \in Nat, NEW c, Suits(p, u, id, c)
    PROVE  Suits(q, v, id, c)
<1>1. id + 1 \in 1..Len(p) /\ q[id + 1] = p[id + 1] /\ id < Len(q)
  BY DEF Suits, Extends
<1>2. PICK j \in DOMAIN u : u[j] = p[id + 1]
  BY DEF Suits
<1>3. j \in DOMAIN v /\ v[j] = u[j]
  BY DEF Extends
<1> QED
  BY <1>1, <1>2, <1>3 DEF Suits

-----------------------------------------------------------------------------
LEMMA Initially == Init => IInv
<1> SUFFICES ASSUME Init PROVE IInv
  OBVIOUS
<1>1. TypeOK
  BY DEF Init, TypeOK, Stub, Published
<1>2. ResolverFirst
  <2>1. Len(<<>>) = 0
    OBVIOUS
  <2>2. \A s \in Server : published_services[s] = <<>>
    BY DEF Init
  <2>3. Len(<<>>) <= MaxPublished
    BY <2>1, BoundsAssumption
  <2> QED
    BY <2>2, <2>3, Zenon DEF ResolverFirst
<1>3. EntriesSuit
  BY DEF Init, EntriesSuit
<1>4. AnswersSuit /\ CallsSuit
  BY DEF Init, AnswersSuit, CallsSuit
<1>5. NoneBroughtDown
  BY DEF Init, NoneBroughtDown
<1> QED
  BY <1>1, <1>2, <1>3, <1>4, <1>5 DEF IInv

LEMMA IdsAreNumbers ==
    \A n \in Nat : SentId(n) \in Nat /\ StoredId(n) \in 0..255
<1> SUFFICES ASSUME NEW n \in Nat
             PROVE  SentId(n) \in Nat /\ StoredId(n) \in 0..255
  OBVIOUS
<1>1. n % 65536 \in Int /\ n % 256 \in Int
  OBVIOUS
<1>2. (n % 65536) \div 256 \in Int
  BY <1>1
<1>3. SignedChar((n % 65536) \div 256) \in Int /\ SignedChar(n % 256) \in Int
  BY <1>1, <1>2 DEF SignedChar
<1>4. \A k \in Int : k % 65536 \in Nat
  OBVIOUS
<1>5. SentId(n) \in Nat
  BY <1>3, <1>4 DEF SentId
<1>6. StoredId(n) \in 0..255
  BY DEF StoredId
<1> QED
  BY <1>5, <1>6

\* The service and the stub that a position is about.
LEMMA Lookup ==
    ASSUME TypeOK, NEW s \in Server, NEW id \in Nat
    PROVE  /\ getService(s, id) \in Published \cup {None}
           /\ getService(s, id) = None <=> id >= Len(published_services[s])
           /\ id < Len(published_services[s]) =>
                getService(s, id) = published_services[s][id + 1]
<1>1. published_services[s] \in Seq(Published)
  BY DEF TypeOK
<1>2. None \notin Published
  BY NoneAssumption DEF Published
<1> QED
  BY <1>1, <1>2 DEF getService

LEMMA EntryType ==
    ASSUME TypeOK, NEW s \in Server, NEW i \in DOMAIN client_services[s]
    PROVE  client_services[s][i].id \in 0..255 /\ client_services[s][i].service \in Stub
<1>1. \A e \in [id : 0..255, service : Stub] : e.id \in 0..255 /\ e.service \in Stub
  OBVIOUS
<1>2. client_services[s] \in Seq([id : 0..255, service : Stub])
  BY DEF TypeOK
<1>3. i \in 1..Len(client_services[s])
  BY <1>2, LenProperties
<1>4. client_services[s][i] \in [id : 0..255, service : Stub]
  BY <1>2, <1>3, ElementOfSeq
<1> QED
  BY <1>1, <1>4, Zenon

LEMMA AnswerType ==
    ASSUME TypeOK, NEW t \in Caller, answer[t] # None
    PROVE  answer[t] \in Nat /\ StoredId(answer[t]) \in 0..255 /\ StoredId(answer[t]) \in Nat
<1>1. answer[t] \in Nat
  BY DEF TypeOK
<1>2. StoredId(answer[t]) \in 0..255
  BY <1>1, IdsAreNumbers
<1> QED
  BY <1>1, <1>2

LEMMA CallType ==
    \A r \in CallRec : r.server \in Server /\ r.stub \in Stub /\ r.service_id \in Nat
BY DEF CallRec

\* Each action keeps the types.
LEMMA TypeStep == TypeOK /\ [Next]_vars => TypeOK'
<1> SUFFICES ASSUME TypeOK, [Next]_vars PROVE TypeOK'
  OBVIOUS
<1>1. ASSUME NEW s \in Server, NEW x \in ServerSide, publishService(s, x)
      PROVE  TypeOK'
  <2>1. published_services[s] \in Seq(Published)
    BY DEF TypeOK
  <2>2. Append(IF published_services[s] = <<>> THEN <<Resolver>>
               ELSE published_services[s], x) \in Seq(Published)
    <3>1. <<Resolver>> \in Seq(Published)
      BY DEF Published
    <3>2. x \in Published
      BY DEF Published
    <3> QED
      BY <2>1, <3>1, <3>2, AppendExtends
  <2> QED
    BY <1>1, <2>2 DEF publishService, TypeOK
<1>2. ASSUME NEW t \in Caller, NEW s \in Server, NEW c \in Stub, NEW f \in Nat \ {0},
             NEW w \in ClientSide \cup {None}, client_call(t, s, c, f, w)
      PROVE  TypeOK'
  <2>1. PICK id \in getServiceID(s, c) : call' = [call EXCEPT ![t] =
            [server |-> s, stub |-> c, func |-> f, service_id |-> id,
             func_id |-> (f - 1) % 256, wanted |-> w]]
    BY <1>2 DEF client_call
  <2>2. (f - 1) % 256 \in 0..255
    OBVIOUS
  <2>3. id \in 0..255
    <3>1. \A i \in DOMAIN client_services[s] : client_services[s][i].id \in 0..255
      BY EntryType
    <3> QED
      BY <2>1, <3>1 DEF getServiceID, EntriesOf
  <2>4. call'[t] \in CallRec
    BY <2>1, <2>2, <2>3 DEF CallRec, TypeOK
  <2> QED
    BY <1>2, <2>1, <2>4 DEF client_call, TypeOK
<1>3. ASSUME NEW t \in Caller, NEW s \in Server, NEW c \in ClientSide,
             requestService(t, s, c)
      PROVE  TypeOK'
  BY <1>2, <1>3 DEF requestService, Stub
<1>4. ASSUME NEW t \in Caller, NEW s \in Server, NEW c \in ClientSide, Call(t, s, c)
      PROVE  TypeOK'
  <2>1. PICK f \in DOMAIN RequiredOf(c) : client_call(t, s, c, f, None)
    BY <1>4 DEF Call
  <2>2. Required[c] \in Seq(Function) /\ c # Resolver
    BY FunctionsAssumption, SidesAssumption
  <2>3. f \in Nat \ {0}
    BY <2>2 DEF RequiredOf
  <2> QED
    BY <1>2, <2>1, <2>3 DEF Stub
<1>5. ASSUME NEW t \in Caller, Requested(t) PROVE TypeOK'
  <2>1. call[t] \in CallRec /\ call[t].server \in Server /\ call[t].wanted \in Stub
    BY <1>5 DEF Requested, TypeOK, CallRec, Stub
  <2>2. answer[t] # None => answer[t] \in Nat
    BY DEF TypeOK
  <2>3. answer[t] # None => [id |-> StoredId(answer[t]), service |-> call[t].wanted]
                              \in [id : 0..255, service : Stub]
    BY <2>1, <2>2, IdsAreNumbers
  <2>4. client_services' \in [Server -> Seq([id : 0..255, service : Stub])]
    <3>1. CASE answer[t] = None
      BY <1>5, <3>1 DEF Requested, TypeOK
    <3>2. CASE answer[t] # None
      <4> DEFINE e == [id |-> StoredId(answer[t]), service |-> call[t].wanted]
      <4>1. client_services[call[t].server] \in Seq([id : 0..255, service : Stub])
        BY <2>1 DEF TypeOK
      <4>2. e \in [id : 0..255, service : Stub]
        BY <2>3, <3>2
      <4>3. client_services' = [client_services EXCEPT ![call[t].server] = Append(@, e)]
        BY <1>5, <3>2 DEF Requested
      <4> HIDE DEF e
      <4> QED
        BY <4>1, <4>2, <4>3, AppendExtends DEF TypeOK
    <3> QED
      BY <3>1, <3>2
  <2> QED
    BY <1>5, <2>4 DEF Requested, Forget, TypeOK
<1>6. ASSUME NEW t \in Caller, Returned(t) PROVE TypeOK'
  BY <1>6 DEF Returned, Forget, TypeOK
<1>7. ASSUME NEW t \in Caller, validate(t) PROVE TypeOK'
  <2>1. call[t] \in CallRec /\ call[t].server \in Server /\ call[t].wanted # None
    BY <1>7 DEF validate, Serving, TypeOK, CallRec
  <2>2. server_services' \in [Server -> Seq(Published)]
    <3>1. published_services[call[t].server] \in Seq(Published)
      BY <2>1 DEF TypeOK
    <3>2. \A i \in Fits(t) : published_services[call[t].server][i] \in Published
      BY <3>1 DEF Fits
    <3>3. ASSUME NEW i \in Fits(t),
                 server_services' = [server_services EXCEPT ![call[t].server] =
                   Append(@, published_services[call[t].server][i])]
          PROVE  server_services' \in [Server -> Seq(Published)]
      BY <2>1, <3>2, <3>3, AppendExtends DEF TypeOK
    <3> QED
      BY <1>7, <3>3 DEF validate, TypeOK
  <2>3. ASSUME NEW n \in Nat \cup {None}, Answered(t, n) PROVE TypeOK'
    BY <2>1, <2>2, <2>3 DEF Answered, TypeOK
  <2>4. \A i \in Fits(t) : SentId(i - 1) \in Nat
    <3>1. \A i \in Fits(t) : i - 1 \in Nat
      BY <2>1 DEF Fits, TypeOK
    <3> QED
      BY <3>1, IdsAreNumbers
  <2> QED
    BY <1>7, <2>3, <2>4 DEF validate
<1>8. ASSUME NEW t \in Caller, dispatch(t) PROVE TypeOK'
  <2>1. PICK x \in Published : Serving(t, x) /\
          ran' = [ran EXCEPT ![t] =
              IF call[t].func_id < Len(FunctionsOf(x))
              THEN FunctionsOf(x)[call[t].func_id + 1] ELSE None]
    BY <1>8 DEF dispatch
  <2>2. call[t] \in CallRec
    BY <2>1 DEF Serving, TypeOK
  <2>2a. call[t].func_id \in Nat
    BY <2>2 DEF CallRec
  <2>3. FunctionsOf(x) \in Seq(Function \cup {Validate})
    <3>1. CASE x = Resolver
      BY <3>1 DEF FunctionsOf
    <3>2. CASE x \in ServerSide
      <4>1. Functions[x] \in Seq(Function)
        BY <3>2, FunctionsAssumption
      <4>2. x # Resolver
        BY <3>2, SidesAssumption
      <4> QED
        BY <4>1, <4>2 DEF FunctionsOf
    <3> QED
      BY <3>1, <3>2 DEF Published
  <2>4. ran' \in [Caller -> Function \cup {Validate, None}]
    BY <2>1, <2>2a, <2>3 DEF TypeOK
  <2> QED
    BY <1>8, <2>2, <2>4 DEF dispatch, TypeOK
<1>9. ASSUME NEW t \in Caller, NoService(t) PROVE TypeOK'
  <2>1. call[t].server \in Server
    BY <1>9 DEF NoService, TypeOK, CallRec
  <2> QED
    BY <1>9, <2>1 DEF NoService, TypeOK
<1>10. CASE UNCHANGED vars
  BY <1>10 DEF vars, TypeOK
<1> QED
  BY <1>1, <1>3, <1>4, <1>5, <1>6, <1>7, <1>8, <1>9, <1>10 DEF Next

-----------------------------------------------------------------------------
\* What a step may change.

\* A thread goes on by its own steps only.
LEMMA ThreadStep ==
    ASSUME TypeOK, [Next]_vars, NEW t \in Caller
    PROVE  \/ pc'[t] = pc[t] /\ call'[t] = call[t] /\ answer'[t] = answer[t] /\ ran'[t] = ran[t]
           \/ pc'[t] = "idle"
           \/ \E s \in Server, c \in ClientSide : requestService(t, s, c) \/ Call(t, s, c)
           \/ validate(t)
           \/ dispatch(t)
<1>1. ASSUME NEW s \in Server, NEW x \in ServerSide, publishService(s, x)
      PROVE  pc'[t] = pc[t] /\ call'[t] = call[t] /\ answer'[t] = answer[t] /\ ran'[t] = ran[t]
  BY <1>1 DEF publishService
<1>2. ASSUME NEW u \in Caller, u # t, NEW s \in Server, NEW c, NEW g, NEW w,
             client_call(u, s, c, g, w)
      PROVE  pc'[t] = pc[t] /\ call'[t] = call[t] /\ answer'[t] = answer[t] /\ ran'[t] = ran[t]
  BY <1>2 DEF client_call, TypeOK
<1>3. ASSUME NEW u \in Caller, u # t, NEW s \in Server, NEW c \in ClientSide,
             requestService(u, s, c) \/ Call(u, s, c)
      PROVE  pc'[t] = pc[t] /\ call'[t] = call[t] /\ answer'[t] = answer[t] /\ ran'[t] = ran[t]
  BY <1>2, <1>3 DEF requestService, Call
<1>4. ASSUME NEW u \in Caller, u # t, Requested(u) \/ Returned(u)
      PROVE  pc'[t] = pc[t] /\ call'[t] = call[t] /\ answer'[t] = answer[t] /\ ran'[t] = ran[t]
  BY <1>4 DEF Requested, Returned, Forget, TypeOK
<1>5. ASSUME NEW u \in Caller, u # t, validate(u)
      PROVE  pc'[t] = pc[t] /\ call'[t] = call[t] /\ answer'[t] = answer[t] /\ ran'[t] = ran[t]
  <2>1. PICK n : Answered(u, n)
    BY <1>5 DEF validate
  <2> QED
    BY <1>5, <2>1 DEF Answered, TypeOK
<1>6. ASSUME NEW u \in Caller, u # t, dispatch(u)
      PROVE  pc'[t] = pc[t] /\ call'[t] = call[t] /\ answer'[t] = answer[t] /\ ran'[t] = ran[t]
  BY <1>6 DEF dispatch, TypeOK
<1>7. ASSUME NEW u \in Caller, NoService(u)
      PROVE  pc'[t] = pc[t] /\ call'[t] = call[t] /\ answer'[t] = answer[t] /\ ran'[t] = ran[t]
  BY <1>7 DEF NoService
<1>8. ASSUME Requested(t) \/ Returned(t) PROVE pc'[t] = "idle"
  BY <1>8 DEF Requested, Returned, Forget, TypeOK
<1>9. CASE UNCHANGED vars
  BY <1>9 DEF vars
<1> QED
  BY <1>1, <1>3, <1>4, <1>5, <1>6, <1>7, <1>8, <1>9 DEF Next

\* The list of a server changes by publishing only.
LEMMA OnlyPublished ==
    ASSUME TypeOK, [Next]_vars, NEW s \in Server,
           published_services'[s] # published_services[s]
    PROVE  \E x \in ServerSide : publishService(s, x)
<1>1. ASSUME NEW u \in Server, NEW x \in ServerSide, publishService(u, x)
      PROVE  publishService(s, x)
  <2>1. u = s
    BY <1>1 DEF publishService, TypeOK
  <2> QED
    BY <1>1, <2>1
<1>2. ASSUME NEW t \in Caller
      PROVE  /\ ~ \E u \in Server, c \in ClientSide : requestService(t, u, c) \/ Call(t, u, c)
             /\ ~ (Requested(t) \/ Returned(t))
             /\ ~ validate(t)
             /\ ~ (dispatch(t) \/ NoService(t))
  <2>1. ~ \E u \in Server, c \in ClientSide : requestService(t, u, c) \/ Call(t, u, c)
    BY DEF requestService, Call, client_call
  <2>2. ~ (Requested(t) \/ Returned(t))
    BY DEF Requested, Returned
  <2>3. ~ validate(t)
    BY DEF validate, Answered
  <2>4. ~ (dispatch(t) \/ NoService(t))
    BY DEF dispatch, NoService
  <2> QED
    BY <2>1, <2>2, <2>3, <2>4
<1>3. ~ UNCHANGED vars
  BY DEF vars
<1> QED
  BY <1>1, <1>2, <1>3, Zenon DEF Next

\* No service leaves a server's lists or changes its place.
LEMMA ListsGrow ==
    ASSUME TypeOK, [Next]_vars, NEW s \in Server
    PROVE  /\ Extends(published_services[s], published_services'[s])
           /\ Extends(server_services[s], server_services'[s])
<1>1. /\ published_services[s] \in Seq(Published)
      /\ server_services[s] \in Seq(Published)
  BY DEF TypeOK
<1>2. \A l \in Seq(Published) : Extends(l, l)
  BY DEF Extends
<1>3. ASSUME NEW x \in ServerSide, publishService(s, x)
      PROVE  Extends(published_services[s], published_services'[s])
  <2>1. x \in Published /\ Resolver \in Published
    BY DEF Published
  <2>2. CASE published_services[s] = <<>>
    <3>1. Len(<<>>) = 0
      OBVIOUS
    <3>2. published_services'[s] \in Seq(Published)
      BY <1>3, TypeStep, TypeOK, [Next]_vars DEF TypeOK
    <3> QED
      BY <2>2, <3>1, <3>2, LenProperties DEF Extends
  <2>3. CASE published_services[s] # <<>>
    <3>1. published_services'[s] = Append(published_services[s], x)
      BY <1>3, <2>3 DEF publishService, TypeOK
    <3> QED
      BY <1>1, <2>1, <3>1, AppendExtends
  <2> QED
    BY <2>2, <2>3
<1>4. ASSUME NEW t \in Caller, validate(t)
      PROVE  Extends(server_services[s], server_services'[s])
  <2>1. call[t].server \in Server
    BY <1>4 DEF validate, Serving, TypeOK, CallRec
  <2>2. ASSUME NEW i \in Fits(t), s = call[t].server
        PROVE  published_services[s][i] \in Published
    <3>1. i \in 1..Len(published_services[s])
      BY <1>1, <2>2, LenProperties DEF Fits
    <3> QED
      BY <1>1, <3>1, ElementOfSeq
  <2>3. \/ server_services'[s] = server_services[s]
        \/ \E x \in Published : server_services'[s] = Append(server_services[s], x)
    <3>1. CASE server_services' = server_services
      BY <3>1
    <3>2. ASSUME NEW i \in Fits(t),
                 server_services' = [server_services EXCEPT ![call[t].server] =
                   Append(@, published_services[call[t].server][i])]
          PROVE  \/ server_services'[s] = server_services[s]
                 \/ \E x \in Published : server_services'[s] = Append(server_services[s], x)
      BY <2>1, <2>2, <3>2 DEF TypeOK
    <3> QED
      BY <1>4, <3>1, <3>2 DEF validate
  <2> QED
    BY <1>1, <1>2, <2>3, AppendExtends
<1>5. CASE published_services'[s] = published_services[s]
  <2>1. \/ server_services'[s] = server_services[s]
        \/ \E t \in Caller : validate(t)
    BY DEF Next, vars, publishService, requestService, Call, client_call, Requested,
           Returned, dispatch, NoService
  <2> QED
    BY <1>1, <1>2, <1>4, <1>5, <2>1
<1>6. CASE published_services'[s] # published_services[s]
  <2>1. PICK x \in ServerSide : publishService(s, x)
    BY <1>6, OnlyPublished
  <2>2. server_services'[s] = server_services[s]
    BY <2>1 DEF publishService
  <2> QED
    BY <1>1, <1>2, <1>3, <2>1, <2>2
<1> QED
  BY <1>5, <1>6

\* The services a client has been given are kept; one it gets is an answer's.
LEMMA EntryStep ==
    ASSUME TypeOK, [Next]_vars, NEW s \in Server, NEW i \in DOMAIN client_services'[s]
    PROVE  \/ i \in DOMAIN client_services[s] /\ client_services'[s][i] = client_services[s][i]
           \/ \E t \in Caller :
                /\ Requested(t) /\ answer[t] # None /\ call[t].server = s
                /\ client_services'[s][i] =
                     [id |-> StoredId(answer[t]), service |-> call[t].wanted]
<1>1. CASE client_services'[s] = client_services[s]
  BY <1>1
<1>2. CASE client_services'[s] # client_services[s]
  <2>1. PICK t \in Caller : Requested(t)
    BY <1>2 DEF Next, vars, publishService, requestService, Call, client_call,
           Returned, validate, Answered, dispatch, NoService
  <2> DEFINE e == [id |-> StoredId(answer[t]), service |-> call[t].wanted]
  <2>2. /\ answer[t] # None /\ call[t].server = s
        /\ client_services'[s] = Append(client_services[s], e)
    BY <1>2, <2>1 DEF Requested, TypeOK
  <2>3. client_services[s] \in Seq([id : 0..255, service : Stub])
    BY DEF TypeOK
  <2>4. e \in [id : 0..255, service : Stub]
    <3>1. call[t] \in CallRec /\ call[t].wanted # None
      BY <2>1 DEF Requested, TypeOK
    <3>2. call[t].wanted \in Stub
      BY <3>1 DEF CallRec, Stub
    <3>3. StoredId(answer[t]) \in 0..255
      BY <2>2, IdsAreNumbers DEF TypeOK
    <3> QED
      BY <3>2, <3>3
  <2> HIDE DEF e
  <2>5. /\ DOMAIN client_services[s] = 1..Len(client_services[s])
        /\ DOMAIN client_services'[s] = 1..(Len(client_services[s]) + 1)
    BY <2>2, <2>3, <2>4, AppendProperties, LenProperties
  <2>6. CASE i \in 1..Len(client_services[s])
    BY <2>2, <2>3, <2>4, <2>5, <2>6, AppendProperties
  <2>7. CASE i = Len(client_services[s]) + 1
    <3>1. client_services'[s][i] = e
      BY <2>2, <2>3, <2>4, <2>7, AppendProperties
    <3> QED
      BY <2>1, <2>2, <3>1 DEF e
  <2> QED
    BY <2>5, <2>6, <2>7, LenProperties, <2>3
<1> QED
  BY <1>1, <1>2

-----------------------------------------------------------------------------
\* The conjuncts of the invariant, one by one.

LEMMA ResolverStep == TypeOK /\ ResolverFirst /\ [Next]_vars => ResolverFirst'
<1> SUFFICES ASSUME TypeOK, ResolverFirst, [Next]_vars, NEW s \in Server
             PROVE  /\ Len(published_services'[s]) <= MaxPublished
                    /\ published_services'[s] # <<>> => published_services'[s][1] = Resolver
  BY DEF ResolverFirst
<1>1. CASE published_services'[s] = published_services[s]
  BY <1>1 DEF ResolverFirst
<1>2. CASE published_services'[s] # published_services[s]
  <2>1. PICK x \in ServerSide : publishService(s, x)
    BY <1>2, OnlyPublished
  <2> DEFINE base == IF published_services[s] = <<>> THEN <<Resolver>>
                     ELSE published_services[s]
  <2>2. base \in Seq(Published) /\ x \in Published
    <3>1. <<Resolver>> \in Seq(Published) /\ published_services[s] \in Seq(Published)
      BY DEF Published, TypeOK
    <3> QED
      BY <3>1 DEF Published
  <2>3. base # <<>> /\ base[1] = Resolver
    BY DEF ResolverFirst
  <2>4. published_services'[s] = Append(base, x)
    BY <2>1 DEF publishService, TypeOK
  <2> HIDE DEF base
  <2>5. 1 \in 1..Len(base)
    BY <2>2, <2>3, EmptySeq
  <2>6. Append(base, x)[1] = base[1]
    BY <2>2, <2>5, AppendProperties
  <2> QED
    BY <2>1, <2>3, <2>4, <2>6 DEF publishService
<1> QED
  BY <1>1, <1>2

\* What was a suitable position stays one.
LEMMA SuitsStep ==
    ASSUME TypeOK, [Next]_vars, NEW s \in Server, NEW id \in Nat, NEW c,
           Suits(published_services[s], server_services[s], id, c)
    PROVE  Suits(published_services'[s], server_services'[s], id, c)
<1>1. /\ published_services[s] \in Seq(Published) /\ published_services'[s] \in Seq(Published)
      /\ server_services[s] \in Seq(Published) /\ server_services'[s] \in Seq(Published)
  BY TypeStep DEF TypeOK
<1> QED
  BY <1>1, ListsGrow, SuitsStays

LEMMA EntriesStep == IInv /\ [Next]_vars => EntriesSuit'
<1> SUFFICES ASSUME IInv, [Next]_vars, NEW s \in Server, NEW i \in DOMAIN client_services'[s]
             PROVE  LET e == client_services'[s][i] IN
                    /\ e.service = Resolver => e.id = 0
                    /\ e.service # Resolver =>
                         Suits(published_services'[s], server_services'[s], e.id, e.service)
  BY DEF EntriesSuit
<1>1. CASE i \in DOMAIN client_services[s] /\ client_services'[s][i] = client_services[s][i]
  <2>1. client_services[s][i].id \in Nat
    <3>1. client_services[s][i].id \in 0..255
      BY <1>1, EntryType DEF IInv
    <3> QED
      BY <3>1
  <2> QED
    BY <1>1, <2>1, SuitsStep DEF IInv, EntriesSuit
<1>2. ASSUME NEW t \in Caller, Requested(t), answer[t] # None, call[t].server = s,
             client_services'[s][i] = [id |-> StoredId(answer[t]), service |-> call[t].wanted]
      PROVE  /\ call[t].wanted # Resolver
             /\ Suits(published_services'[s], server_services'[s], StoredId(answer[t]),
                      call[t].wanted)
  <2>1. call[t].wanted # Resolver
    <3>1. call[t] \in CallRec /\ call[t].wanted # None
      BY <1>2 DEF IInv, Requested, TypeOK
    <3> QED
      BY <3>1, SidesAssumption DEF CallRec
  <2>2. Suits(published_services[s], server_services[s], StoredId(answer[t]), call[t].wanted)
    <3>1. pc[t] = "answered" /\ answer[t] # None
      BY <1>2 DEF Requested
    <3>2. Suits(published_services[call[t].server], server_services[call[t].server],
                StoredId(answer[t]), call[t].wanted)
      BY <3>1, Zenon DEF IInv, AnswersSuit
    <3>3. call[t].server = s
      BY <1>2
    <3> QED
      BY <3>2, <3>3
  <2>3. StoredId(answer[t]) \in Nat
    BY <1>2, AnswerType DEF IInv
  <2> QED
    BY <2>1, <2>2, <2>3, SuitsStep DEF IInv
<1>3. ASSUME NEW t \in Caller, Requested(t), answer[t] # None, call[t].server = s,
             client_services'[s][i] = [id |-> StoredId(answer[t]), service |-> call[t].wanted]
      PROVE  LET e == client_services'[s][i] IN
                    /\ e.service = Resolver => e.id = 0
                    /\ e.service # Resolver =>
                         Suits(published_services'[s], server_services'[s], e.id, e.service)
  BY <1>2, <1>3
<1> QED
  BY <1>1, <1>3, EntryStep DEF IInv

LEMMA AnswersStep ==
    ASSUME MaxPublished <= 256
    PROVE  IInv /\ [Next]_vars => AnswersSuit'
<1> SUFFICES ASSUME IInv, [Next]_vars, NEW t \in Caller, pc'[t] = "answered", answer'[t] # None
             PROVE  Suits(published_services'[call'[t].server], server_services'[call'[t].server],
                          StoredId(answer'[t]), call'[t].wanted)
  BY DEF AnswersSuit
<1> DEFINE s == call[t].server
<1>1. CASE pc'[t] = pc[t] /\ call'[t] = call[t] /\ answer'[t] = answer[t]
  <2>1. pc[t] = "answered" /\ answer[t] # None
    BY <1>1
  <2>2. s \in Server /\ StoredId(answer[t]) \in Nat
    <3>1. s \in Server
      BY <2>1 DEF IInv, TypeOK, CallRec
    <3> QED
      BY <2>1, <3>1, AnswerType DEF IInv
  <2>3. Suits(published_services[s], server_services[s], StoredId(answer[t]), call[t].wanted)
    BY <2>1, Zenon DEF IInv, AnswersSuit
  <2>4. Suits(published_services'[s], server_services'[s], StoredId(answer[t]), call[t].wanted)
    BY <2>2, <2>3, SuitsStep DEF IInv
  <2> QED
    BY <1>1, <2>4
<1>2. CASE validate(t)
  <2>1. s \in Server /\ published_services[s] \in Seq(Published)
    BY <1>2 DEF IInv, validate, Serving, TypeOK, CallRec
  <2>2. PICK i \in Fits(t) :
          /\ server_services' = [server_services EXCEPT ![s] =
               Append(@, published_services[s][i])]
          /\ Answered(t, SentId(i - 1))
    BY <1>2 DEF validate, Answered, IInv, TypeOK
  <2>3. /\ call' = call /\ published_services' = published_services
        /\ answer'[t] = SentId(i - 1)
    BY <2>2 DEF Answered, IInv, TypeOK
  <2>4. i \in 1..Len(published_services[s]) /\ check_functions(published_services[s][i], call[t].wanted)
    BY <2>1, LenProperties DEF Fits
  <2>5. i - 1 \in 0..255
    <3>1. Len(published_services[s]) \in Nat /\ Len(published_services[s]) <= MaxPublished
      BY <2>1, LenProperties DEF IInv, ResolverFirst
    <3> DEFINE n == Len(published_services[s])
    <3>2. i \in 1..n
      BY <2>4
    <3>3. n \in Nat /\ n <= 256
      BY <3>1, BoundsAssumption
    <3> HIDE DEF n
    <3> QED
      BY <3>2, <3>3
  <2>6. StoredId(answer'[t]) = i - 1
    BY <2>3, <2>5, IdsSurvive
  <2>7. published_services[s][i] \in Published
    BY <2>1, <2>4, ElementOfSeq
  <2>8. server_services[s] \in Seq(Published)
    BY <2>1 DEF IInv, TypeOK
  <2>9. server_services'[s] = Append(server_services[s], published_services[s][i])
    BY <2>1, <2>2 DEF IInv, TypeOK
  <2>10. \E j \in DOMAIN server_services'[s] : server_services'[s][j] = published_services[s][i]
    <3>1. /\ Len(server_services[s]) + 1 \in DOMAIN server_services'[s]
          /\ server_services'[s][Len(server_services[s]) + 1] = published_services[s][i]
      BY <2>7, <2>8, <2>9, AppendProperties, LenProperties
    <3> QED
      BY <3>1
  <2>11. (i - 1) + 1 = i /\ i - 1 < Len(published_services[s])
    BY <2>1, <2>4, LenProperties
  <2>12. Suits(published_services[s], server_services'[s], i - 1, call[t].wanted)
    BY <2>4, <2>10, <2>11 DEF Suits
  <2> QED
    BY <2>3, <2>6, <2>12
<1>3. ~ dispatch(t) /\ ~ \E u \in Server, c \in ClientSide : requestService(t, u, c) \/ Call(t, u, c)
  BY DEF dispatch, requestService, Call, client_call, IInv, TypeOK
<1> QED
  BY <1>1, <1>2, <1>3, ThreadStep DEF IInv

\* A call is made with the id and the position of its stub's function.
LEMMA ClientCallSuits ==
    ASSUME IInv, NEW t \in Caller, NEW s \in Server, NEW c \in Stub, NEW g, NEW w,
           client_call(t, s, c, g, w), c # Resolver => g \in DOMAIN Required[c],
           UNCHANGED <<published_services, server_services>>
    PROVE  CallSuits(t)' /\ call'[t].stub = c /\ call'[t].wanted = w
<1>1. PICK id \in getServiceID(s, c) : call' = [call EXCEPT ![t] =
            [server |-> s, stub |-> c, func |-> g, service_id |-> id,
             func_id |-> (g - 1) % 256, wanted |-> w]]
  BY DEF client_call
<1>2. PICK i \in DOMAIN client_services[s] :
        client_services[s][i].service = c /\ id = client_services[s][i].id
  BY <1>1 DEF getServiceID, EntriesOf
<1>3. call'[t] = [server |-> s, stub |-> c, func |-> g, service_id |-> id,
             func_id |-> (g - 1) % 256, wanted |-> w]
  BY <1>1 DEF IInv, TypeOK
<1>4. CASE c = Resolver
  <2>1. id = 0
    BY <1>2, <1>4 DEF IInv, EntriesSuit
  <2> QED
    BY <1>3, <1>4, <2>1 DEF CallSuits
<1>5. CASE c # Resolver
  <2>1. Suits(published_services[s], server_services[s], id, c)
    BY <1>2, <1>5 DEF IInv, EntriesSuit
  <2> QED
    BY <1>3, <1>5, <2>1 DEF CallSuits
<1> QED
  BY <1>4, <1>5, <1>3

LEMMA CallsStep == IInv /\ [Next]_vars => CallsSuit'
<1> SUFFICES ASSUME IInv, [Next]_vars, NEW t \in Caller, pc'[t] # "idle"
             PROVE  CallSuits(t)' /\ (call'[t].stub = Resolver <=> call'[t].wanted # None)
  BY DEF CallsSuit
<1>1. CASE pc[t] # "idle" /\ call'[t] = call[t]
  <2>1. CallSuits(t) /\ (call[t].stub = Resolver <=> call[t].wanted # None)
    BY <1>1 DEF IInv, CallsSuit
  <2>2. call[t] \in CallRec
    BY <1>1 DEF IInv, TypeOK
  <2>3. call[t].server \in Server /\ call[t].service_id \in Nat
    BY <2>2 DEF CallRec
  <2>4. CASE call[t].stub = Resolver
    BY <1>1, <2>1, <2>4 DEF CallSuits
  <2>5. CASE call[t].stub # Resolver
    <3>1. Suits(published_services[call[t].server], server_services[call[t].server],
                call[t].service_id, call[t].stub)
      BY <2>1, <2>5 DEF CallSuits
    <3>2. Suits(published_services'[call[t].server], server_services'[call[t].server],
                call[t].service_id, call[t].stub)
      BY <2>3, <3>1, SuitsStep DEF IInv
    <3> QED
      BY <1>1, <2>1, <2>5, <3>2 DEF CallSuits
  <2> QED
    BY <2>4, <2>5
<1>2. ASSUME NEW s \in Server, NEW c \in ClientSide, requestService(t, s, c)
      PROVE  CallSuits(t)' /\ (call'[t].stub = Resolver <=> call'[t].wanted # None)
  <2>1. client_call(t, s, Resolver, 1, c)
    BY <1>2 DEF requestService
  <2>2. UNCHANGED <<published_services, server_services>>
    BY <2>1 DEF client_call
  <2>3. Resolver \in Stub /\ c # None
    BY NoneAssumption DEF Stub
  <2>4. CallSuits(t)' /\ call'[t].stub = Resolver /\ call'[t].wanted = c
    BY <2>1, <2>2, <2>3, ClientCallSuits
  <2> QED
    BY <2>3, <2>4
<1>3. ASSUME NEW s \in Server, NEW c \in ClientSide, Call(t, s, c)
      PROVE  CallSuits(t)' /\ (call'[t].stub = Resolver <=> call'[t].wanted # None)
  <2>1. PICK g \in DOMAIN RequiredOf(c) : client_call(t, s, c, g, None)
    BY <1>3 DEF Call
  <2>2. c # Resolver /\ c \in Stub /\ g \in DOMAIN Required[c]
    BY <2>1, SidesAssumption DEF RequiredOf, Stub
  <2>3. UNCHANGED <<published_services, server_services>>
    BY <2>1 DEF client_call
  <2>4. CallSuits(t)' /\ call'[t].stub = c /\ call'[t].wanted = None
    BY <2>1, <2>2, <2>3, ClientCallSuits
  <2> QED
    BY <2>2, <2>4
<1>4. CASE validate(t)
  BY <1>1, <1>4 DEF validate, Serving, Answered
<1>5. CASE dispatch(t)
  BY <1>1, <1>5 DEF dispatch, Serving
<1> QED
  BY <1>1, <1>2, <1>3, <1>4, <1>5, ThreadStep DEF IInv

\* Where nothing has the id of a call, nothing was published.
LEMMA AbortStep == IInv /\ [Next]_vars => NoneBroughtDown'
<1> SUFFICES ASSUME IInv, [Next]_vars, NEW s \in aborted'
             PROVE  published_services'[s] = <<>>
  BY DEF NoneBroughtDown
<1>1. CASE s \in aborted
  <2>1. published_services[s] = <<>> /\ s \in Server
    BY <1>1 DEF IInv, NoneBroughtDown, TypeOK
  <2>2. published_services'[s] = published_services[s]
    <3>1. \A x : ~ publishService(s, x)
      BY <1>1 DEF publishService
    <3> QED
      BY <2>1, <3>1, OnlyPublished DEF IInv
  <2> QED
    BY <2>1, <2>2
<1>2. CASE s \notin aborted
  <2>1. PICK t \in Caller : NoService(t)
    BY <1>2 DEF Next, vars, publishService, requestService, Call, client_call, Requested,
           Returned, validate, Answered, dispatch
  <2>2. /\ s = call[t].server /\ pc[t] = "called"
        /\ getService(s, call[t].service_id) = None
        /\ published_services' = published_services
    BY <1>2, <2>1 DEF NoService
  <2>3. call[t] \in CallRec
    BY <2>2 DEF IInv, TypeOK
  <2>4. s \in Server /\ call[t].service_id \in Nat
    BY <2>2, <2>3 DEF CallRec
  <2>5. call[t].service_id >= Len(published_services[s])
    BY <2>2, <2>4, Lookup DEF IInv
  <2>6. CallSuits(t)
    BY <2>2 DEF IInv, CallsSuit
  <2>7. published_services[s] \in Seq(Published)
    BY <2>4 DEF IInv, TypeOK
  <2>8. Len(published_services[s]) \in Nat
    BY <2>7, LenProperties
  <2>9. call[t].stub = Resolver /\ call[t].service_id = 0
    BY <2>2, <2>4, <2>5, <2>6, <2>8 DEF CallSuits, Suits
  <2>10. Len(published_services[s]) = 0
    BY <2>5, <2>8, <2>9
  <2>11. published_services[s] = <<>>
    BY <2>7, <2>10, EmptySeq
  <2> QED
    BY <2>2, <2>11
<1> QED
  BY <1>1, <1>2

LEMMA Inductive ==
    ASSUME MaxPublished <= 256
    PROVE  Spec => []IInv
<1>1. Init => IInv
  BY Initially
<1>2. IInv /\ [Next]_vars => IInv'
  BY TypeStep, ResolverStep, EntriesStep, AnswersStep, CallsStep, AbortStep DEF IInv
<1> QED
  BY <1>1, <1>2, PTL DEF Spec

-----------------------------------------------------------------------------
(* The theorems.                                                           *)

\* Every variable keeps its type, whatever is published and requested.
THEOREM TypeCorrect == Spec => []TypeOK
<1>1. Init => TypeOK
  BY Initially DEF IInv
<1> QED
  BY <1>1, TypeStep, PTL DEF Spec

\* The ids a client keeps name services that have all the functions their stubs
\* require, so long as a server publishes no more services than an id can tell
\* apart: the uint8_t of connection.cpp, and the signed chars of serialize.cpp.
THEOREM IdsRight ==
    ASSUME MaxPublished <= 256
    PROVE  Spec => []IdNamesService
<1>1. IInv => IdNamesService
  BY DEF IInv, EntriesSuit, Suits, IdNamesService
<1> QED
  BY <1>1, Inductive, PTL

\* A service that can be called over a connection is told when it is lost: the
\* resolver has put it in server_services.
THEOREM UsersKnown ==
    ASSUME MaxPublished <= 256
    PROVE  Spec => []UserIsKnown
<1>1. IInv => UserIsKnown
  <2> SUFFICES ASSUME IInv, NEW s \in Server, NEW i \in DOMAIN client_services[s],
                      client_services[s][i].service # Resolver
               PROVE  \E j \in DOMAIN server_services[s] :
                        server_services[s][j] = getService(s, client_services[s][i].id)
    BY DEF UserIsKnown
  <2>1. Suits(published_services[s], server_services[s], client_services[s][i].id,
              client_services[s][i].service)
    BY DEF IInv, EntriesSuit
  <2> QED
    BY <2>1 DEF Suits, getService
<1> QED
  BY <1>1, Inductive, PTL

\* The assertion of handleCall (threads.cpp) that there is a service with the id
\* of a call fails at no server that has published one.
THEOREM ServersStayUp ==
    ASSUME MaxPublished <= 256
    PROVE  Spec => []NoneBroughtDown
<1>1. IInv => NoneBroughtDown
  BY DEF IInv
<1> QED
  BY <1>1, Inductive, PTL

\* If each stub was generated from the beginning of the interface of every
\* service that would be taken for its own, and with no more functions than a
\* position can tell apart, then the function that runs is the one called.
THEOREM RightFunctionRuns ==
    ASSUME MaxPublished <= 256,
           \A c \in ClientSide : Len(Required[c]) <= 256,
           \A x \in Published, c \in ClientSide : check_functions(x, c) =>
             /\ Len(Required[c]) <= Len(FunctionsOf(x))
             /\ \A i \in DOMAIN Required[c] : FunctionsOf(x)[i] = Required[c][i]
    PROVE  Spec => []RunsWhatWasCalled
<1>1. Init => RunsWhatWasCalled
  BY DEF Init, RunsWhatWasCalled
<1>2. IInv /\ RunsWhatWasCalled /\ [Next]_vars => RunsWhatWasCalled'
  <2> SUFFICES ASSUME IInv, RunsWhatWasCalled, [Next]_vars, NEW t \in Caller, pc'[t] = "over"
               PROVE  ran'[t] = RequiredOf(call'[t].stub)[call'[t].func]
    BY DEF RunsWhatWasCalled
  <2>1. CASE pc'[t] = pc[t] /\ call'[t] = call[t] /\ ran'[t] = ran[t]
    BY <2>1 DEF RunsWhatWasCalled
  <2>2. CASE dispatch(t)
    <3> DEFINE s == call[t].server
               c == call[t].stub
               g == call[t].func
               id == call[t].service_id
    <3>1. PICK x \in Published :
            /\ Serving(t, x)
            /\ ran' = [ran EXCEPT ![t] =
                 IF call[t].func_id < Len(FunctionsOf(x))
                 THEN FunctionsOf(x)[call[t].func_id + 1] ELSE None]
      BY <2>2 DEF dispatch
    <3>2. call' = call /\ call[t].wanted = None /\ pc[t] = "called"
      BY <2>2 DEF dispatch, Serving
    <3>3. call[t] \in CallRec
      BY <3>2 DEF IInv, TypeOK
    <3>4. CallSuits(t) /\ c # Resolver
      BY <3>2 DEF IInv, CallsSuit
    <3>5. s \in Server /\ c \in ClientSide /\ id \in Nat
      <4>1. s \in Server /\ c \in Stub /\ id \in Nat
        BY <3>3, CallType
      <4>2. c \in ClientSide
        BY <3>4, <4>1, Zenon DEF Stub
      <4> QED
        BY <4>1, <4>2
    <3>6. /\ g \in DOMAIN Required[c] /\ call[t].func_id = (g - 1) % 256
          /\ Suits(published_services[s], server_services[s], id, c)
      BY <3>4 DEF CallSuits
    <3>7. x = published_services[s][id + 1] /\ check_functions(x, c)
      BY <3>1, <3>5, <3>6, Lookup DEF IInv, Serving, Suits
    <3>8. /\ Len(Required[c]) <= Len(FunctionsOf(x)) /\ Len(Required[c]) <= 256
          /\ FunctionsOf(x)[g] = Required[c][g]
      BY <3>5, <3>6, <3>7
    <3>9. g \in 1..Len(Required[c]) /\ Len(Required[c]) \in Nat
      BY <3>5, <3>6, FunctionsAssumption, LenProperties
    <3>10. Len(FunctionsOf(x)) \in Nat
      <4>1. CASE x = Resolver
        BY <4>1 DEF FunctionsOf
      <4>2. CASE x # Resolver
        BY <4>2, FunctionsAssumption, LenProperties DEF FunctionsOf, Published
      <4> QED
        BY <4>1, <4>2
    <3>11. call[t].func_id + 1 = g /\ call[t].func_id < Len(FunctionsOf(x))
      <4>1. g \in Nat /\ 1 <= g /\ g <= 256 /\ g <= Len(FunctionsOf(x))
        BY <3>8, <3>9, <3>10
      <4>2. (g - 1) % 256 = g - 1
        BY <4>1
      <4> QED
        BY <3>6, <3>10, <4>1, <4>2
    <3>12. ran'[t] = FunctionsOf(x)[g]
      BY <3>1, <3>11 DEF IInv, TypeOK
    <3> QED
      BY <3>2, <3>4, <3>8, <3>12 DEF RequiredOf
  <2>3. ~ validate(t)
    BY DEF validate, Answered, IInv, TypeOK
  <2>4. ~ \E s \in Server, c \in ClientSide : requestService(t, s, c) \/ Call(t, s, c)
    BY DEF requestService, Call, client_call, IInv, TypeOK
  <2> QED
    BY <2>1, <2>2, <2>3, <2>4, ThreadStep DEF IInv
<1> QED
  BY <1>1, <1>2, Inductive, PTL DEF Spec

=============================================================================
