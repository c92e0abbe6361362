----------------------------- MODULE ChainsProofs ----------------------------
(***************************************************************************)
(* What is proved about nested calls as module Chains describes them, for  *)
(* any clients, processes and workers.                                     *)
(***************************************************************************)
EXTENDS Chains, FiniteSetTheorems, TLAPS

\* The inductive invariant: c is where its calls have taken it, has a thread
\* there and wherever it will come back to, and nowhere else.
Threads(c) ==
    /\ bound[c][Home[c]] = c
    /\ \A p \in Proc \ {Home[c]} : bound[c][p] \in Pool[p] \cup {None}
Deployed(c) ==
    /\ at[c] # "running" => chain[c] # <<>>
    /\ \A p \in Passed(c) : bound[c][p] # None
    /\ at[c] \in {"running", "over"} => bound[c][Place(c)] # None
    /\ \A p \in Proc : bound[c][p] # None =>
         p \in Passed(c) \/ (p = Place(c) /\ at[c] # "returned")
IInv ==
    /\ TypeOK
    /\ \A c \in Client : Threads(c) /\ Deployed(c)
    /\ OneChainEach

-----------------------------------------------------------------------------
(* Where a client is, and has been, as its calls are made and return.      *)

LEMMA PlacesAreProcesses ==
    ASSUME ConstantsOK, TypeOK, NEW c \in Client
    PROVE  /\ Place(c) \in Proc
           /\ Passed(c) \subseteq Proc
           /\ Home[c] \in Passed(c)
  BY DEF ConstantsOK, TypeOK, Place, Passed

LEMMA CallPasses ==
    ASSUME TypeOK, NEW c \in Client, NEW p \in Proc,
           chain'[c] = Append(chain[c], p)
    PROVE  /\ Place(c)' = p
           /\ Passed(c)' = Passed(c) \cup {Place(c)}
           /\ chain'[c] # <<>>
  <1>1. chain[c] \in Seq(Proc)
    BY DEF TypeOK
  <1>2. /\ Len(chain'[c]) = Len(chain[c]) + 1
        /\ chain'[c][Len(chain[c]) + 1] = p
        /\ \A i \in 1 .. Len(chain[c]) : chain'[c][i] = chain[c][i]
    BY <1>1
  <1>3. Len(chain[c]) \in Nat /\ (chain[c] = <<>> <=> Len(chain[c]) = 0)
    BY <1>1
  <1>4. chain'[c] # <<>>
    BY <1>1, <1>2, <1>3
  <1>5. Place(c)' = p
    BY <1>2, <1>4 DEF Place
  <1>6. Passed(c)' = {Home[c]} \cup {chain[c][i] : i \in 1 .. Len(chain[c])}
    BY <1>2, <1>3 DEF Passed
  <1>7. {Home[c]} \cup {chain[c][i] : i \in 1 .. Len(chain[c])} = Passed(c) \cup {Place(c)}
    BY <1>3 DEF Passed, Place
  <1> QED BY <1>4, <1>5, <1>6, <1>7

\* Place and Passed, of a client at h and its chain s.
PlaceOf(h, s) == IF s = <<>> THEN h ELSE s[Len(s)]
PassedBy(h, s) == {h} \cup {s[i] : i \in 1 .. Len(s) - 1}

\* The same of a sequence and what is left of it without its last.
Front(s) == SubSeq(s, 1, Len(s) - 1)
LEMMA FrontPasses ==
    ASSUME NEW S, NEW s \in Seq(S), s # <<>>, NEW h
    PROVE  PassedBy(h, s) = PassedBy(h, Front(s)) \cup {PlaceOf(h, Front(s))}
  <1> DEFINE t == Front(s)
  <1> SUFFICES PassedBy(h, s) = PassedBy(h, t) \cup {PlaceOf(h, t)}
    OBVIOUS
  <1>1. PICK n \in Nat : n = Len(s) /\ n > 0
    OBVIOUS
  <1>2. /\ t \in Seq(S) /\ Len(t) = n - 1
        /\ \A i \in 1 .. n - 1 : t[i] = s[i]
    BY <1>1 DEF Front
  <1> HIDE DEF t
  <1>3. CASE n = 1
    <2>1. t = <<>>
      BY <1>2, <1>3
    <2> QED BY <1>1, <1>2, <1>3, <2>1 DEF PlaceOf, PassedBy
  <1>4. CASE n > 1
    <2>1. t # <<>>
      BY <1>2, <1>4
    <2>2. 1 .. n - 1 = (1 .. n - 2) \cup {n - 1}
      BY <1>4
    <2>3. {s[i] : i \in 1 .. n - 1} = {t[i] : i \in 1 .. n - 2} \cup {t[n - 1]}
      <3>1. \A i \in (1 .. n - 2) \cup {n - 1} : s[i] = t[i]
        BY <1>2, <2>2
      <3>2. {s[i] : i \in 1 .. n - 1} = {t[i] : i \in (1 .. n - 2) \cup {n - 1}}
        BY <2>2, <3>1, Zenon
      <3>3. \A f, A, k : {f[i] : i \in A \cup {k}} = {f[i] : i \in A} \cup {f[k]}
        OBVIOUS
      <3> QED BY <3>2, <3>3, Zenon
    <2>4. Len(t) = n - 1 /\ Len(t) - 1 = n - 2
      BY <1>2
    <2>5. PlaceOf(h, t) = t[n - 1]
      BY <2>1, <2>4 DEF PlaceOf
    <2> QED BY <1>1, <2>3, <2>4, <2>5, Zenon DEF PassedBy
  <1>5. n = 1 \/ n > 1
    BY <1>1
  <1> QED BY <1>3, <1>4, <1>5, Zenon

LEMMA ResumePasses ==
    ASSUME TypeOK, NEW c \in Client, chain[c] # <<>>,
           chain'[c] = SubSeq(chain[c], 1, Len(chain[c]) - 1)
    PROVE  Passed(c) = Passed(c)' \cup {Place(c)'}
  <1>1. chain[c] \in Seq(Proc)
    BY DEF TypeOK
  <1>2. chain'[c] = Front(chain[c])
    BY DEF Front
  <1>3. PassedBy(Home[c], chain[c])
          = PassedBy(Home[c], Front(chain[c])) \cup {PlaceOf(Home[c], Front(chain[c]))}
    BY <1>1, FrontPasses
  <1> QED BY <1>2, <1>3 DEF Passed, Place, PassedBy, PlaceOf

LEMMA StaysPlaced ==
    ASSUME NEW c \in Client, chain'[c] = chain[c]
    PROVE  Place(c)' = Place(c) /\ Passed(c)' = Passed(c)
  BY DEF Place, Passed

\* What is true of a client stays so while others step.
LEMMA OthersStay ==
    ASSUME NEW d \in Client, Threads(d), Deployed(d),
           chain'[d] = chain[d], at'[d] = at[d], bound'[d] = bound[d]
    PROVE  Threads(d)' /\ Deployed(d)'
  BY StaysPlaced DEF Threads, Deployed

-----------------------------------------------------------------------------
(* The invariant.                                                          *)

LEMMA TypeStays ==
    ASSUME ConstantsOK, TypeOK, [Next]_vars
    PROVE  TypeOK'
  <1>1. CASE UNCHANGED vars
    BY <1>1 DEF TypeOK, vars
  <1>2. ASSUME NEW c \in Client, NEW p \in Proc, Call(c, p) PROVE TypeOK'
    <2>1. Append(chain[c], p) \in Seq(Proc)
      BY DEF TypeOK
    <2> QED BY <1>2, <2>1 DEF TypeOK, Call
  <1>3. ASSUME NEW c \in Client, Bind(c) PROVE TypeOK'
    <2>1. PICK w \in Pool[Place(c)] :
            bound' = [bound EXCEPT ![c] = [@ EXCEPT ![Place(c)] = w]]
      BY <1>3 DEF Bind
    <2>2. w \in Thread
      BY PlacesAreProcesses DEF Thread, Worker
    <2> QED BY <1>3, <2>1, <2>2 DEF TypeOK, Bind
  <1>4. ASSUME NEW c \in Client, Serve(c) PROVE TypeOK'
    BY <1>4 DEF TypeOK, Serve
  <1>5. ASSUME NEW c \in Client, Finish(c) PROVE TypeOK'
    BY <1>5 DEF TypeOK, Finish
  <1>6. ASSUME NEW c \in Client, Release(c) PROVE TypeOK'
    BY <1>6 DEF TypeOK, Release
  <1>7. ASSUME NEW c \in Client, Resume(c) PROVE TypeOK'
    <2>1. SubSeq(chain[c], 1, Len(chain[c]) - 1) \in Seq(Proc)
      BY DEF TypeOK
    <2> QED BY <1>7, <2>1 DEF TypeOK, Resume
  <1> QED BY <1>1, <1>2, <1>3, <1>4, <1>5, <1>6, <1>7 DEF Next

\* A step of client c leaves it with its threads, and in the right places.
LEMMA DeploymentStays ==
    ASSUME ConstantsOK, IInv, NEW c \in Client,
           \/ \E p \in Proc : Call(c, p)
           \/ Bind(c) \/ Serve(c) \/ Finish(c) \/ Release(c) \/ Resume(c)
    PROVE  Threads(c)' /\ Deployed(c)'
  <1> USE DEF IInv
  <1>0. /\ Threads(c) /\ Deployed(c) /\ TypeOK
        /\ Place(c) \in Proc /\ Passed(c) \subseteq Proc /\ Home[c] \in Passed(c)
    BY PlacesAreProcesses
  <1>1. ASSUME NEW p \in Proc, Call(c, p) PROVE Threads(c)' /\ Deployed(c)'
    <2>1. /\ at[c] = "running" /\ at'[c] = "called" /\ bound' = bound
          /\ chain'[c] = Append(chain[c], p)
      BY <1>1 DEF Call, TypeOK
    <2>2. /\ Place(c)' = p /\ Passed(c)' = Passed(c) \cup {Place(c)}
          /\ chain'[c] # <<>>
      BY <2>1, CallPasses
    <2> QED BY <1>0, <2>1, <2>2 DEF Threads, Deployed
  <1>2. CASE Bind(c)
    <2>1. PICK w \in Pool[Place(c)] :
            bound' = [bound EXCEPT ![c] = [@ EXCEPT ![Place(c)] = w]]
      BY <1>2 DEF Bind
    <2>2. /\ at[c] = "called" /\ at' = at /\ bound[c][Place(c)] = None
          /\ Place(c)' = Place(c) /\ Passed(c)' = Passed(c) /\ chain' = chain
      BY <1>2, StaysPlaced DEF Bind
    <2>3. w # None
      BY <1>0 DEF ConstantsOK, Thread, Worker
    <2>4. /\ bound'[c][Place(c)] = w
          /\ \A p \in Proc \ {Place(c)} : bound'[c][p] = bound[c][p]
      BY <1>0, <2>1 DEF TypeOK
    <2>5. Place(c) # Home[c]
      BY <1>0, <2>2 DEF Deployed
    <2> QED BY <1>0, <2>2, <2>3, <2>4, <2>5 DEF Threads, Deployed
  <1>3. CASE Serve(c)
    <2>1. /\ at[c] = "called" /\ at'[c] = "running" /\ bound' = bound
          /\ bound[c][Place(c)] # None
          /\ Place(c)' = Place(c) /\ Passed(c)' = Passed(c) /\ chain' = chain
      BY <1>0, <1>3, StaysPlaced DEF Serve, TypeOK
    <2> QED BY <1>0, <2>1 DEF Threads, Deployed
  <1>4. CASE Finish(c)
    <2>1. /\ at[c] = "running" /\ at'[c] = "over" /\ bound' = bound /\ chain[c] # <<>>
          /\ Place(c)' = Place(c) /\ Passed(c)' = Passed(c) /\ chain' = chain
      BY <1>0, <1>4, StaysPlaced DEF Finish, TypeOK
    <2> QED BY <1>0, <2>1 DEF Threads, Deployed
  <1>5. CASE Release(c)
    <2>1. /\ at[c] = "over" /\ at'[c] = "returned"
          /\ Place(c)' = Place(c) /\ Passed(c)' = Passed(c) /\ chain' = chain
      BY <1>0, <1>5, StaysPlaced DEF Release, TypeOK
    <2>2. /\ Place(c) \in Passed(c) => bound'[c] = bound[c]
          /\ Place(c) \notin Passed(c) =>
               /\ bound'[c][Place(c)] = None
               /\ \A p \in Proc \ {Place(c)} : bound'[c][p] = bound[c][p]
      BY <1>0, <1>5 DEF Release, TypeOK
    <2>3. CASE Place(c) \in Passed(c)
      BY <1>0, <2>1, <2>2, <2>3 DEF Threads, Deployed
    <2>4. CASE Place(c) \notin Passed(c)
      BY <1>0, <2>1, <2>2, <2>4 DEF Threads, Deployed
    <2> QED BY <2>3, <2>4
  <1>6. CASE Resume(c)
    <2>1. /\ at[c] = "returned" /\ at'[c] = "running" /\ bound' = bound
          /\ chain'[c] = SubSeq(chain[c], 1, Len(chain[c]) - 1)
      BY <1>0, <1>6 DEF Resume, TypeOK
    <2>2. Passed(c) = Passed(c)' \cup {Place(c)'}
      BY <1>0, <2>1, ResumePasses DEF Deployed
    <2> QED BY <1>0, <2>1, <2>2 DEF Threads, Deployed
  <1> QED BY <1>1, <1>2, <1>3, <1>4, <1>5, <1>6

\* Only Bind gives a thread to anybody, and one that nobody has there.
LEMMA ChainsStayApart ==
    ASSUME IInv, NEW c \in Client,
           \/ \E p \in Proc : Call(c, p)
           \/ Bind(c) \/ Serve(c) \/ Finish(c) \/ Release(c) \/ Resume(c)
    PROVE  OneChainEach'
  <1> USE DEF IInv
  <1>1. CASE UNCHANGED bound
    BY <1>1 DEF OneChainEach
  <1>2. CASE Bind(c)
    <2>1. PICK w \in Pool[Place(c)] :
            /\ \A d \in Client : bound[d][Place(c)] # w
            /\ bound' = [bound EXCEPT ![c] = [@ EXCEPT ![Place(c)] = w]]
      BY <1>2 DEF Bind
    <2>2. \A d \in Client, p \in Proc :
            bound'[d][p] = IF d = c /\ p = Place(c) THEN w ELSE bound[d][p]
      BY <2>1 DEF TypeOK
    <2> QED BY <2>1, <2>2 DEF OneChainEach
  <1>3. CASE Release(c) /\ Place(c) \notin Passed(c)
    <2>1. \A d \in Client, p \in Proc :
            bound'[d][p] = IF d = c /\ p = Place(c) THEN None ELSE bound[d][p]
      BY <1>3 DEF Release, TypeOK
    <2> QED BY <2>1 DEF OneChainEach
  <1> QED BY <1>1, <1>2, <1>3 DEF Call, Serve, Finish, Release, Resume

LEMMA InvariantStays ==
    ASSUME ConstantsOK, IInv, [Next]_vars
    PROVE  IInv'
  <1>0. TypeOK'
    BY TypeStays DEF IInv
  <1>1. CASE UNCHANGED vars
    <2>1. \A c \in Client : Threads(c)' /\ Deployed(c)'
      BY <1>1, OthersStay DEF IInv, vars
    <2>2. OneChainEach'
      BY <1>1 DEF IInv, OneChainEach, vars
    <2> QED BY <1>0, <2>1, <2>2 DEF IInv
  <1>2. CASE Next
    <2>1. PICK c \in Client :
            \/ \E p \in Proc : Call(c, p)
            \/ Bind(c) \/ Serve(c) \/ Finish(c) \/ Release(c) \/ Resume(c)
      BY <1>2 DEF Next
    <2>2. ASSUME NEW d \in Client PROVE Threads(d)' /\ Deployed(d)'
      <3>1. CASE d = c
        BY <2>1, <3>1, DeploymentStays
      <3>2. CASE d # c
        <4>1. chain'[d] = chain[d] /\ at'[d] = at[d] /\ bound'[d] = bound[d]
          BY <2>1, <3>2 DEF IInv, TypeOK, Call, Bind, Serve, Finish, Release, Resume
        <4> QED BY <4>1, OthersStay DEF IInv
      <3> QED BY <3>1, <3>2
    <2>3. OneChainEach'
      BY <2>1, ChainsStayApart
    <2> QED BY <1>0, <2>2, <2>3 DEF IInv
  <1> QED BY <1>1, <1>2

LEMMA InvariantBegins ==
    ASSUME ConstantsOK, Init
    PROVE  IInv
  <1>1. ASSUME NEW c \in Client
        PROVE  /\ chain[c] = <<>> /\ at[c] = "running"
               /\ \A p \in Proc : bound[c][p] = IF p = Home[c] THEN c ELSE None
               /\ Place(c) = Home[c] /\ Passed(c) = {Home[c]}
    BY DEF Init, Place, Passed
  <1>2. TypeOK
    BY DEF Init, TypeOK, Thread
  <1>3. \A c \in Client : c # None /\ Home[c] \in Proc
    BY DEF ConstantsOK, Thread
  <1>4. ASSUME NEW c \in Client PROVE Threads(c) /\ Deployed(c)
    <2>1. Threads(c)
      BY <1>1, <1>3 DEF Threads
    <2>2. Deployed(c)
      BY <1>1, <1>3 DEF Deployed
    <2> QED BY <2>1, <2>2
  <1>5. OneChainEach
    BY <1>1 DEF OneChainEach
  <1> QED BY <1>2, <1>4, <1>5 DEF IInv

\* However clients and handlers call each other, a client has one thread in
\* each process its calls lie open in or have come to, and none elsewhere.
THEOREM Invariant ==
    ASSUME ConstantsOK
    PROVE  Spec => []IInv
  <1>1. Init => IInv
    BY InvariantBegins
  <1>2. IInv /\ [Next]_vars => IInv'
    BY InvariantStays
  <1> QED BY <1>1, <1>2, PTL DEF Spec

-----------------------------------------------------------------------------
(* What follows from it.                                                   *)

\* The calls of a client lie in processes, and what serves them are threads.
THEOREM TypeCorrect ==
    ASSUME ConstantsOK
    PROVE  Spec => []TypeOK
  BY Invariant, PTL DEF IInv

\* A worker of a process serves the calls of one client only, as long as it is
\* registered for them: what acquireWaitingThread and getFreeWorker hand out.
THEOREM ChainsApart ==
    ASSUME ConstantsOK
    PROVE  Spec => []OneChainEach
  BY Invariant, PTL DEF IInv

\* Where c runs it has a thread, its own at home and a worker elsewhere.
LEMMA RunsOnItsOwn ==
    ASSUME ConstantsOK, IInv, NEW c \in Client, at[c] = "running"
    PROVE  /\ Place(c) \in Proc
           /\ bound[c][Place(c)] # None
           /\ IF Place(c) = Home[c] THEN bound[c][Place(c)] = c
              ELSE bound[c][Place(c)] \in Pool[Place(c)]
  BY PlacesAreProcesses DEF ConstantsOK, Thread, IInv, Threads, Deployed

\* No thread ever runs on behalf of two clients at a time: a handler is never
\* interrupted on its thread by another client's call.
THEOREM OneClientRuns ==
    ASSUME ConstantsOK
    PROVE  Spec => []OneRuns
  <1>1. IInv => OneRuns
    <2> SUFFICES ASSUME IInv, NEW c \in Client, NEW d \in Client, NEW t,
                        t \in Runs(c), t \in Runs(d)
                 PROVE  c = d
      BY DEF OneRuns
    <2>1. /\ at[c] = "running" /\ t = bound[c][Place(c)]
          /\ at[d] = "running" /\ t = bound[d][Place(d)]
      BY DEF Runs
    <2>2. CASE Place(c) = Place(d)
      <3>1. Place(c) \in Proc /\ bound[c][Place(c)] # None
        BY <2>1, RunsOnItsOwn
      <3>2. bound[c][Place(c)] = bound[d][Place(c)]
        BY <2>1, <2>2
      <3> QED BY <3>1, <3>2 DEF IInv, OneChainEach
    <2>3. CASE Place(c) # Place(d)
      <3>1. /\ IF Place(c) = Home[c] THEN t = c ELSE t \in Pool[Place(c)]
            /\ IF Place(d) = Home[d] THEN t = d ELSE t \in Pool[Place(d)]
            /\ Place(c) \in Proc /\ Place(d) \in Proc
        BY <2>1, RunsOnItsOwn
      <3> QED BY <2>3, <3>1 DEF ConstantsOK, Worker
    <2> QED BY <2>2, <2>3
  <1> QED BY <1>1, Invariant, PTL

\* Between its calls a client keeps no worker anywhere: each layer of nested
\* calls gives up what it registered (releaseWaitingThread).
THEOREM NothingKeptBetween ==
    ASSUME ConstantsOK
    PROVE  Spec => []NothingKept
  <1>1. IInv => NothingKept
    <2> SUFFICES ASSUME IInv, NEW c \in Client, chain[c] = <<>>,
                        NEW p \in Proc \ {Home[c]}
                 PROVE  bound[c][p] = None
      BY DEF NothingKept
    <2>1. Place(c) = Home[c] /\ Passed(c) = {Home[c]}
      BY DEF Place, Passed
    <2> QED BY <2>1 DEF IInv, Deployed
  <1> QED BY <1>1, Invariant, PTL

\* The workers in use in a process are at most as many as the clients of other
\* processes, however deep calls are nested: each of them is the only one its
\* client has there (getFreeWorker creates no more).
THEOREM EnoughWorkers ==
    ASSUME ConstantsOK, IsFiniteSet(Client)
    PROVE  Spec => []WorkersEnough
  <1>1. IInv => WorkersEnough
    <2> SUFFICES ASSUME IInv, NEW p \in Proc
                 PROVE  Cardinality(InUse(p)) <= Cardinality(Foreign(p))
      BY DEF WorkersEnough
    <2> DEFINE user == [w \in InUse(p) |-> CHOOSE c \in Client : bound[c][p] = w]
    <2>1. ASSUME NEW w \in InUse(p)
          PROVE  user[w] \in Client /\ bound[user[w]][p] = w
      BY DEF InUse
    <2>2. ASSUME NEW w \in InUse(p) PROVE user[w] \in Foreign(p)
      <3>1. w \notin Client
        BY DEF ConstantsOK, InUse, Worker
      <3>2. Home[user[w]] # p
        BY <2>1, <3>1 DEF IInv, Threads
      <3> QED BY <2>1, <3>2 DEF Foreign
    <2>3. user \in Injection(InUse(p), Foreign(p))
      BY <2>1, <2>2 DEF Injection, IsInjective
    <2>4. IsFiniteSet(Foreign(p))
      BY FS_Subset DEF Foreign
    <2> QED BY <2>3, <2>4, FS_Injection
  <1> QED BY <1>1, Invariant, PTL

\* However its calls are nested, a client keeps the thread it has in a process
\* until its return from the last call there: neither a callback nor a second
\* call moves it to another.
THEOREM ThreadKept ==
    ASSUME ConstantsOK
    PROVE  Spec => [][KeepsThread]_vars
  <1>1. IInv /\ [Next]_vars => [KeepsThread]_vars
    <2> SUFFICES ASSUME IInv, NEW c \in Client,
                        \/ \E p \in Proc : Call(c, p)
                        \/ Bind(c) \/ Serve(c) \/ Finish(c) \/ Release(c) \/ Resume(c)
                 PROVE  KeepsThread
      BY DEF Next
    <2>1. CASE UNCHANGED bound
      BY <2>1 DEF KeepsThread
    <2>2. CASE Bind(c)
      <3>1. PICK w :
              bound' = [bound EXCEPT ![c] = [@ EXCEPT ![Place(c)] = w]]
        BY <2>2 DEF Bind
      <3>2. bound[c][Place(c)] = None
        BY <2>2 DEF Bind
      <3>3. \A d \in Client, p \in Proc :
              bound'[d][p] # bound[d][p] => d = c /\ p = Place(c)
        BY <3>1 DEF IInv, TypeOK
      <3> QED BY <3>2, <3>3 DEF KeepsThread
    <2>3. CASE Release(c) /\ Place(c) \notin Passed(c)
      <3>1. \A d \in Client, p \in Proc :
              bound'[d][p] = IF d = c /\ p = Place(c) THEN None ELSE bound[d][p]
        BY <2>3 DEF Release, IInv, TypeOK
      <3>2. at'[c] = "returned" /\ Passed(c)' = Passed(c)
        BY <2>3, StaysPlaced DEF Release, IInv, TypeOK
      <3> QED BY <2>3, <3>1, <3>2 DEF KeepsThread
    <2> QED BY <2>1, <2>2, <2>3 DEF Call, Serve, Finish, Release, Resume
  <1> QED BY <1>1, Invariant, PTL DEF Spec

=============================================================================
