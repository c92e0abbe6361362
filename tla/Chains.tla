-------------------------------- MODULE Chains -------------------------------
(***************************************************************************)
(* What nested calls are to those who write clients and handlers: a thread *)
(* of control that moves from process to process and back.  In each        *)
(* process it passes through it has one thread, from the first call that   *)
(* brings it there until the last has come to its end, and it runs on one  *)
(* of them at a time.  The thread is the client itself in its own process, *)
(* elsewhere a worker that serves nobody else.                             *)
(*                                                                         *)
(* This is the case in which no stream fails and all handlers succeed.     *)
(***************************************************************************)
EXTENDS Naturals, Sequences, FiniteSets

CONSTANTS
    Client,  \* threads of the applications that make calls
    Proc,    \* processes
    Home,    \* the process each client is in
    Pool,    \* the workers of each process
    None     \* no thread

Worker == UNION {Pool[p] : p \in Proc}
Thread == Client \cup Worker

\* What the constants are: every client has a home, a worker belongs to one
\* process and is no client.
ConstantsOK ==
    /\ Home \in [Client -> Proc]
    /\ Client \cap Worker = {}
    /\ \A p, q \in Proc : p # q => Pool[p] \cap Pool[q] = {}
    /\ None \notin Thread

VARIABLES
    chain,  \* of each client: the processes called, by calls not yet returned
    at,     \* where the innermost call stands
    bound   \* the thread it has in each process

vars == <<chain, at, bound>>

TypeOK ==
    /\ chain \in [Client -> Seq(Proc)]
    /\ at \in [Client -> {"running", "called", "over", "returned"}]
    /\ bound \in [Client -> [Proc -> Thread \cup {None}]]

Init ==
    /\ chain = [c \in Client |-> <<>>]
    /\ at = [c \in Client |-> "running"]
    /\ bound = [c \in Client |-> [p \in Proc |-> IF p = Home[c] THEN c ELSE None]]

\* The process of the innermost call, and those that calls made before it, and
\* not returned yet, came from or went to.
Place(c) == IF chain[c] = <<>> THEN Home[c] ELSE chain[c][Len(chain[c])]
Passed(c) == {Home[c]} \cup {chain[c][i] : i \in 1 .. Len(chain[c]) - 1}

\* Whoever runs for c calls a service that process p provides.
Call(c, p) ==
    /\ at[c] = "running"
    /\ chain' = [chain EXCEPT ![c] = Append(@, p)]
    /\ at' = [at EXCEPT ![c] = "called"]
    /\ UNCHANGED bound

\* A call to a process where c has no thread gets a worker no other has.
Bind(c) ==
    LET p == Place(c) IN
    /\ at[c] = "called"
    /\ bound[c][p] = None
    /\ \E w \in Pool[p] :
         /\ \A d \in Client : bound[d][p] # w
         /\ bound' = [bound EXCEPT ![c] = [@ EXCEPT ![p] = w]]
    /\ UNCHANGED <<chain, at>>

\* The handler runs, on the thread c has there.
Serve(c) ==
    /\ at[c] = "called"
    /\ bound[c][Place(c)] # None
    /\ at' = [at EXCEPT ![c] = "running"]
    /\ UNCHANGED <<chain, bound>>

Finish(c) ==
    /\ at[c] = "running"
    /\ chain[c] # <<>>
    /\ at' = [at EXCEPT ![c] = "over"]
    /\ UNCHANGED <<chain, bound>>

\* The thread has done its last for c, unless an outer call came through its
\* process too.  Only then is the return sent.
Release(c) ==
    LET p == Place(c) IN
    /\ at[c] = "over"
    /\ at' = [at EXCEPT ![c] = "returned"]
    /\ bound' = IF p \in Passed(c) THEN bound
                ELSE [bound EXCEPT ![c] = [@ EXCEPT ![p] = None]]
    /\ UNCHANGED chain

\* The caller goes on, on the thread it called from.
Resume(c) ==
    /\ at[c] = "returned"
    /\ chain' = [chain EXCEPT ![c] = SubSeq(@, 1, Len(@) - 1)]
    /\ at' = [at EXCEPT ![c] = "running"]
    /\ UNCHANGED bound

Next == \E c \in Client :
    \/ \E p \in Proc : Call(c, p)
    \/ Bind(c)
    \/ Serve(c)
    \/ Finish(c)
    \/ Release(c)
    \/ Resume(c)

Spec == Init /\ [][Next]_vars

-----------------------------------------------------------------------------
\* The threads that run on behalf of c.
Runs(c) == IF at[c] = "running" THEN {bound[c][Place(c)]} ELSE {}

\* No thread runs for two clients.
OneRuns == \A c, d \in Client : Runs(c) \cap Runs(d) # {} => c = d

\* No process gives one thread to two clients' calls.
OneChainEach ==
    \A c, d \in Client, p \in Proc :
        bound[c][p] # None /\ bound[c][p] = bound[d][p] => c = d

\* A client that is in no call keeps no worker.
NothingKept ==
    \A c \in Client : chain[c] = <<>> =>
        \A p \in Proc \ {Home[c]} : bound[c][p] = None

\* The workers of process p in use, and the clients that may need one.
InUse(p) == {w \in Pool[p] : \E c \in Client : bound[c][p] = w}
Foreign(p) == {c \in Client : Home[c] # p}

\* No process needs more workers than there are clients in others, however
\* deep their calls are nested.
WorkersEnough == \A p \in Proc : Cardinality(InUse(p)) <= Cardinality(Foreign(p))

\* However its calls are nested, a client keeps its thread in a process until
\* none of the calls that are left comes through there.
KeepsThread ==
    \A c \in Client, p \in Proc :
        bound[c][p] # None /\ bound'[c][p] # bound[c][p] =>
            bound'[c][p] = None /\ p \notin Passed(c)' /\ at'[c] = "returned"

=============================================================================
