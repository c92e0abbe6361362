------------------------------- MODULE MCCalls -------------------------------
(* Topologies of processes for Calls, and the values its constants take.   *)
EXTENDS CallsProperties, TLC

CONSTANTS a, b  \* clients

\* Thread ids that differ, as gettid() gives them within one machine.
OwnTid == [c \in Client |-> c]
\* Processes of different machines, or ids cut to 16 bits: all the same.
SameTid == [c \in Client |-> "tid"]

\* Pair: P's clients call S at Q, whose handlers call back CB at P.
PairOwner == [e \in {"pq", "qp"} |-> IF e = "pq" THEN "P" ELSE "Q"]
PairPeer == [e \in {"pq", "qp"} |-> IF e = "pq" THEN "qp" ELSE "pq"]
PairOrder == [p \in {"P", "Q"} |-> IF p = "P" THEN <<"pq">> ELSE <<"qp">>]
PairProvides == [e \in {"pq", "qp"} |-> IF e = "pq" THEN {"S"} ELSE {"CB"}]
AtP == [c \in Client |-> "P"]

\* Fork: a client each at A and B calls S at C, whose handlers call back.
ForkPeer == [e \in {"ac", "ca", "bc", "cb"} |->
    CASE e = "ac" -> "ca" [] e = "ca" -> "ac" [] e = "bc" -> "cb" [] e = "cb" -> "bc"]
ForkOwner == [e \in {"ac", "ca", "bc", "cb"} |->
    IF e = "ac" THEN "A" ELSE IF e = "bc" THEN "B" ELSE "C"]
ForkOrder == [p \in {"A", "B", "C"} |->
    IF p = "A" THEN <<"ac">> ELSE IF p = "B" THEN <<"bc">> ELSE <<"cb", "ca">>]
ForkProvides == [e \in {"ac", "ca", "bc", "cb"} |->
    IF e \in {"ac", "bc"} THEN {"S"} ELSE {"CB"}]
ForkHome == [c \in Client |-> IF c = a THEN "A" ELSE "B"]

\* Deep: the two ends l and r of a connection are in P itself, as in
\* tests/test09, and P is connected to Q, whose handlers call back.
DeepPeer == [e \in {"l", "r", "pq", "qp"} |->
    CASE e = "l" -> "r" [] e = "r" -> "l" [] e = "pq" -> "qp" [] e = "qp" -> "pq"]
DeepOwner == [e \in {"l", "r", "pq", "qp"} |-> IF e = "qp" THEN "Q" ELSE "P"]
DeepOrder == [p \in {"P", "Q"} |-> IF p = "P" THEN <<"l", "r", "pq">> ELSE <<"qp">>]
DeepProvides == [e \in {"l", "r", "pq", "qp"} |->
    CASE e = "l" -> {"L"} [] e = "r" -> {} [] e = "pq" -> {"S"} [] e = "qp" -> {"CB"}]

One == [c \in Client |-> 1]
Three == [c \in Client |-> 3]
TwoOne == [c \in Client |-> IF c = a THEN 2 ELSE 1]
FourOne == [c \in Client |-> IF c = a THEN 4 ELSE 1]

AtMost(c, n) == \A m \in n+1..Budget[c] : rpc[<<c, m>>].client = "none"
NoneThrown == \A id \in CallId : rpc[id].served # "Thrown"
Works(e) == wire[e].readable /\ wire[e].writable

\* Bound of Failures: three instances at once.  Handlers fail or throw in four calls
\* of a; the streams of one end fail too, in three; or b calls as well, and handlers
\* fail.  What has left an instance never comes back: each is explored whole.
Scope ==
    \/ AtMost(b, 0) /\ \A e \in Conn : Works(e)
    \/ AtMost(b, 0) /\ AtMost(a, 3) /\ \E e \in Conn : Works(e)
    \/ AtMost(a, 2) /\ NoneThrown /\ \A e \in Conn : Works(e)

=============================================================================
