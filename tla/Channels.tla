------------------------------ MODULE Channels -------------------------------
(***************************************************************************)
(* What the ends of a connection take from the stream between them: whole  *)
(* messages, in the order in which they were sent, each once.  What is on  *)
(* its way may be lost with the stream, so nobody is promised that it      *)
(* arrives.  Module Calls takes its messages from such channels.           *)
(***************************************************************************)
EXTENDS Sequences

CONSTANTS End, Message, None

VARIABLES
    queue,  \* messages on their way to each end
    inbox   \* the message each end has taken and not acted on yet

vars == <<queue, inbox>>

Init == queue = [e \in End |-> <<>>] /\ inbox = [e \in End |-> None]

Send(e, m) == queue' = [queue EXCEPT ![e] = Append(@, m)] /\ UNCHANGED inbox

Receive(e) ==
    /\ queue[e] # <<>>
    /\ inbox[e] = None
    /\ inbox' = [inbox EXCEPT ![e] = Head(queue[e])]
    /\ queue' = [queue EXCEPT ![e] = Tail(@)]

Deliver(e) ==
    /\ inbox[e] # None
    /\ inbox' = [inbox EXCEPT ![e] = None]
    /\ UNCHANGED queue

Next == \E e \in End : Receive(e) \/ Deliver(e) \/ \E m \in Message : Send(e, m)

Spec == Init /\ [][Next]_vars

=============================================================================
