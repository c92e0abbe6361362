------------------------------- MODULE Framing -------------------------------
(***************************************************************************)
(* Messages on a stream of bytes (connection.cpp).  sendMessage writes a   *)
(* frame, four bytes of length and that many of content, with as many      *)
(* calls of RawIO::write as it takes; recvMessage reads the length, then   *)
(* the content, with as many calls of RawIO::read.  A call of either may   *)
(* fail at any time.                                                       *)
(*                                                                         *)
(* Nothing keeps two threads from writing to one stream at a time, and     *)
(* nothing tells a reader where a frame begins.  A stream is spoilt once a *)
(* frame has begun amidst another.  What its reader makes of it then is    *)
(* not followed.                                                           *)
(*                                                                         *)
(* These are the actions of the streams; those who send and receive have   *)
(* theirs in module Stubs.                                                 *)
(***************************************************************************)
EXTENDS Serialize

CONSTANTS
    Thread,    \* threads that send: pairs of a name and the end they are at
    Fragile,   \* ends whose RawIO may fail
    Cuts,      \* bound: lengths of the part of a frame that is written or read
               \* when RawIO takes or gives less than it is asked to
    None

ASSUME FramingAssumption ==
    /\ Thread = {t[1] : t \in Thread} \X {"client", "server"}
    /\ Fragile \subseteq {"client", "server"}
    /\ Cuts \subseteq Nat \ {0}
    /\ None \notin Seq(Byte)

VARIABLES
    whole,   \* whether RawIO::write takes all it is given, in one piece
    state,   \* Connection::state of each end
    stream,  \* the bytes on their way to each end
    out,     \* of each thread: what it has still to write
    written, \* ... and how much of a frame it has written before that
    torn,    \* ends to which a frame has broken off
    spoilt,  \* ends to which a frame was begun amidst another
    reader,  \* where the reader of each end is
    got,     \* what it has of the message it reads
    sent,    \* messages written to the last byte and not read to the last
    inbox    \* the message it has received and not delivered yet

framing == <<whole, state, stream, out, written, torn, spoilt, reader, got, sent, inbox>>

End == {"client", "server"}
Peer(e) == IF e = "client" THEN "server" ELSE "client"
EndOf(t) == t[2]

Frame_CountsItself(message) == Bytes4(Len(message) + 4) \o message

\* A message: the caller's thread id, the command, and what comes with it.
Frame(message) == Bytes4(Len(message)) \o message

TypeOKFraming ==
    /\ whole \in BOOLEAN
    /\ state \in [End -> {"Active", "Closed", "ClosedCleanedup"}]
    /\ stream \in [End -> Seq(Byte)]
    /\ out \in [Thread -> Seq(Byte)]
    /\ written \in [Thread -> Nat]
    /\ torn \subseteq End
    /\ spoilt \subseteq End
    /\ reader \in [End -> {"check", "read", "deliver", "gone", "done"}]
    /\ got \in [End -> Seq(Byte)]
    /\ sent \in [End -> Seq(Seq(Byte))]
    /\ inbox \in [End -> Seq(Byte) \cup {None}]

InitFraming ==
    /\ whole \in BOOLEAN
    /\ state = [e \in End |-> "Active"]
    /\ stream = [e \in End |-> <<>>]
    /\ out = [t \in Thread |-> <<>>]
    /\ written = [t \in Thread |-> 0]
    /\ torn = {}
    /\ spoilt = {}
    /\ reader = [e \in End |-> "check"]
    /\ got = [e \in End |-> <<>>]
    /\ sent = [e \in End |-> <<>>]
    /\ inbox = [e \in End |-> None]

Close(e) == state' = [state EXCEPT ![e] = IF @ = "Active" THEN "Closed" ELSE @]

\* try_on_client_cleanup of end e; busy says whether it serves calls.  (Module
\* Connection has its steps.)
Cleanup(e, busy) ==
    state' = [state EXCEPT ![e] = IF @ = "Closed" /\ ~busy THEN "ClosedCleanedup" ELSE @]

-----------------------------------------------------------------------------
(* sendMessage and write_all.                                              *)

Refuses_Never(t) == FALSE

\* A Closed connection takes no message.  One cleaned up does.
Refuses(t) == state[EndOf(t)] = "Closed"

\* The message is accepted; nothing of it is written yet.
BeginWrite(t, message) ==
    /\ ~Refuses(t)
    /\ out' = [out EXCEPT ![t] = Frame(message)]
    /\ UNCHANGED <<whole, state, stream, written, torn, spoilt, reader, got, sent, inbox>>

\* Another thread is in the midst of a frame to end e, or one broke off.
Amidst(t, e) ==
    e \in torn \/ \E u \in Thread \ {t} : EndOf(u) = EndOf(t) /\ written[u] > 0

\* A call of RawIO::write that takes the first n bytes of what is left.  The
\* message is sent with the last of them.
WritePart(t, n) ==
    LET e == Peer(EndOf(t))
        last == n = Len(out[t])
    IN  /\ n \in 1 .. Len(out[t])
        /\ last \/ (~whole /\ written[t] + n \in Cuts)
        /\ stream' = [stream EXCEPT ![e] = @ \o SubSeq(out[t], 1, n)]
        /\ out' = [out EXCEPT ![t] = After(@, n)]
        /\ written' = [written EXCEPT ![t] = IF last THEN 0 ELSE @ + n]
        /\ spoilt' = IF Amidst(t, e) THEN spoilt \cup {e} ELSE spoilt
        /\ UNCHANGED <<whole, state, torn, reader, got, inbox>>

SendsNothing == UNCHANGED sent
Sends(t, message) == sent' = [sent EXCEPT ![Peer(EndOf(t))] = Append(@, message)]

\* A call of RawIO::write that takes nothing: the rest is not written.
WriteFails(t) ==
    /\ out[t] # <<>>
    /\ EndOf(t) \in Fragile
    /\ torn' = IF written[t] > 0 THEN torn \cup {Peer(EndOf(t))} ELSE torn
    /\ out' = [out EXCEPT ![t] = <<>>]
    /\ written' = [written EXCEPT ![t] = 0]
    /\ Close(EndOf(t))
    /\ UNCHANGED <<whole, stream, spoilt, reader, got, sent, inbox>>

-----------------------------------------------------------------------------
(* recvMessage and read_all, in the loop of input_processor.               *)

ReaderCheck(e) ==
    /\ reader[e] = "check"
    /\ reader' = [reader EXCEPT ![e] = IF state[e] = "Closed" THEN "gone" ELSE "read"]
    /\ UNCHANGED <<whole, state, stream, out, written, torn, spoilt, got, sent, inbox>>

\* What the reader asks for: the rest of the length, then of the content.
Missing(bytes) ==
    IF Len(bytes) < 4 THEN 4 - Len(bytes)
    ELSE 4 + Number(bytes) - Len(bytes)

Content_Truncated(bytes) == SubSeq(bytes, 5, Len(bytes) - 1)

\* What is received, once nothing is missing: all but the length.
Content(bytes) == After(bytes, 4)

\* A call of RawIO::read that returns n bytes.  With the last of a message it
\* is received.
ReadPart(e, n) ==
    LET bytes == got[e] \o SubSeq(stream[e], 1, n)
        last == Len(bytes) >= 4 /\ Missing(bytes) = 0
    IN  /\ reader[e] = "read"
        /\ e \notin spoilt
        /\ n \in 1 .. Len(stream[e])
        /\ n = Missing(got[e]) \/ (n < Missing(got[e]) /\ Len(bytes) \in Cuts)
        /\ stream' = [stream EXCEPT ![e] = After(@, n)]
        /\ got' = [got EXCEPT ![e] = IF last THEN <<>> ELSE bytes]
        /\ IF last
           THEN /\ inbox' = [inbox EXCEPT ![e] = Content(bytes)]
                /\ sent' = [sent EXCEPT ![e] = After(@, 1)]
                /\ reader' = [reader EXCEPT ![e] = "deliver"]
           ELSE UNCHANGED <<inbox, sent, reader>>
        /\ UNCHANGED <<whole, state, out, written, torn, spoilt>>

\* A call of RawIO::read that returns none: what has been read is dropped.
ReadFails(e) ==
    /\ reader[e] = "read"
    /\ e \in Fragile
    /\ reader' = [reader EXCEPT ![e] = "gone"]
    /\ got' = [got EXCEPT ![e] = <<>>]
    /\ Close(e)
    /\ UNCHANGED <<whole, stream, out, written, torn, spoilt, sent, inbox>>

\* The message is delivered, the reader goes on.
Delivered(e) ==
    /\ reader[e] = "deliver"
    /\ reader' = [reader EXCEPT ![e] = "check"]
    /\ inbox' = [inbox EXCEPT ![e] = None]
    /\ UNCHANGED <<whole, state, stream, out, written, torn, spoilt, got, sent>>

\* The reader gives up, and with it, perhaps, the connection.
ReaderExit(e, busy) ==
    /\ reader[e] = "gone"
    /\ reader' = [reader EXCEPT ![e] = "done"]
    /\ Cleanup(e, busy)
    /\ UNCHANGED <<whole, stream, out, written, torn, spoilt, got, sent, inbox>>

=============================================================================
