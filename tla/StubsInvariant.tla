--------------------------- MODULE StubsInvariant ----------------------------
(***************************************************************************)
(* The inductive invariant of Stubs, part by part: what is on the streams, *)
(* whose it is, and who waits for it.                                      *)
(***************************************************************************)
EXTENDS Stubs

\* The message thread t writes, while it writes one.
MessageOf(t) ==
    LET c == t[1] IN
    IF EndOf(t) = "client" THEN CallMessage(c, caller[c].f, caller[c].args)
    ELSE ReturnMessage(c, caller[c].f, handler[c].outs)

\* The variables are functions, of records with these fields.
CallerShape(r) ==
    /\ r = [pc |-> r.pc, n |-> r.n, f |-> r.f, args |-> r.args, res |-> r.res, outs |-> r.outs]
    /\ r.pc \in CallerPC
    /\ r.n \in Nat
HandlerShape(r) ==
    /\ r = [pc |-> r.pc, res |-> r.res, args |-> r.args, outs |-> r.outs]
    /\ r.pc \in HandlerPC
Shapes ==
    /\ caller = [c \in Caller |-> caller[c]]
    /\ handler = [c \in Caller |-> handler[c]]
    /\ \A c \in Caller : CallerShape(caller[c]) /\ HandlerShape(handler[c])
    /\ leaving \in Nat

\* A stub has been called with arguments of the function's types, a handler
\* runs for a caller that waits, what it gives back is of the types it has to
\* be, and each writes while it has something left to write.
Stages == \A c \in Caller :
    /\ caller[c].pc # "idle" => /\ caller[c].n > 0
                                /\ caller[c].f \in DOMAIN Functions
                                /\ caller[c].args \in Lists(Functions[caller[c].f].in)
    /\ handler[c].pc # "idle" => caller[c].pc = "sent"
    /\ handler[c].pc = "writing" => handler[c].outs \in Lists(Functions[caller[c].f].out)
    /\ out[AtClient(c)] # <<>> <=> caller[c].pc = "writing"
    /\ out[AtServer(c)] # <<>> <=> handler[c].pc = "writing"

\* A thread has still to write what is left of the frame of its message.
Writing == \A t \in Thread :
    /\ out[t] = <<>> => written[t] = 0
    /\ out[t] # <<>> => /\ written[t] < Len(Frame(MessageOf(t)))
                        /\ out[t] = After(Frame(MessageOf(t)), written[t])
    /\ written[t] > 0 => ~whole

\* What is on a stream or with a reader is the message of some caller, or of
\* his handler.
IsMessage(m, e) == \E c \in Caller :
    /\ caller[c].pc = "sent"
    /\ m = MessageOf(<<c, Peer(e)>>)
    /\ e = "client" => handler[c].outs \in Lists(Functions[caller[c].f].out)
Genuine == \A e \in End :
    /\ \A i \in DOMAIN sent[e] : IsMessage(sent[e][i], e)
    /\ inbox[e] # None => IsMessage(inbox[e], e)

\* The places of Whereabouts, one by one.
OnStream(c, e, i) == i \in DOMAIN sent[e] /\ Of(sent[e][i], c)
WithReader(c, e) == inbox[e] # None /\ Of(inbox[e], c)
WithHandler(c) == handler[c].pc # "idle"

\* Whoever has a message or a handler somewhere waits for a return, and has it
\* in one place only.
Waits(c) == caller[c].pc = "sent" /\ handler[c].res = "Success"
OnceAt(c) ==
    /\ \A e \in End : \A i \in DOMAIN sent[e] : OnStream(c, e, i) =>
         /\ Waits(c)
         /\ ~WithHandler(c)
         /\ \A g \in End : /\ ~WithReader(c, g)
                           /\ \A j \in DOMAIN sent[g] : OnStream(c, g, j) => g = e /\ j = i
    /\ \A e \in End : WithReader(c, e) =>
         /\ Waits(c)
         /\ ~WithHandler(c)
         /\ \A g \in End : WithReader(c, g) => g = e
    /\ WithHandler(c) => Waits(c)
    /\ handler[c].res # "Success" => caller[c].pc = "sent"
Once == \A c \in Caller : OnceAt(c)

\* Nothing gets lost while both connections are Active.
Somewhere(c) ==
    WithHandler(c) \/ \E e \in End : WithReader(c, e) \/ \E i \in DOMAIN sent[e] : OnStream(c, e, i)
Kept == (\A e \in End : state[e] = "Active") => \A c \in Caller : Waits(c) => Somewhere(c)

\* A reader delivers while it has a message, and gives up on a connection that
\* is not Active.  What it has read is less than a frame.
IsPart(bytes) == Len(bytes) < 4 \/ Missing(bytes) > 0
Readers == \A e \in End :
    /\ reader[e] = "deliver" <=> inbox[e] # None
    /\ reader[e] \in {"gone", "done"} => state[e] # "Active"
    /\ IsPart(got[e])

\* A frame breaks off only if it is written in parts, and closes the
\* connection, which takes no other message before its cleanup.
Several == Cardinality({c \in Caller : caller[c].n > 0}) > 1
Tears == \A e \in End : e \in torn =>
    /\ ~whole
    /\ state[Peer(e)] # "Active"
    /\ (\E t \in Thread : EndOf(t) = Peer(e) /\ out[t] # <<>>) =>
         Several \/ state[Peer(e)] = "ClosedCleanedup"

\* The bytes at end e that are not received: those read, those on the stream.
Arriving(e) == got[e] \o stream[e]

\* bytes go on with those of frame from position p.
HasAt(bytes, p, frame, n) == \A k \in 1 .. n : bytes[p + k] = frame[k]

\* The bytes are the frames of the messages, one behind the other, frame i from
\* cut[i - 1] on, and what comes behind the last.
InFrames(bytes, messages, cut) ==
    /\ cut[0] = 0
    /\ \A i, j \in 0 .. Len(messages) : i <= j => cut[i] <= cut[j]
    /\ \A i \in 1 .. Len(messages) : LET frame == Frame(messages[i]) IN
         cut[i] = cut[i - 1] + Len(frame) /\ HasAt(bytes, cut[i - 1], frame, Len(frame))

\* What arrives at end e are the frames of the messages sent; and behind the
\* last of them the beginning of the frame that is being written, or of the one
\* that broke off.
Rest(e, cut) == LET p == cut[Len(sent[e])]
                    n == Len(Arriving(e)) - p
                IN
    /\ \A t \in Thread : EndOf(t) = Peer(e) /\ written[t] > 0 =>
         n = written[t] /\ HasAt(Arriving(e), p, Frame(MessageOf(t)), n)
    /\ e \in torn =>
         \E m \in Messages : n < Len(Frame(m)) /\ HasAt(Arriving(e), p, Frame(m), n)
    /\ e \notin torn /\ (\A t \in Thread : EndOf(t) = Peer(e) => written[t] = 0) => n = 0
InStepAt(e) == e \notin spoilt /\ reader[e] \in {"check", "read", "deliver"} =>
    \E cut \in [0 .. Len(sent[e]) -> 0 .. Len(Arriving(e))] :
        InFrames(Arriving(e), sent[e], cut) /\ Rest(e, cut)
InStep == \A e \in End : InStepAt(e)

StubsInv ==
    /\ TypeOKFraming
    /\ Shapes
    /\ Stages
    /\ Writing
    /\ Genuine
    /\ Once
    /\ Kept
    /\ Readers
    /\ Tears
    /\ SpoiltOnlyIf
    /\ InStep

=============================================================================
