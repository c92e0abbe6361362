-------------------------------- MODULE Stubs --------------------------------
(***************************************************************************)
(* Remote calls as bytes: generated stubs of callers at the client end,    *)
(* the dispatcher of the service at the server end (gen.cpp), and between  *)
(* them the frames of module Framing.  Which thread serves which call is   *)
(* the business of module Calls: here each caller has its own.             *)
(***************************************************************************)
EXTENDS Framing, FiniteSets

CONSTANTS
    Caller,    \* threads that call
    Tid,       \* the thread id of each, as 16 bits
    Functions, \* of the service, in order: the types of what goes in and out
    Values,    \* of each type: the values passed
    Uses,      \* of each caller: positions of the functions it calls
    Budget     \* bound on the calls of each

CmdCall == 1
CmdReturn == 2
ServiceId == 1

ASSUME StubsAssumption ==
    /\ Thread = Caller \X End
    /\ Tid \in [Caller -> 0 .. Short - 1]
    /\ \A c, d \in Caller : Tid[c] = Tid[d] => c = d
    /\ \A f \in DOMAIN Functions :
         Functions[f].in \in Seq(Type) /\ Functions[f].out \in Seq(Type)
    /\ \A type \in Type : Values[type] \subseteq ValueOf(type)
    /\ Uses \in [Caller -> SUBSET DOMAIN Functions]
    /\ Budget \in [Caller -> Nat]
    /\ {CmdCall, CmdReturn, ServiceId} \subseteq Byte

VARIABLES
    caller,  \* the stub each caller is in, its arguments and results
    handler, \* the dispatcher that serves each caller
    leaving  \* how many more are through, but still counted as calls in

vars == <<framing, caller, handler, leaving>>

\* Values of a list of types.
Lists(types) ==
    FoldLeft(LAMBDA lists, type : {Append(xs, x) : xs \in lists, x \in Values[type]},
             {<<>>}, types)

CallerPC == {"idle", "writing", "sent", "back"}
HandlerPC == {"idle", "running", "writing"}

\* Values xs, read or to be written, are of these types; all, or those before
\* one that could not be read.
Typed(xs, types) ==
    Len(xs) <= Len(types) /\ \A i \in DOMAIN xs : xs[i] \in ValueOf(types[i])

\* Every variable has its type, and so have the arguments and the results at
\* either end.
TypeOK ==
    /\ TypeOKFraming
    /\ \A c \in Caller :
         /\ caller[c].pc \in CallerPC
         /\ caller[c].n \in 0 .. Budget[c]
         /\ caller[c].f \in DOMAIN Functions \cup {0}
         /\ handler[c].pc \in HandlerPC
         /\ caller[c].f # 0 => LET types == Functions[caller[c].f] IN
              /\ Typed(caller[c].args, types.in) /\ Typed(caller[c].outs, types.out)
              /\ handler[c].pc # "idle" =>
                   Typed(handler[c].args, types.in) /\ Typed(handler[c].outs, types.out)
         /\ handler[c].res \in {"Success", "CannotResolve", "InternalError", "Exception"}
    /\ leaving \in Nat

Nobody == [pc |-> "idle", n |-> 0, f |-> 0, args |-> <<>>, res |-> "Success", outs |-> <<>>]

Init ==
    /\ InitFraming
    /\ caller = [c \in Caller |-> Nobody]
    /\ handler = [c \in Caller |-> [pc |-> "idle", res |-> "Success", args |-> <<>>, outs |-> <<>>]]
    /\ leaving = 0

AtClient(c) == <<c, "client">>
AtServer(c) == <<c, "server">>

\* Whether calls that came in at end e, the last n that leave aside, are
\* being served.
Busy(e, n) == e = "server" /\ (leaving > n \/ \E c \in Caller : handler[c].pc # "idle")

-----------------------------------------------------------------------------
(* The stub: what it writes.                                               *)

CallMessage(c, f, args) ==
    Bytes2(Tid[c]) \o <<CmdCall, ServiceId>>
        \o SerializeAll(Functions[f].in, args, <<f - 1>>)
ReturnMessage(c, f, outs) ==
    Bytes2(Tid[c]) \o <<CmdReturn>> \o SerializeAll(Functions[f].out, outs, <<>>)

\* What is serialized is a sequence of bytes, and the length of the message it
\* goes into fits into four.
Fits(data) == data \in Seq(Byte) /\ Len(data) + 4 < Long

ASSUME MessagesFit == \A f \in DOMAIN Functions :
    /\ \A args \in Lists(Functions[f].in) :
         Fits(SerializeAll(Functions[f].in, args, <<f - 1>>))
    /\ \A outs \in Lists(Functions[f].out) :
         Fits(SerializeAll(Functions[f].out, outs, <<>>))

\* A stub is called, with any arguments; the connection may refuse the call.
Call(c) ==
    /\ caller[c].pc \in {"idle", "back"}
    /\ caller[c].n < Budget[c]
    /\ \E f \in Uses[c] : \E args \in Lists(Functions[f].in) :
         LET made == [pc |-> "writing", n |-> caller[c].n + 1, f |-> f, args |-> args,
                      res |-> "Success", outs |-> <<>>]
         IN  \/ /\ BeginWrite(AtClient(c), CallMessage(c, f, args))
                /\ caller' = [caller EXCEPT ![c] = made]
             \/ /\ Refuses(AtClient(c))
                /\ caller' = [caller EXCEPT ![c] = [made EXCEPT
                                !.pc = "back", !.res = "Disconnected"]]
                /\ UNCHANGED framing
    /\ UNCHANGED <<handler, leaving>>

WriteCall(c) ==
    /\ \E n \in DOMAIN out[AtClient(c)] : WritePart(AtClient(c), n)
    /\ IF out'[AtClient(c)] = <<>>
       THEN /\ Sends(AtClient(c), CallMessage(c, caller[c].f, caller[c].args))
            /\ caller' = [caller EXCEPT ![c].pc = "sent"]
       ELSE SendsNothing /\ UNCHANGED caller
    /\ UNCHANGED <<handler, leaving>>

CallFails(c) ==
    /\ WriteFails(AtClient(c))
    /\ caller' = [caller EXCEPT ![c].pc = "back", ![c].res = "Disconnected"]
    /\ UNCHANGED <<handler, leaving>>

-----------------------------------------------------------------------------
(* The reader of an end hands on what it received.                         *)

\* caller_tid in input_processor: the upper byte is taken as a char, whose
\* sign falls off in the shift.
caller_tid(m) == (Signed(m[1]) * Base + m[2]) % Short
CallerOf(m) == CHOOSE c \in Caller : Tid[c] = caller_tid(m)

\* A call is dispatched: the function's arguments are read, in order.  If one
\* cannot be, the function does not run and nothing is answered.
Dispatch(c, data) ==
    LET args == DeserializeAll(Functions[data[1] + 1].in, After(data, 1))
        runs == args.res = "Success"
    IN  /\ handler' = [handler EXCEPT ![c] =
                         [pc |-> IF runs THEN "running" ELSE "idle", res |-> args.res,
                          args |-> args.val, outs |-> <<>>]]
        /\ leaving' = IF runs THEN leaving ELSE leaving + 1

TakeCall(e) ==
    LET m == inbox[e] IN
    /\ Delivered(e)
    /\ m[3] = CmdCall
    /\ Dispatch(CallerOf(m), After(m, 4))
    /\ UNCHANGED caller

\* A return: the stub reads the results, in order, until one cannot be.
TakeReturn(e) ==
    LET m == inbox[e]
        c == CallerOf(m)
        outs == DeserializeAll(Functions[caller[c].f].out, After(m, 3))
    IN  /\ Delivered(e)
        /\ m[3] = CmdReturn
        /\ caller' = [caller EXCEPT ![c] = [@ EXCEPT
                        !.pc = "back", !.res = outs.res, !.outs = outs.val]]
        /\ UNCHANGED <<handler, leaving>>

-----------------------------------------------------------------------------
(* The handler.                                                            *)

\* The dispatcher is through.
Through(c) == handler' = [handler EXCEPT ![c].pc = "idle"] /\ leaving' = leaving + 1

\* The function returns something else than Success, which nobody is told.
FunctionFails(c) ==
    /\ handler[c].pc = "running"
    /\ handler' = [handler EXCEPT ![c].pc = "idle", ![c].res = "Exception"]
    /\ leaving' = leaving + 1
    /\ UNCHANGED <<framing, caller>>

\* The function has run: what it gives back is written, if the connection
\* takes it.
Answer(c) ==
    /\ handler[c].pc = "running"
    /\ \E outs \in Lists(Functions[caller[c].f].out) :
         /\ BeginWrite(AtServer(c), ReturnMessage(c, caller[c].f, outs))
         /\ handler' = [handler EXCEPT ![c].pc = "writing", ![c].outs = outs]
    /\ UNCHANGED <<caller, leaving>>

AnswerRefused(c) ==
    /\ handler[c].pc = "running"
    /\ Refuses(AtServer(c))
    /\ Through(c)
    /\ UNCHANGED <<framing, caller>>

WriteReturn(c) ==
    /\ \E n \in DOMAIN out[AtServer(c)] : WritePart(AtServer(c), n)
    /\ IF out'[AtServer(c)] = <<>>
       THEN /\ Sends(AtServer(c), ReturnMessage(c, caller[c].f, handler[c].outs))
            /\ Through(c)
       ELSE SendsNothing /\ UNCHANGED <<handler, leaving>>
    /\ UNCHANGED caller

ReturnFails(c) ==
    /\ WriteFails(AtServer(c))
    /\ Through(c)
    /\ UNCHANGED caller

\* call_out, which cleans up after the last call.
CallOut ==
    /\ leaving > 0
    /\ leaving' = leaving - 1
    /\ Cleanup("server", Busy("server", 1))
    /\ UNCHANGED <<whole, stream, out, written, torn, spoilt, reader, got, sent, inbox,
                   caller, handler>>

-----------------------------------------------------------------------------
Reads(e) ==
    \/ ReaderCheck(e) /\ UNCHANGED <<caller, handler, leaving>>
    \/ (\E n \in DOMAIN stream[e] : ReadPart(e, n)) /\ UNCHANGED <<caller, handler, leaving>>
    \/ TakeCall(e)
    \/ TakeReturn(e)
    \/ ReadFails(e) /\ UNCHANGED <<caller, handler, leaving>>
    \/ ReaderExit(e, Busy(e, 0)) /\ UNCHANGED <<caller, handler, leaving>>

Calls(c) == Call(c) \/ WriteCall(c) \/ CallFails(c)

Serves(c) ==
    FunctionFails(c) \/ Answer(c) \/ AnswerRefused(c) \/ WriteReturn(c) \/ ReturnFails(c)

Next ==
    \/ \E c \in Caller : Calls(c) \/ Serves(c)
    \/ \E e \in End : Reads(e)
    \/ CallOut

Spec == Init /\ [][Next]_vars

-----------------------------------------------------------------------------
Messages == UNION {
    {CallMessage(cf[1], cf[2], args) : args \in Lists(Functions[cf[2]].in)}
      \cup {ReturnMessage(cf[1], cf[2], outs) : outs \in Lists(Functions[cf[2]].out)}
    : cf \in Caller \X DOMAIN Functions}
Channel == INSTANCE Channels WITH Message <- Messages, queue <- sent

\* Each stream is a channel: whatever the sizes in which bytes are written and
\* read, and whatever fails when, whole messages arrive, in order, each once,
\* unchanged - until a frame begins amidst another.
ChannelsOfMessages ==
    [][UNCHANGED Channel!vars \/ spoilt' # {} \/ Channel!Next]_vars

\* A frame begins amidst another only if RawIO::write takes frames in parts,
\* and then for one of two reasons: two threads write at once, or the
\* connection takes a message after its cleanup, when the frame before it
\* broke off.  While Closed it takes none.
SpoiltOnlyIf ==
    \A e \in End : e \in spoilt =>
        /\ ~whole
        /\ \/ Cardinality({c \in Caller : caller[c].n > 0}) > 1
           \/ state[Peer(e)] = "ClosedCleanedup"

\* What arrives of a list of values, whatever they are: all up to the first
\* bool, which leaves its byte for the next to read; a uint16_t up to its
\* upper byte, which is one less if the lower has its top bit set.
Arrives(types, xs, got_) ==
    \A i \in DOMAIN types :
        (\A j \in 1 .. i - 1 : types[j] # "bool") =>
            /\ i \in DOMAIN got_
            /\ IF types[i] = "uint16_t"
               THEN /\ got_[i] % Base = xs[i] % Base
                    /\ 2 * (xs[i] % Base) < Base => got_[i] = xs[i]
               ELSE got_[i] = xs[i]
Readable(types) == \A j \in 1 .. Len(types) - 1 : types[j] # "bool"

\* The function runs with the arguments that were passed, and its results come
\* back to the caller that passed them.
ArgumentsArrive ==
    \A c \in Caller : LET types == Functions[caller[c].f] IN
        /\ handler[c].pc = "running" => Arrives(types.in, caller[c].args, handler[c].args)
        /\ caller[c].pc = "sent" /\ Readable(types.in) =>
             handler[c].res \in {"Success", "Exception"}
        /\ caller[c].pc = "back" /\ caller[c].res # "Disconnected" =>
             /\ Arrives(types.out, handler[c].outs, caller[c].outs)
             /\ Readable(types.out) => caller[c].res = "Success"

\* Where the call of c is, or its return: on a stream, with a reader, or with
\* the handler.
Of(m, c) == caller_tid(m) = Tid[c]
OnTheWay(c) ==
    UNION {{<<"sent", e, i>> : i \in {j \in DOMAIN sent[e] : Of(sent[e][j], c)}} : e \in End}
InHand(c) == {<<"inbox", e>> : e \in {f \in End : inbox[f] # None /\ Of(inbox[f], c)}}
AtWork(c) == {<<"handler", pc>> : pc \in {"running", "writing"} \cap {handler[c].pc}}
Whereabouts(c) == OnTheWay(c) \cup InHand(c) \cup AtWork(c)

\* Whoever waits for a return waits for something that goes on: his call, or
\* its return, is in one place, and a reader that has a message to read has all
\* the bytes it asks for.  Unless a stream has failed, or nothing was answered.
WaitsForSomething ==
    spoilt = {} /\ (\A e \in End : state[e] = "Active") =>
        /\ \A c \in Caller :
             Cardinality(Whereabouts(c)) =
               IF caller[c].pc = "sent" /\ handler[c].res = "Success" THEN 1 ELSE 0
        /\ \A e \in End : /\ reader[e] \notin {"gone", "done"}
                          /\ sent[e] # <<>> => Missing(got[e]) <= Len(stream[e])

=============================================================================
