---------------------------- MODULE StubsProofs ------------------------------
(***************************************************************************)
(* Proofs about Stubs, for any callers, functions and values, whatever     *)
(* parts the streams give and take.  First what bytes, messages and frames *)
(* are; then, step by step, that every action keeps what is on the streams *)
(* in step with the messages sent, and the invariant; last what follows.   *)
(***************************************************************************)
EXTENDS StubsInvariant, FiniteSetTheorems, SequenceTheorems, TLAPS

-----------------------------------------------------------------------------
(* Sequences.                                                              *)

LEMMA ConcatAre ==
    ASSUME NEW S, NEW s \in Seq(S), NEW t \in Seq(S)
    PROVE  /\ s \o t \in Seq(S)
           /\ Len(s) \in Nat /\ Len(t) \in Nat /\ Len(s \o t) = Len(s) + Len(t)
           /\ \A i \in 1 .. Len(s) : (s \o t)[i] = s[i]
           /\ \A i \in 1 .. Len(t) : (s \o t)[Len(s) + i] = t[i]
<1>1. /\ s \o t \in Seq(S)
      /\ Len(s) \in Nat /\ Len(t) \in Nat /\ Len(s \o t) = Len(s) + Len(t)
      /\ \A i \in 1 .. Len(s) + Len(t) : (s \o t)[i] =
           IF i <= Len(s) THEN s[i] ELSE t[i - Len(s)]
  BY ConcatProperties, LenProperties
<1>2. ASSUME NEW i \in 1 .. Len(s) PROVE (s \o t)[i] = s[i]
  <2>1. i \in 1 .. Len(s) + Len(t) /\ i <= Len(s)
    BY <1>1
  <2> QED
    BY <1>1, <2>1
<1>3. ASSUME NEW i \in 1 .. Len(t) PROVE (s \o t)[Len(s) + i] = t[i]
  <2>1. Len(s) + i \in 1 .. Len(s) + Len(t) /\ ~(Len(s) + i <= Len(s)) /\ (Len(s) + i) - Len(s) = i
    BY <1>1
  <2>2. (s \o t)[Len(s) + i] =
          IF Len(s) + i <= Len(s) THEN s[Len(s) + i] ELSE t[(Len(s) + i) - Len(s)]
    BY <1>1, <2>1
  <2> QED
    BY <2>1, <2>2
<1> QED
  BY <1>1, <1>2, <1>3

\* The first n of a sequence, and those after them.
LEMMA CutAre ==
    ASSUME NEW S, NEW s \in Seq(S), NEW n \in 0 .. Len(s)
    PROVE  /\ SubSeq(s, 1, n) \in Seq(S) /\ Len(SubSeq(s, 1, n)) = n
           /\ \A i \in 1 .. n : SubSeq(s, 1, n)[i] = s[i]
           /\ After(s, n) \in Seq(S) /\ Len(After(s, n)) = Len(s) - n
           /\ \A i \in 1 .. Len(s) - n : After(s, n)[i] = s[n + i]
<1>1. Len(s) \in Nat /\ \A i \in 1 .. Len(s) : s[i] \in S
  BY LenProperties, ElementOfSeq
<1>2. n \in Nat /\ n <= Len(s)
  BY <1>1
<1>3. /\ SubSeq(s, 1, n) \in Seq(S)
      /\ Len(SubSeq(s, 1, n)) = IF 1 <= n THEN n - 1 + 1 ELSE 0
      /\ \A i \in 1 .. n - 1 + 1 : SubSeq(s, 1, n)[i] = s[1 + i - 1]
  <2>1. \A i \in 1 .. n : s[i] \in S
    BY <1>1, <1>2
  <2> QED
    BY <1>2, <2>1, SubSeqProperties
<1>4. /\ After(s, n) \in Seq(S)
      /\ Len(After(s, n)) = IF n + 1 <= Len(s) THEN Len(s) - (n + 1) + 1 ELSE 0
      /\ \A i \in 1 .. Len(s) - (n + 1) + 1 : After(s, n)[i] = s[n + 1 + i - 1]
  <2>1. \A i \in n + 1 .. Len(s) : s[i] \in S
    BY <1>1, <1>2
  <2> QED
    BY <1>1, <1>2, <2>1, SubSeqProperties DEF After
<1>5. \A i \in 1 .. n : i \in 1 .. n - 1 + 1 /\ 1 + i - 1 = i
  BY <1>2
<1>6. \A i \in 1 .. Len(s) - n : i \in 1 .. Len(s) - (n + 1) + 1 /\ n + 1 + i - 1 = n + i
  BY <1>1, <1>2
<1>7. Len(SubSeq(s, 1, n)) = n /\ Len(After(s, n)) = Len(s) - n
  BY <1>1, <1>2, <1>3, <1>4
<1>8. \A i \in 1 .. n : SubSeq(s, 1, n)[i] = s[i]
  BY <1>3, <1>5
<1>9. \A i \in 1 .. Len(s) - n : After(s, n)[i] = s[n + i]
  BY <1>4, <1>6
<1> QED
  BY <1>3, <1>4, <1>7, <1>8, <1>9

-----------------------------------------------------------------------------
(* Numbers as bytes.                                                       *)

\* Quotient and remainder are the only ones.
LEMMA DivModUnique == ASSUME NEW b \in Nat \ {0}, NEW q \in Int, NEW r \in 0 .. b - 1,
                             NEW p \in Int, NEW s \in 0 .. b - 1, b * p + s = b * q + r
                      PROVE  p = q /\ s = r
BY SMT

LEMMA Mod == ASSUME NEW b \in Nat \ {0}, NEW q \in Int, NEW r \in 0 .. b - 1, NEW x,
                    x = b * q + r
             PROVE  x % b = r
<1>1. x \in Int
  OBVIOUS
<1>2. x \div b \in Int /\ x % b \in 0 .. b - 1 /\ x = b * (x \div b) + (x % b)
  BY <1>1
<1> DEFINE p == x \div b
           s == x % b
<1>3. p \in Int /\ s \in 0 .. b - 1 /\ b * p + s = b * q + r
  BY <1>2
<1> HIDE DEF p, s
<1>4. s = r
  BY <1>3, DivModUnique
<1> QED
  BY <1>4 DEF s

LEMMA ModNear == ASSUME NEW b \in Nat \ {0}, NEW r \in 0 .. b - 1
                 PROVE  r % b = r /\ (r - b) % b = r
<1>1. ASSUME NEW q \in Int, NEW x, x = b * q + r PROVE x % b = r
  BY <1>1, Mod
<1>2. r = b * 0 + r /\ r - b = b * (-1) + r
  OBVIOUS
<1> QED
  BY <1>1, <1>2

LEMMA BaseIs == Base \in Nat \ {0} /\ Short \in Nat \ {0} /\ Long \in Nat \ {0}
<1>1. Base \in Nat \ {0}
  BY BaseAssumption
<1>2. ASSUME NEW x \in Nat \ {0} PROVE x * x \in Nat \ {0}
  OBVIOUS
<1> QED
  BY <1>1, <1>2 DEF Short, Long

LEMMA NumberIs ==
    ASSUME NEW b, b[1] \in Byte, b[2] \in Byte, b[3] \in Byte, b[4] \in Byte
    PROVE  Number(b) \in Nat
<1>1. Base \in Nat /\ b[1] \in Nat /\ b[2] \in Nat /\ b[3] \in Nat /\ b[4] \in Nat
  BY BaseIs DEF Byte
<1>2. \A x, y \in Nat : x * Base + y \in Nat
  BY <1>1
<1> QED
  BY <1>1, <1>2 DEF Number

\* Two bytes are all of a number of 16 bits.
LEMMA Bytes2Are ==
    ASSUME NEW x \in Nat
    PROVE  /\ Bytes2(x) \in Seq(Byte) /\ Len(Bytes2(x)) = 2
           /\ Bytes2(x)[1] \in Byte /\ Bytes2(x)[2] \in Byte
           /\ x % Short = Bytes2(x)[1] * Base + Bytes2(x)[2]
<1> DEFINE q == x \div Base
           r == x % Base
           p == q \div Base
           s == q % Base
<1>1. q \in Nat /\ r \in 0 .. Base - 1 /\ x = Base * q + r
  BY BaseIs
<1>2. Bytes2(x) = <<s, r>>
  BY DEF Bytes2
<1> HIDE DEF q, r
<1>3. p \in Nat /\ s \in 0 .. Base - 1 /\ q = Base * p + s
  BY <1>1, BaseIs
<1> HIDE DEF p, s
<1> DEFINE z == s * Base + r
<1>4. x = Short * p + z
  BY <1>1, <1>3, BaseIs DEF Short
<1>5. z \in 0 .. Short - 1
  <2>1. s * Base \in Nat /\ s * Base <= (Base - 1) * Base
    BY <1>3, BaseIs
  <2>2. (Base - 1) * Base = Base * Base - Base
    BY BaseIs
  <2> QED
    BY <2>1, <2>2, <1>1, BaseIs DEF Short
<1> HIDE DEF z
<1>6. x % Short = z
  BY <1>3, <1>4, <1>5, BaseIs, Mod
<1>7. r \in Byte /\ s \in Byte
  BY <1>1, <1>3 DEF Byte
<1> QED
  BY <1>2, <1>6, <1>7 DEF z

LEMMA Bytes4Are ==
    ASSUME NEW x \in 0 .. Long - 1
    PROVE  /\ Bytes4(x) \in Seq(Byte) /\ Len(Bytes4(x)) = 4
           /\ Number(Bytes4(x)) = x
<1> DEFINE y == x \div Short
           z == x % Short
<1>1. y \in Nat /\ z \in 0 .. Short - 1 /\ x = Short * y + z /\ x \in Nat
  BY BaseIs
<1> DEFINE a == Bytes2(y)
           b == Bytes2(x)
<1>2. Bytes4(x) = a \o b
  BY DEF Bytes4
<1>3. /\ b \in Seq(Byte) /\ Len(b) = 2 /\ b[1] \in Byte /\ b[2] \in Byte
      /\ z = b[1] * Base + b[2]
  BY Bytes2Are, <1>1
<1> HIDE DEF y, z
<1>4. y \in 0 .. Short - 1
  <2> SUFFICES ASSUME y >= Short PROVE FALSE
    BY <1>1, BaseIs
  <2>1. Short * y >= Short * Short
    BY <1>1, BaseIs
  <2> QED
    BY <2>1, <1>1, BaseIs DEF Long
<1>5. y % Short = y
  <2>1. y = Short * 0 + y
    BY <1>1, BaseIs
  <2> QED
    BY <1>4, <2>1, BaseIs, Mod
<1>6. /\ a \in Seq(Byte) /\ Len(a) = 2 /\ a[1] \in Byte /\ a[2] \in Byte
      /\ y = a[1] * Base + a[2]
  BY <1>1, <1>5, Bytes2Are
<1> HIDE DEF a, b
<1> DEFINE c == a \o b
<1>7. /\ c \in Seq(Byte) /\ Len(c) = 4
      /\ \A i \in 1 .. 2 : c[i] = a[i]
      /\ \A i \in 1 .. 2 : c[2 + i] = b[i]
  <2>1. /\ c \in Seq(Byte) /\ Len(c) = Len(a) + Len(b)
        /\ \A i \in 1 .. Len(a) : c[i] = a[i]
        /\ \A i \in 1 .. Len(b) : c[Len(a) + i] = b[i]
    <3>1. a \in Seq(Byte) /\ b \in Seq(Byte)
      BY <1>3, <1>6
    <3> QED
      BY <3>1, ConcatAre
  <2> QED
    BY <1>3, <1>6, <2>1
<1> HIDE DEF c
<1>8. c[1] = a[1] /\ c[2] = a[2] /\ c[3] = b[1] /\ c[4] = b[2]
  <2>1. c[2 + 1] = b[1] /\ c[2 + 2] = b[2]
    BY <1>7
  <2> QED
    BY <1>7, <2>1
<1>9. Number(c) = (y * Base + b[1]) * Base + b[2]
  BY <1>6, <1>8 DEF Number
<1>10. (y * Base + b[1]) * Base + b[2] = Short * y + (b[1] * Base + b[2])
  BY <1>1, <1>3, BaseIs DEF Short, Byte
<1>11. Bytes4(x) = c
  BY <1>2 DEF c
<1> QED
  BY <1>1, <1>3, <1>7, <1>9, <1>10, <1>11

\* A frame is the length of its message and the message, and whoever has the
\* first four bytes knows how long it is.
LEMMA FrameIs ==
    ASSUME NEW m \in Seq(Byte), Len(m) < Long
    PROVE  /\ Frame(m) \in Seq(Byte)
           /\ Len(m) \in Nat
           /\ Len(Frame(m)) = Len(m) + 4
           /\ \A k \in 1 .. Len(m) : Frame(m)[4 + k] = m[k]
           /\ \A b : (\A k \in 1 .. 4 : b[k] = Frame(m)[k]) => Number(b) = Len(m)
<1>1. Len(m) \in 0 .. Long - 1
  BY BaseIs, LenProperties
<1> DEFINE h == Bytes4(Len(m))
           f == h \o m
<1>2. h \in Seq(Byte) /\ Len(h) = 4 /\ Number(h) = Len(m)
  BY <1>1, Bytes4Are
<1>3. Frame(m) = f
  BY DEF Frame
<1> HIDE DEF h
<1>4. /\ f \in Seq(Byte) /\ Len(f) = Len(m) + 4
      /\ \A k \in 1 .. 4 : f[k] = h[k]
      /\ \A k \in 1 .. Len(m) : f[4 + k] = m[k]
  <2>1. /\ f \in Seq(Byte) /\ Len(f) = Len(h) + Len(m)
        /\ \A i \in 1 .. Len(h) : f[i] = h[i]
        /\ \A i \in 1 .. Len(m) : f[Len(h) + i] = m[i]
    <3>1. h \in Seq(Byte)
      BY <1>2
    <3> QED
      BY <3>1, ConcatAre
  <2> HIDE DEF f
  <2> QED
    BY <1>1, <1>2, <2>1
<1> HIDE DEF f
<1>5. ASSUME NEW b, \A k \in 1 .. 4 : b[k] = f[k]
      PROVE  Number(b) = Len(m)
  <2>1. b[1] = h[1] /\ b[2] = h[2] /\ b[3] = h[3] /\ b[4] = h[4]
    BY <1>4, <1>5
  <2>2. Number(b) = Number(h)
    BY <2>1 DEF Number
  <2> QED
    BY <2>2, <1>2
<1> QED
  BY <1>1, <1>3, <1>4, <1>5

-----------------------------------------------------------------------------
(* Messages.                                                               *)

\* The thread id that input_processor reads is the one the message was made
\* with, though its upper byte passes through a char.
LEMMA HeaderIs ==
    ASSUME NEW c \in Caller, NEW h \in Seq(Byte), Len(h) > 0, NEW data \in Seq(Byte)
    PROVE  LET m == Bytes2(Tid[c]) \o h \o data IN
           /\ m \in Seq(Byte) /\ Len(m) = 2 + Len(h) + Len(data)
           /\ m[3] = h[1]
           /\ caller_tid(m) = Tid[c]
<1> DEFINE T == Tid[c]
           b == Bytes2(T)
           g == b \o h
           m == g \o data
<1>1. T \in 0 .. Short - 1 /\ T \in Nat
  BY StubsAssumption, BaseIs
<1>2. T % Short = T
  BY <1>1, BaseIs, ModNear
<1>3. /\ b \in Seq(Byte) /\ Len(b) = 2
      /\ b[1] \in Byte /\ b[2] \in Byte
      /\ T = b[1] * Base + b[2]
  BY <1>1, <1>2, Bytes2Are
<1> HIDE DEF b
<1>5. /\ g \in Seq(Byte) /\ Len(h) \in Nat /\ Len(g) = Len(b) + Len(h)
      /\ \A i \in 1 .. Len(b) : g[i] = b[i]
      /\ \A i \in 1 .. Len(h) : g[Len(b) + i] = h[i]
  <2>1. b \in Seq(Byte)
    BY <1>3
  <2> QED
    BY <2>1, ConcatAre
<1> HIDE DEF g, T
<1>6. /\ m \in Seq(Byte) /\ Len(m) = Len(g) + Len(data) /\ Len(g) \in Nat /\ Len(data) \in Nat
      /\ \A i \in 1 .. Len(g) : m[i] = g[i]
  <2>1. g \in Seq(Byte)
    BY <1>5
  <2> QED
    BY <2>1, ConcatAre
<1> HIDE DEF m
<1>7. Len(g) = 2 + Len(h) /\ 1 \in 1 .. Len(g) /\ 2 \in 1 .. Len(g) /\ 3 \in 1 .. Len(g)
  BY <1>3, <1>5
<1>8. m[1] = b[1] /\ m[2] = b[2]
  <2>1. 1 \in 1 .. Len(b) /\ 2 \in 1 .. Len(b)
    BY <1>3
  <2> QED
    BY <2>1, <1>5, <1>6, <1>7
<1>9. m[3] = h[1]
  <2>1. 1 \in 1 .. Len(h) /\ Len(b) + 1 = 3
    BY <1>3, <1>5
  <2>2. g[3] = h[1]
    BY <1>5, <2>1
  <2> QED
    BY <2>2, <1>6, <1>7
<1>10. caller_tid(m) = T
  <2> DEFINE x == Signed(m[1]) * Base + m[2]
  <2>1. CASE 2 * m[1] >= Base
    <3>1. Signed(m[1]) = m[1] - Base
      BY <2>1 DEF Signed
    <3>2. x = T - Short
      BY <1>3, <1>8, <3>1, BaseIs DEF Short, Byte
    <3> HIDE DEF x
    <3>3. x % Short = T
      BY <3>2, <1>1, BaseIs, ModNear
    <3> QED
      BY <3>3 DEF x, caller_tid
  <2>2. CASE ~(2 * m[1] >= Base)
    <3>1. Signed(m[1]) = m[1]
      BY <2>2 DEF Signed
    <3>2. x = T
      BY <1>3, <1>8, <3>1, BaseIs DEF Short, Byte
    <3> HIDE DEF x
    <3>3. x % Short = T
      BY <3>2, <1>1, BaseIs, ModNear
    <3> QED
      BY <3>3 DEF x, caller_tid
  <2> QED
    BY <2>1, <2>2
<1> QED
  BY <1>3, <1>5, <1>6, <1>7, <1>9, <1>10 DEF T, m, g, b

LEMMA CommandsAre == CmdCall \in Byte /\ CmdReturn \in Byte /\ ServiceId \in Byte /\ CmdCall # CmdReturn
BY StubsAssumption DEF CmdCall, CmdReturn

LEMMA CallMessageIs ==
    ASSUME NEW c \in Caller, NEW f \in DOMAIN Functions, NEW args \in Lists(Functions[f].in),
           NEW m, m = CallMessage(c, f, args)
    PROVE  /\ m \in Seq(Byte) /\ Len(m) < Long
           /\ m[3] = CmdCall
           /\ caller_tid(m) = Tid[c]
           /\ m \in Messages
<1> DEFINE h == <<CmdCall, ServiceId>>
           data == SerializeAll(Functions[f].in, args, <<f - 1>>)
<1>1. h \in Seq(Byte) /\ Len(h) = 2 /\ h[1] = CmdCall
  BY CommandsAre
<1>2. data \in Seq(Byte) /\ Len(data) + 4 < Long
  BY MessagesFit DEF Fits
<1>3. m = Bytes2(Tid[c]) \o h \o data
  BY DEF CallMessage
<1> HIDE DEF h, data
<1>4. m \in Seq(Byte) /\ Len(m) = 2 + Len(h) + Len(data) /\ m[3] = h[1] /\ caller_tid(m) = Tid[c]
  <2>1. h \in Seq(Byte) /\ data \in Seq(Byte) /\ Len(h) > 0
    BY <1>1, <1>2
  <2> QED
    BY <1>3, <2>1, HeaderIs
<1>5. Len(m) < Long
  BY <1>1, <1>2, <1>4, BaseIs, LenProperties
<1>6. m \in Messages
  <2> DEFINE cf == <<c, f>>
  <2>1. cf \in Caller \X DOMAIN Functions /\ cf[1] = c /\ cf[2] = f
    OBVIOUS
  <2> HIDE DEF cf
  <2>2. m \in {CallMessage(cf[1], cf[2], as) : as \in Lists(Functions[cf[2]].in)}
    BY <2>1
  <2> QED
    BY <2>1, <2>2 DEF Messages
<1> QED
  BY <1>1, <1>4, <1>5, <1>6

LEMMA ReturnMessageIs ==
    ASSUME NEW c \in Caller, NEW f \in DOMAIN Functions, NEW outs \in Lists(Functions[f].out),
           NEW m, m = ReturnMessage(c, f, outs)
    PROVE  /\ m \in Seq(Byte) /\ Len(m) < Long
           /\ m[3] = CmdReturn
           /\ caller_tid(m) = Tid[c]
           /\ m \in Messages
<1> DEFINE h == <<CmdReturn>>
           data == SerializeAll(Functions[f].out, outs, <<>>)
<1>1. h \in Seq(Byte) /\ Len(h) = 1 /\ h[1] = CmdReturn
  BY CommandsAre
<1>2. data \in Seq(Byte) /\ Len(data) + 4 < Long
  BY MessagesFit DEF Fits
<1>3. m = Bytes2(Tid[c]) \o h \o data
  BY DEF ReturnMessage
<1> HIDE DEF h, data
<1>4. m \in Seq(Byte) /\ Len(m) = 2 + Len(h) + Len(data) /\ m[3] = h[1] /\ caller_tid(m) = Tid[c]
  <2>1. h \in Seq(Byte) /\ data \in Seq(Byte) /\ Len(h) > 0
    BY <1>1, <1>2
  <2> QED
    BY <1>3, <2>1, HeaderIs
<1>5. Len(m) < Long
  BY <1>1, <1>2, <1>4, BaseIs, LenProperties
<1>6. m \in Messages
  <2> DEFINE cf == <<c, f>>
  <2>1. cf \in Caller \X DOMAIN Functions /\ cf[1] = c /\ cf[2] = f
    OBVIOUS
  <2> HIDE DEF cf
  <2>2. m \in {ReturnMessage(cf[1], cf[2], os) : os \in Lists(Functions[cf[2]].out)}
    BY <2>1
  <2> QED
    BY <2>1, <2>2 DEF Messages
<1> QED
  BY <1>1, <1>4, <1>5, <1>6

LEMMA MessagesAre == \A m \in Messages : m \in Seq(Byte) /\ Len(m) < Long /\ m # None
<1> SUFFICES ASSUME NEW m \in Messages
             PROVE  m \in Seq(Byte) /\ Len(m) < Long /\ m # None
  OBVIOUS
<1>1. PICK cf \in Caller \X DOMAIN Functions :
        m \in {CallMessage(cf[1], cf[2], args) : args \in Lists(Functions[cf[2]].in)}
                \cup {ReturnMessage(cf[1], cf[2], outs) : outs \in Lists(Functions[cf[2]].out)}
  BY DEF Messages
<1>2. cf[1] \in Caller /\ cf[2] \in DOMAIN Functions
  OBVIOUS
<1>3. m \in Seq(Byte) /\ Len(m) < Long
  <2>1. CASE m \in {CallMessage(cf[1], cf[2], args) : args \in Lists(Functions[cf[2]].in)}
    BY <1>2, <2>1, CallMessageIs
  <2>2. CASE m \in {ReturnMessage(cf[1], cf[2], outs) : outs \in Lists(Functions[cf[2]].out)}
    BY <1>2, <2>2, ReturnMessageIs
  <2> QED
    BY <1>1, <2>1, <2>2
<1> QED
  BY <1>3, FramingAssumption

\* A thread is a caller and an end.
LEMMA ThreadsAre ==
    /\ \A c \in Caller : \A e \in End : <<c, e>> \in Thread /\ EndOf(<<c, e>>) = e
    /\ \A c \in Caller : AtClient(c) \in Thread /\ AtServer(c) \in Thread
    /\ \A t \in Thread : t[1] \in Caller /\ t[2] \in End /\ t = <<t[1], t[2]>> /\ EndOf(t) = t[2]
BY StubsAssumption DEF EndOf, End, AtClient, AtServer

LEMMA PeersAre == \A e \in End : Peer(e) \in End /\ Peer(Peer(e)) = e /\ Peer(e) # e
BY DEF Peer, End

\* What a thread writes is a message of its caller's.
LEMMA MessageOfIs ==
    ASSUME Stages, NEW c \in Caller, caller[c].pc # "idle", NEW e \in End,
           e = "server" => handler[c].outs \in Lists(Functions[caller[c].f].out),
           NEW m, m = MessageOf(<<c, e>>)
    PROVE  /\ m \in Seq(Byte) /\ Len(m) < Long /\ m # None
           /\ m[3] = IF e = "client" THEN CmdCall ELSE CmdReturn
           /\ m \in Messages
           /\ \A d \in Caller : Of(m, d) <=> d = c
           /\ CallerOf(m) = c
<1>1. /\ caller[c].f \in DOMAIN Functions
      /\ caller[c].args \in Lists(Functions[caller[c].f].in)
  BY DEF Stages
<1>2. /\ m \in Messages
      /\ m[3] = IF e = "client" THEN CmdCall ELSE CmdReturn
      /\ caller_tid(m) = Tid[c]
  <2>1. CASE e = "client"
    <3>1. m = CallMessage(c, caller[c].f, caller[c].args)
      BY <2>1 DEF MessageOf, EndOf
    <3> QED
      BY <1>1, <2>1, <3>1, CallMessageIs
  <2>2. CASE e = "server"
    <3>1. m = ReturnMessage(c, caller[c].f, handler[c].outs)
      BY <2>2 DEF MessageOf, EndOf
    <3> QED
      BY <1>1, <2>2, <3>1, ReturnMessageIs
  <2> QED
    BY <2>1, <2>2 DEF End
<1>3. \A d \in Caller : Of(m, d) <=> d = c
  BY <1>2, StubsAssumption DEF Of
<1>4. CallerOf(m) = c
  <2>1. \A d \in Caller : Tid[d] = caller_tid(m) <=> d = c
    BY <1>2, StubsAssumption
  <2> QED
    BY <2>1 DEF CallerOf
<1> QED
  BY <1>2, <1>3, <1>4, MessagesAre

-----------------------------------------------------------------------------
(* The bytes on the streams.                                               *)

LEMMA ArrivingIs ==
    ASSUME TypeOKFraming, NEW e \in End
    PROVE  /\ Arriving(e) \in Seq(Byte)
           /\ got[e] \in Seq(Byte) /\ stream[e] \in Seq(Byte) /\ sent[e] \in Seq(Seq(Byte))
           /\ Len(got[e]) \in Nat /\ Len(stream[e]) \in Nat /\ Len(sent[e]) \in Nat
           /\ DOMAIN sent[e] = 1 .. Len(sent[e])
           /\ Len(Arriving(e)) = Len(got[e]) + Len(stream[e])
           /\ \A k \in 1 .. Len(got[e]) : Arriving(e)[k] = got[e][k]
           /\ \A k \in 1 .. Len(stream[e]) : Arriving(e)[Len(got[e]) + k] = stream[e][k]
<1>1. got[e] \in Seq(Byte) /\ stream[e] \in Seq(Byte) /\ sent[e] \in Seq(Seq(Byte))
  BY DEF TypeOKFraming
<1>2. Len(sent[e]) \in Nat /\ DOMAIN sent[e] = 1 .. Len(sent[e])
  BY <1>1, LenProperties
<1> DEFINE g == got[e]
           s == stream[e]
<1>3. g \in Seq(Byte) /\ s \in Seq(Byte) /\ Arriving(e) = g \o s
  BY <1>1 DEF Arriving
<1> HIDE DEF g, s
<1>4. /\ g \o s \in Seq(Byte)
      /\ Len(g) \in Nat /\ Len(s) \in Nat
      /\ Len(g \o s) = Len(g) + Len(s)
      /\ \A k \in 1 .. Len(g) : (g \o s)[k] = g[k]
      /\ \A k \in 1 .. Len(s) : (g \o s)[Len(g) + k] = s[k]
  BY <1>3, ConcatAre
<1> QED
  BY <1>1, <1>2, <1>3, <1>4 DEF g, s

\* An end to which nothing is written, and from which nothing is read, stays
\* in step.
LEMMA InStepKept ==
    ASSUME NEW e \in End, InStepAt(e),
           got'[e] = got[e], stream'[e] = stream[e], sent'[e] = sent[e],
           e \in spoilt => e \in spoilt', e \in torn' <=> e \in torn,
           reader'[e] \in {"check", "read", "deliver"} => reader[e] \in {"check", "read", "deliver"},
           \A t \in Thread : EndOf(t) = Peer(e) =>
             /\ written'[t] = written[t]
             /\ written[t] > 0 => MessageOf(t)' = MessageOf(t)
    PROVE  InStepAt(e)'
<1> SUFFICES ASSUME e \notin spoilt', reader'[e] \in {"check", "read", "deliver"}
             PROVE  \E cut \in [0 .. Len(sent'[e]) -> 0 .. Len(Arriving(e)')] :
                      InFrames(Arriving(e), sent[e], cut)' /\ Rest(e, cut)'
  BY DEF InStepAt
<1>1. Arriving(e)' = Arriving(e)
  BY DEF Arriving
<1>2. PICK cut \in [0 .. Len(sent[e]) -> 0 .. Len(Arriving(e))] :
        InFrames(Arriving(e), sent[e], cut) /\ Rest(e, cut)
  BY DEF InStepAt
<1>3. InFrames(Arriving(e)', sent'[e], cut)
  BY <1>1, <1>2
<1>4. Rest(e, cut)'
  <2> DEFINE p == cut[Len(sent[e])]
             n == Len(Arriving(e)) - p
             a == Arriving(e)
  <2>1. /\ \A t \in Thread : EndOf(t) = Peer(e) /\ written[t] > 0 =>
             n = written[t] /\ HasAt(a, p, Frame(MessageOf(t)), n)
        /\ e \in torn =>
             \E m \in Messages : n < Len(Frame(m)) /\ HasAt(a, p, Frame(m), n)
        /\ e \notin torn /\ (\A t \in Thread : EndOf(t) = Peer(e) => written[t] = 0) => n = 0
    BY <1>2 DEF Rest
  <2> HIDE DEF p, n, a
  <2>2. /\ \A t \in Thread : EndOf(t) = Peer(e) /\ written'[t] > 0 =>
             n = written'[t] /\ HasAt(a, p, Frame(MessageOf(t)'), n)
        /\ e \in torn' =>
             \E m \in Messages : n < Len(Frame(m)) /\ HasAt(a, p, Frame(m), n)
        /\ e \notin torn' /\ (\A t \in Thread : EndOf(t) = Peer(e) => written'[t] = 0) => n = 0
    BY <2>1
  <2>3. p = cut[Len(sent'[e])] /\ n = Len(Arriving(e)') - p /\ a = Arriving(e)'
    BY <1>1 DEF p, n, a
  <2> QED
    BY <2>2, <2>3 DEF Rest, HasAt
<1> QED
  BY <1>1, <1>2, <1>3, <1>4

\* Frames of messages have a length, and the message is what follows it.
LEMMA FramesAre ==
    ASSUME NEW m \in Messages
    PROVE  /\ Frame(m) \in Seq(Byte) /\ Len(m) \in Nat /\ Len(Frame(m)) = Len(m) + 4
           /\ \A b : (\A k \in 1 .. 4 : b[k] = Frame(m)[k]) => Number(b) = Len(m)
           /\ After(Frame(m), 4) = m
<1>1. m \in Seq(Byte) /\ Len(m) < Long
  BY MessagesAre
<1> DEFINE f == Frame(m)
<1>2. /\ f \in Seq(Byte) /\ Len(m) \in Nat /\ Len(f) = Len(m) + 4
      /\ \A k \in 1 .. Len(m) : f[4 + k] = m[k]
      /\ \A b : (\A k \in 1 .. 4 : b[k] = f[k]) => Number(b) = Len(m)
  BY <1>1, FrameIs
<1> HIDE DEF f
<1>3. /\ After(f, 4) \in Seq(Byte) /\ Len(After(f, 4)) = Len(f) - 4
      /\ \A i \in 1 .. Len(f) - 4 : After(f, 4)[i] = f[4 + i]
  <2>1. 4 \in 0 .. Len(f)
    BY <1>2
  <2> QED
    BY <1>2, <2>1, CutAre
<1>4. After(f, 4) = m
  BY <1>1, <1>2, <1>3, SeqEqual
<1> QED
  BY <1>2, <1>4 DEF f

LEMMA FrameLengths == \A m \in Messages : Frame(m) \in Seq(Byte) /\ Len(Frame(m)) \in Nat
<1> SUFFICES ASSUME NEW m \in Messages PROVE Frame(m) \in Seq(Byte) /\ Len(Frame(m)) \in Nat
  OBVIOUS
<1>1. Frame(m) \in Seq(Byte)
  BY FramesAre
<1> QED
  BY <1>1, LenProperties

LEMMA FramesGrow ==
    ASSUME NEW bytes \in Seq(Byte), NEW more \in Seq(Byte), NEW messages \in Seq(Messages),
           NEW cut \in [0 .. Len(messages) -> 0 .. Len(bytes)], InFrames(bytes, messages, cut)
    PROVE  InFrames(bytes \o more, messages, cut)
<1> DEFINE L == Len(messages)
           all == bytes \o more
<1>1. Len(bytes) \in Nat /\ \A k \in 1 .. Len(bytes) : all[k] = bytes[k]
  BY ConcatAre
<1>2. L \in Nat
  BY LenProperties
<1> HIDE DEF all
<1>3. ASSUME NEW i \in 1 .. L
      PROVE  HasAt(all, cut[i - 1], Frame(messages[i]), Len(Frame(messages[i])))
  <2> DEFINE f == Frame(messages[i])
  <2>1. /\ cut[i] = cut[i - 1] + Len(f)
        /\ HasAt(bytes, cut[i - 1], f, Len(f))
    BY DEF InFrames
  <2>2. messages[i] \in Messages
    BY ElementOfSeq
  <2>3. Len(f) \in Nat
    BY <2>2, FrameLengths
  <2>4. cut[i - 1] \in 0 .. Len(bytes) /\ cut[i] \in 0 .. Len(bytes)
    <3>1. i - 1 \in 0 .. L /\ i \in 0 .. L
      BY <1>2
    <3> QED
      BY <3>1
  <2> HIDE DEF f
  <2>5. ASSUME NEW k \in 1 .. Len(f) PROVE all[cut[i - 1] + k] = f[k]
    <3>1. cut[i - 1] + k \in 1 .. Len(bytes)
      BY <1>1, <2>1, <2>3, <2>4
    <3>2. bytes[cut[i - 1] + k] = f[k]
      BY <2>1 DEF HasAt
    <3> QED
      BY <1>1, <3>1, <3>2
  <2> QED
    BY <2>5 DEF HasAt, f
<1> QED
  BY <1>3 DEF InFrames, all

LEMMA FrameAdded ==
    ASSUME NEW bytes \in Seq(Byte), NEW messages \in Seq(Messages), NEW n \in Nat,
           NEW cut \in [0 .. Len(messages) -> 0 .. n], n <= Len(bytes),
           InFrames(bytes, messages, cut),
           NEW m \in Messages,
           Len(bytes) = cut[Len(messages)] + Len(Frame(m)),
           HasAt(bytes, cut[Len(messages)], Frame(m), Len(Frame(m)))
    PROVE  \E cut2 \in [0 .. Len(messages) + 1 -> 0 .. Len(bytes)] :
             /\ InFrames(bytes, Append(messages, m), cut2)
             /\ cut2[Len(messages) + 1] = Len(bytes)
<1> DEFINE L == Len(messages)
           added == Append(messages, m)
           cut2 == [i \in 0 .. L + 1 |-> IF i <= L THEN cut[i] ELSE Len(bytes)]
<1>1. L \in Nat /\ Len(bytes) \in Nat
  BY LenProperties
<1>2. Len(added) = L + 1 /\ added[L + 1] = m /\ \A i \in 1 .. L : added[i] = messages[i]
  BY AppendProperties
<1>3. cut2 \in [0 .. L + 1 -> 0 .. Len(bytes)]
  BY <1>1
<1>4. /\ \A i \in 0 .. L : cut2[i] = cut[i] /\ cut[i] \in 0 .. n
      /\ cut2[L + 1] = Len(bytes)
  <2>1. /\ \A i \in 0 .. L : i \in 0 .. L + 1 /\ i <= L
        /\ L + 1 \in 0 .. L + 1 /\ ~(L + 1 <= L)
    BY <1>1
  <2>2. cut2[L + 1] = Len(bytes)
    BY <2>1
  <2>3. \A i \in 0 .. L : cut2[i] = cut[i]
    BY <2>1
  <2>4. \A i \in 0 .. L : cut[i] \in 0 .. n
    OBVIOUS
  <2> QED
    BY <2>2, <2>3, <2>4
<1> HIDE DEF added, cut2
<1>5. \A i, j \in 0 .. L : i <= j => cut[i] <= cut[j]
  BY DEF InFrames
<1>6. \A i, j \in 0 .. L + 1 : i <= j => cut2[i] <= cut2[j]
  <2> SUFFICES ASSUME NEW i \in 0 .. L + 1, NEW j \in 0 .. L + 1, i <= j PROVE cut2[i] <= cut2[j]
    OBVIOUS
  <2>1. CASE j <= L
    BY <1>1, <1>4, <1>5, <2>1
  <2>2. CASE j = L + 1
    <3>1. cut2[i] \in 0 .. Len(bytes) /\ cut2[j] = Len(bytes)
      BY <1>3, <1>4, <2>2
    <3> QED
      BY <1>1, <3>1
  <2> QED
    BY <1>1, <2>1, <2>2
<1>7. ASSUME NEW i \in 1 .. L + 1
      PROVE  /\ cut2[i] = cut2[i - 1] + Len(Frame(added[i]))
             /\ HasAt(bytes, cut2[i - 1], Frame(added[i]), Len(Frame(added[i])))
  <2>1. CASE i <= L
    <3>1. i \in 1 .. L /\ i \in 0 .. L /\ i - 1 \in 0 .. L
      BY <1>1, <2>1
    <3>2. added[i] = messages[i] /\ cut2[i] = cut[i] /\ cut2[i - 1] = cut[i - 1]
      BY <1>2, <1>4, <3>1
    <3>3. /\ cut[i] = cut[i - 1] + Len(Frame(messages[i]))
          /\ HasAt(bytes, cut[i - 1], Frame(messages[i]), Len(Frame(messages[i])))
      BY <3>1 DEF InFrames
    <3> QED
      BY <3>2, <3>3
  <2>2. CASE i = L + 1
    <3>1. i - 1 = L /\ L \in 0 .. L
      BY <1>1, <2>2
    <3> QED
      BY <1>2, <1>4, <2>2, <3>1
  <2> QED
    BY <1>1, <2>1, <2>2
<1>8. cut2[0] = 0
  <2>1. cut[0] = 0 /\ 0 \in 0 .. L
    BY <1>1 DEF InFrames
  <2> QED
    BY <1>4, <2>1
<1>9. InFrames(bytes, added, cut2)
  BY <1>2, <1>6, <1>7, <1>8 DEF InFrames
<1> QED
  BY <1>3, <1>4, <1>9 DEF added

LEMMA Shifted ==
    ASSUME NEW n \in Nat, NEW c \in Nat, NEW d \in Nat, NEW l \in Nat, NEW k \in 1 .. l,
           NEW all \in Nat, NEW rest \in Nat, c >= n, d <= all, d = c + l, all = n + rest
    PROVE  (c - n) + k \in 1 .. rest /\ n + ((c - n) + k) = c + k
OBVIOUS

LEMMA FrameTaken ==
    ASSUME NEW bytes \in Seq(Byte), NEW messages \in Seq(Messages), Len(messages) > 0,
           NEW cut \in [0 .. Len(messages) -> 0 .. Len(bytes)], InFrames(bytes, messages, cut),
           NEW rest \in Seq(Byte), NEW n \in Nat, n = Len(Frame(messages[1])),
           Len(bytes) = n + Len(rest), \A k \in 1 .. Len(rest) : rest[k] = bytes[n + k]
    PROVE  \E cut2 \in [0 .. Len(messages) - 1 -> 0 .. Len(rest)] :
             /\ InFrames(rest, After(messages, 1), cut2)
             /\ cut2[Len(messages) - 1] = cut[Len(messages)] - n
<1> DEFINE L == Len(messages)
           left == After(messages, 1)
           cut2 == [i \in 0 .. L - 1 |-> cut[i + 1] - n]
<1>1. L \in Nat /\ L > 0 /\ Len(bytes) \in Nat /\ Len(rest) \in Nat
  BY LenProperties
<1>2. /\ Len(left) = L - 1
      /\ \A i \in 1 .. L - 1 : left[i] = messages[1 + i]
      /\ left \in Seq(Messages)
  <2>1. 1 \in 0 .. L
    BY <1>1
  <2> QED
    BY <2>1, CutAre
<1>3. cut[1] = n
  <2>1. cut[0] = 0 /\ cut[1] = cut[1 - 1] + Len(Frame(messages[1]))
    BY <1>1 DEF InFrames
  <2> QED
    BY <2>1
<1>4. \A i \in 0 .. L - 1 : /\ i + 1 \in 0 .. L /\ 1 \in 0 .. L /\ 1 <= i + 1
  BY <1>1
<1>5. \A i \in 0 .. L - 1 : cut[i + 1] \in n .. Len(bytes)
  <2> SUFFICES ASSUME NEW i \in 0 .. L - 1 PROVE cut[i + 1] \in n .. Len(bytes)
    OBVIOUS
  <2>1. i + 1 \in 0 .. L /\ 1 \in 0 .. L /\ 1 <= i + 1
    BY <1>4
  <2>2. cut[i + 1] \in 0 .. Len(bytes)
    BY <2>1
  <2>3. cut[1] <= cut[i + 1]
    BY <2>1 DEF InFrames
  <2> QED
    BY <1>1, <1>3, <2>2, <2>3
<1>6. cut2 \in [0 .. L - 1 -> 0 .. Len(rest)]
  BY <1>1, <1>5
<1>7. \A i \in 0 .. L - 1 : cut2[i] = cut[i + 1] - n
  OBVIOUS
<1> HIDE DEF left, cut2
<1>8. \A i, j \in 0 .. L - 1 : i <= j => cut2[i] <= cut2[j]
  <2> SUFFICES ASSUME NEW i \in 0 .. L - 1, NEW j \in 0 .. L - 1, i <= j
               PROVE  cut2[i] <= cut2[j]
    OBVIOUS
  <2>1. i + 1 \in 0 .. L /\ j + 1 \in 0 .. L /\ i + 1 <= j + 1
    BY <1>1
  <2>2. cut[i + 1] <= cut[j + 1]
    BY <2>1 DEF InFrames
  <2> QED
    BY <1>5, <1>7, <2>2
<1>9. ASSUME NEW i \in 1 .. L - 1
      PROVE  /\ cut2[i] = cut2[i - 1] + Len(Frame(left[i]))
             /\ HasAt(rest, cut2[i - 1], Frame(left[i]), Len(Frame(left[i])))
  <2> DEFINE f == Frame(left[i])
  <2>1. i \in 0 .. L - 1 /\ i - 1 \in 0 .. L - 1 /\ 1 + i \in 1 .. L /\ (1 + i) - 1 = i /\ (i - 1) + 1 = i
        /\ i + 1 = 1 + i
    BY <1>1
  <2>2. left[i] = messages[1 + i] /\ left[i] \in Messages
    BY <1>2, <2>1, ElementOfSeq
  <2>3. Len(f) \in Nat
    BY <2>2, FrameLengths
  <2>4. cut[1 + i] = cut[i] + Len(f) /\ HasAt(bytes, cut[i], f, Len(f))
    <3>1. /\ cut[1 + i] = cut[(1 + i) - 1] + Len(Frame(messages[1 + i]))
          /\ HasAt(bytes, cut[(1 + i) - 1], Frame(messages[1 + i]), Len(Frame(messages[1 + i])))
      BY <2>1 DEF InFrames
    <3> QED
      BY <2>1, <2>2, <3>1
  <2> HIDE DEF f
  <2>5. /\ cut2[i] = cut[1 + i] - n /\ cut2[i - 1] = cut[i] - n
        /\ cut[1 + i] \in n .. Len(bytes) /\ cut[i] \in n .. Len(bytes)
    <3>1. cut2[i] = cut[i + 1] - n /\ cut2[i - 1] = cut[(i - 1) + 1] - n
      BY <1>7, <2>1
    <3>2. cut[i + 1] \in n .. Len(bytes) /\ cut[(i - 1) + 1] \in n .. Len(bytes)
      BY <1>5, <2>1
    <3> QED
      BY <2>1, <3>1, <3>2
  <2>6. cut2[i] = cut2[i - 1] + Len(f)
    BY <2>3, <2>4, <2>5
  <2>7. ASSUME NEW k \in 1 .. Len(f) PROVE rest[cut2[i - 1] + k] = f[k]
    <3>1. cut2[i - 1] + k \in 1 .. Len(rest) /\ n + (cut2[i - 1] + k) = cut[i] + k
      <4> DEFINE c == cut[i]
                 d == cut[1 + i]
                 l == Len(f)
      <4>1. c \in n .. Len(bytes) /\ d \in n .. Len(bytes) /\ d = c + l /\ cut2[i - 1] = c - n
            /\ k \in 1 .. l /\ l \in Nat
        BY <2>3, <2>4, <2>5
      <4> HIDE DEF c, d, l
      <4>2. /\ c \in Nat /\ d \in Nat /\ c >= n /\ d <= Len(bytes)
            /\ Len(bytes) = n + Len(rest)
        BY <1>1, <4>1
      <4>3. (c - n) + k \in 1 .. Len(rest) /\ n + ((c - n) + k) = c + k
        BY <1>1, <4>1, <4>2, Shifted
      <4> QED
        BY <4>1, <4>3 DEF c
    <3>2. rest[cut2[i - 1] + k] = bytes[n + (cut2[i - 1] + k)]
      BY <3>1
    <3>3. bytes[cut[i] + k] = f[k]
      BY <2>4 DEF HasAt
    <3> QED
      BY <3>1, <3>2, <3>3
  <2> QED
    BY <2>6, <2>7 DEF HasAt, f
<1>10. cut2[0] = 0 /\ cut2[L - 1] = cut[L] - n
  <2>1. 0 \in 0 .. L - 1 /\ L - 1 \in 0 .. L - 1 /\ (L - 1) + 1 = L /\ 0 + 1 = 1
    BY <1>1
  <2>2. cut2[0] = cut[0 + 1] - n /\ cut2[L - 1] = cut[(L - 1) + 1] - n
    BY <1>7, <2>1
  <2> QED
    BY <1>3, <2>1, <2>2
<1>11. InFrames(rest, left, cut2)
  BY <1>2, <1>8, <1>9, <1>10 DEF InFrames
<1> QED
  BY <1>6, <1>10, <1>11 DEF left

\* Bytes from which nothing is missing, which the stream begins with, are the
\* frame of the first message sent.
LEMMA FirstFrame ==
    ASSUME NEW bytes \in Seq(Byte), NEW messages \in Seq(Messages),
           NEW cut \in [0 .. Len(messages) -> 0 .. Len(bytes)], InFrames(bytes, messages, cut),
           Len(messages) = 0 => Len(bytes) = 0 \/ \E m \in Messages :
             Len(bytes) < Len(Frame(m)) /\ HasAt(bytes, 0, Frame(m), Len(bytes)),
           NEW b \in Seq(Byte), 4 <= Len(b), Len(b) <= Len(bytes),
           \A k \in 1 .. Len(b) : b[k] = bytes[k],
           Missing(b) = 0
    PROVE  Len(messages) > 0 /\ b = Frame(messages[1])
<1>1. Len(b) \in Nat /\ Len(bytes) \in Nat /\ Len(messages) \in Nat
  BY LenProperties
<1>2. 4 + Number(b) - Len(b) = 0
  BY <1>1 DEF Missing
<1>3. ASSUME NEW m \in Messages, \A k \in 1 .. 4 : bytes[k] = Frame(m)[k]
      PROVE  Len(Frame(m)) = Len(b)
  <2>1. \A k \in 1 .. 4 : b[k] = Frame(m)[k]
    <3>1. \A k \in 1 .. 4 : k \in 1 .. Len(b)
      BY <1>1
    <3> QED
      BY <1>3, <3>1
  <2>2. Number(b) = Len(m) /\ Len(Frame(m)) = Len(m) + 4 /\ Len(m) \in Nat
    BY <2>1, FramesAre
  <2> QED
    BY <1>1, <1>2, <2>2
<1>4. Len(messages) > 0
  <2> SUFFICES ASSUME Len(messages) = 0 PROVE FALSE
    BY <1>1
  <2>1. PICK m \in Messages : Len(bytes) < Len(Frame(m)) /\ HasAt(bytes, 0, Frame(m), Len(bytes))
    BY <1>1
  <2>2. \A k \in 1 .. 4 : bytes[k] = Frame(m)[k]
    <3>1. \A k \in 1 .. 4 : k \in 1 .. Len(bytes) /\ 0 + k = k
      BY <1>1
    <3> QED
      BY <2>1, <3>1 DEF HasAt
  <2>3. Len(Frame(m)) = Len(b)
    BY <2>2, <1>3
  <2> QED
    BY <1>1, <2>1, <2>3
<1> DEFINE m == messages[1]
           f == Frame(m)
<1>5. m \in Messages
  BY <1>1, <1>4, ElementOfSeq
<1>6. f \in Seq(Byte) /\ Len(m) \in Nat /\ Len(f) = Len(m) + 4
  BY <1>5, FramesAre
<1>7. HasAt(bytes, 0, f, Len(f))
  <2>1. cut[0] = 0 /\ HasAt(bytes, cut[1 - 1], Frame(messages[1]), Len(Frame(messages[1])))
    BY <1>1, <1>4 DEF InFrames
  <2> QED
    BY <2>1
<1>8. \A k \in 1 .. Len(f) : bytes[k] = f[k]
  <2>1. \A k \in 1 .. Len(f) : 0 + k = k
    BY <1>6
  <2> QED
    BY <1>7, <2>1 DEF HasAt
<1>9. Len(f) = Len(b)
  <2>1. \A k \in 1 .. 4 : bytes[k] = f[k]
    BY <1>6, <1>8
  <2> QED
    BY <1>3, <1>5, <2>1
<1> HIDE DEF f
<1>10. b = f
  BY <1>6, <1>8, <1>9, SeqEqual
<1> QED
  BY <1>4, <1>10 DEF f

\* What a call of RawIO::write does: the next n bytes of the frame go out.
LEMMA PartIs ==
    ASSUME TypeOKFraming, Writing, NEW t \in Thread, MessageOf(t) \in Messages,
           NEW n \in DOMAIN out[t], WritePart(t, n)
    PROVE  LET e == Peer(EndOf(t))
               f == Frame(MessageOf(t))
               part == SubSeq(out[t], 1, n)
           IN
           /\ e \in End
           /\ n \in Nat /\ n > 0 /\ written[t] \in Nat /\ written[t] + n <= Len(f)
           /\ part \in Seq(Byte) /\ Len(part) = n
           /\ \A k \in 1 .. n : part[k] = f[written[t] + k]
           /\ out'[t] = <<>> <=> written[t] + n = Len(f)
           /\ out'[t] # <<>> => /\ written'[t] = written[t] + n
                                /\ out'[t] = After(f, written'[t])
                                /\ ~whole
           /\ out'[t] = <<>> => written'[t] = 0
           /\ out'[t] \in Seq(Byte)
           /\ Arriving(e)' = Arriving(e) \o part
<1> DEFINE e == Peer(EndOf(t))
           f == Frame(MessageOf(t))
           o == out[t]
           w == written[t]
           part == SubSeq(o, 1, n)
<1>1. e \in End /\ EndOf(t) \in End
  BY ThreadsAre, PeersAre
<1>2. o \in Seq(Byte) /\ w \in Nat /\ Len(o) \in Nat /\ n \in 1 .. Len(o)
  <2>1. o \in Seq(Byte) /\ w \in Nat
    BY DEF TypeOKFraming
  <2>2. DOMAIN o = 1 .. Len(o) /\ Len(o) \in Nat
    BY <2>1, LenProperties
  <2> QED
    BY <2>1, <2>2
<1>3. f \in Seq(Byte) /\ Len(f) \in Nat
  BY FrameLengths
<1>4. w < Len(f) /\ o = After(f, w)
  <2>1. o # <<>>
    BY <1>2
  <2> QED
    BY <2>1 DEF Writing
<1>5. /\ out' = [out EXCEPT ![t] = After(@, n)]
      /\ stream' = [stream EXCEPT ![e] = @ \o part]
      /\ written' = [written EXCEPT ![t] = IF n = Len(o) THEN 0 ELSE @ + n]
      /\ n = Len(o) \/ ~whole
      /\ got' = got
  BY DEF WritePart
<1>6. /\ out'[t] = After(o, n)
      /\ stream'[e] = stream[e] \o part
      /\ written'[t] = IF n = Len(o) THEN 0 ELSE w + n
  BY <1>1, <1>5 DEF TypeOKFraming
<1> HIDE DEF e, f, o, w, part
<1>7. /\ Len(o) = Len(f) - w
      /\ \A i \in 1 .. Len(f) - w : o[i] = f[w + i]
  <2>1. w \in 0 .. Len(f)
    BY <1>2, <1>3, <1>4
  <2> QED
    BY <1>3, <1>4, <2>1, CutAre
<1>8. /\ part \in Seq(Byte) /\ Len(part) = n
      /\ \A i \in 1 .. n : part[i] = o[i]
      /\ After(o, n) \in Seq(Byte) /\ Len(After(o, n)) = Len(o) - n
      /\ \A i \in 1 .. Len(o) - n : After(o, n)[i] = o[n + i]
  <2>1. n \in 0 .. Len(o)
    BY <1>2
  <2> QED
    BY <1>2, <2>1, CutAre DEF part
<1>9. n \in Nat /\ n > 0 /\ w + n <= Len(f)
  BY <1>2, <1>3, <1>7
<1>10. \A k \in 1 .. n : part[k] = f[w + k]
  <2> SUFFICES ASSUME NEW k \in 1 .. n PROVE part[k] = f[w + k]
    OBVIOUS
  <2>1. k \in 1 .. Len(f) - w
    BY <1>2, <1>3, <1>7
  <2> QED
    BY <2>1, <1>7, <1>8
<1>11. out'[t] = <<>> <=> w + n = Len(f)
  <2>1. out'[t] = <<>> <=> Len(o) - n = 0
    <3>1. out'[t] \in Seq(Byte) /\ Len(out'[t]) = Len(o) - n
      BY <1>6, <1>8
    <3> QED
      BY <3>1, EmptySeq
  <2> QED
    BY <1>2, <1>3, <1>7, <2>1
<1>12. n = Len(o) <=> w + n = Len(f)
  BY <1>2, <1>3, <1>7
<1>13. ASSUME w + n # Len(f)
       PROVE  After(o, n) = After(f, w + n)
  <2>1. w + n \in 0 .. Len(f)
    BY <1>2, <1>3, <1>9
  <2>2. /\ After(f, w + n) \in Seq(Byte) /\ Len(After(f, w + n)) = Len(f) - (w + n)
        /\ \A i \in 1 .. Len(f) - (w + n) : After(f, w + n)[i] = f[(w + n) + i]
    BY <1>3, <2>1, CutAre
  <2>3. Len(After(o, n)) = Len(After(f, w + n))
    BY <1>2, <1>3, <1>7, <1>8, <2>2
  <2>4. ASSUME NEW i \in 1 .. Len(After(o, n))
        PROVE  After(o, n)[i] = After(f, w + n)[i]
    <3>1. /\ i \in 1 .. Len(o) - n /\ i \in 1 .. Len(f) - (w + n)
          /\ n + i \in 1 .. Len(f) - w /\ w + (n + i) = (w + n) + i
      BY <1>2, <1>3, <1>7, <1>8
    <3>2. After(o, n)[i] = o[n + i] /\ o[n + i] = f[w + (n + i)]
      BY <3>1, <1>7, <1>8
    <3> QED
      BY <3>1, <3>2, <2>2
  <2> QED
    BY <1>8, <2>2, <2>3, <2>4, SeqEqual
<1>14. Arriving(e)' = Arriving(e) \o part
  <2>1. got[e] \in Seq(Byte) /\ stream[e] \in Seq(Byte)
    BY <1>1 DEF TypeOKFraming
  <2>2. Arriving(e)' = got[e] \o (stream[e] \o part)
    BY <1>5, <1>6 DEF Arriving
  <2>3. Arriving(e) = got[e] \o stream[e]
    BY DEF Arriving
  <2> DEFINE g == got[e]
             s == stream[e]
  <2>4. g \in Seq(Byte) /\ s \in Seq(Byte) /\ part \in Seq(Byte)
    BY <1>8, <2>1
  <2> HIDE DEF g, s
  <2>5. (g \o s) \o part = g \o (s \o part)
    BY <2>4, ConcatAssociative
  <2> QED
    BY <2>2, <2>3, <2>5 DEF g, s
<1>15. out'[t] # <<>> => /\ written'[t] = w + n
                         /\ out'[t] = After(f, written'[t])
                         /\ ~whole
  BY <1>5, <1>6, <1>11, <1>12, <1>13
<1>16. out'[t] = <<>> => written'[t] = 0
  BY <1>6, <1>11, <1>12
<1>17. out'[t] \in Seq(Byte)
  BY <1>6, <1>8
<1> QED
  BY <1>1, <1>2, <1>8, <1>9, <1>10, <1>11, <1>14, <1>15, <1>16, <1>17 DEF e, f, o, w, part

\* Unless it is in the midst of another, or where one broke off, the frame is
\* all that arrives behind the messages sent.
LEMMA PartInPlace ==
    ASSUME TypeOKFraming, Writing, NEW t \in Thread, MessageOf(t) \in Messages,
           NEW n \in DOMAIN out[t], WritePart(t, n),
           NEW e \in End, e = Peer(EndOf(t)), e \notin spoilt', sent[e] \in Seq(Messages),
           NEW cut \in [0 .. Len(sent[e]) -> 0 .. Len(Arriving(e))],
           InFrames(Arriving(e), sent[e], cut), Rest(e, cut)
    PROVE  LET f == Frame(MessageOf(t))
               p == cut[Len(sent[e])]
           IN
           /\ e \notin torn'
           /\ \A u \in Thread : EndOf(u) = Peer(e) /\ u # t => written'[u] = 0
           /\ InFrames(Arriving(e)', sent[e], cut)
           /\ Len(Arriving(e)) \in Nat /\ Len(Arriving(e)) <= Len(Arriving(e)')
           /\ Arriving(e)' \in Seq(Byte)
           /\ p \in 0 .. Len(Arriving(e))
           /\ Len(Arriving(e)') = p + (written[t] + n)
           /\ HasAt(Arriving(e)', p, f, written[t] + n)
<1> DEFINE f == Frame(MessageOf(t))
           L == Len(sent[e])
           p == cut[L]
           w == written[t]
           a == Arriving(e)
           part == SubSeq(out[t], 1, n)
<1>1. /\ n \in Nat /\ n > 0 /\ w \in Nat
      /\ part \in Seq(Byte) /\ Len(part) = n
      /\ \A k \in 1 .. n : part[k] = f[w + k]
      /\ Arriving(e)' = a \o part
  BY PartIs
<1>2. /\ a \in Seq(Byte) /\ Len(a) \in Nat /\ L \in Nat
  <2>1. a \in Seq(Byte) /\ L \in Nat
    BY ArrivingIs
  <2> QED
    BY <2>1, LenProperties
<1>3. e \notin torn /\ torn' = torn /\ \A u \in Thread \ {t} : EndOf(u) = EndOf(t) => ~(written[u] > 0)
  BY DEF WritePart, Amidst
<1>4. \A u \in Thread : u # t => written'[u] = written[u]
  BY DEF WritePart, TypeOKFraming
<1>5. Peer(e) = EndOf(t)
  BY ThreadsAre, PeersAre
<1>6. \A u \in Thread : EndOf(u) = Peer(e) /\ u # t => written[u] = 0 /\ written'[u] = 0
  BY <1>3, <1>4, <1>5 DEF TypeOKFraming
<1>7. p \in 0 .. Len(a)
  <2>1. L \in 0 .. L
    BY <1>2
  <2> QED
    BY <2>1
<1>8. Len(a) - p = w /\ HasAt(a, p, f, w)
  <2>1. CASE w > 0
    BY <1>5, <2>1 DEF Rest
  <2>2. CASE w = 0
    <3>1. Len(a) - p = 0
      BY <1>3, <1>5, <1>6, <2>2 DEF Rest
    <3> QED
      BY <2>2, <3>1 DEF HasAt
  <2> QED
    BY <1>1, <2>1, <2>2
<1>9. InFrames(a \o part, sent[e], cut)
  BY <1>1, <1>2, FramesGrow
<1> HIDE DEF f, p, w, part, a
<1>10. /\ a \o part \in Seq(Byte) /\ Len(a \o part) = Len(a) + n
       /\ \A k \in 1 .. Len(a) : (a \o part)[k] = a[k]
       /\ \A k \in 1 .. n : (a \o part)[Len(a) + k] = part[k]
  <2>1. /\ a \o part \in Seq(Byte) /\ Len(a \o part) = Len(a) + Len(part)
        /\ \A k \in 1 .. Len(a) : (a \o part)[k] = a[k]
        /\ \A k \in 1 .. Len(part) : (a \o part)[Len(a) + k] = part[k]
    <3>1. a \in Seq(Byte) /\ part \in Seq(Byte)
      BY <1>1, <1>2
    <3> QED
      BY <3>1, ConcatAre
  <2> QED
    BY <1>1, <2>1
<1> DEFINE l == Len(a)
<1>14. n \in Nat /\ w \in Nat /\ l \in Nat /\ p \in Nat /\ l = p + w
  <2>1. l \in Nat /\ p \in Nat /\ p <= l /\ w \in Nat /\ l - p = w /\ n \in Nat
    BY <1>1, <1>2, <1>7, <1>8
  <2> HIDE DEF l
  <2> QED
    BY <2>1
<1> HIDE DEF l
<1>11. Len(a \o part) = p + (w + n) /\ Len(a) <= Len(a \o part)
  <2>1. Len(a \o part) = l + n
    BY <1>10 DEF l
  <2>2. Len(a \o part) = p + (w + n) /\ l <= Len(a \o part)
    BY <1>14, <2>1
  <2> QED
    BY <2>2 DEF l
<1>12. ASSUME NEW k \in 1 .. w + n PROVE (a \o part)[p + k] = f[k]
  <2>1. CASE k <= w
    <3>1. k \in 1 .. w /\ p + k \in 1 .. l
      BY <1>14, <2>1
    <3> QED
      BY <3>1, <1>8, <1>10 DEF HasAt, l
  <2>2. CASE k > w
    <3>1. k - w \in 1 .. n /\ p + k = l + (k - w) /\ w + (k - w) = k
      BY <1>14, <2>2
    <3>2. (a \o part)[p + k] = part[k - w]
      BY <3>1, <1>10 DEF l
    <3>3. part[k - w] = f[k]
      BY <3>1, <1>1
    <3> QED
      BY <3>2, <3>3
  <2> QED
    <3>1. k <= w \/ k > w
      BY <1>14
    <3> QED
      BY <2>1, <2>2, <3>1
<1>13. HasAt(a \o part, p, f, w + n)
  BY <1>12 DEF HasAt
<1> QED
  BY <1>1, <1>2, <1>3, <1>6, <1>7, <1>9, <1>10, <1>11, <1>13 DEF f, p, w, a

\* The other end has no part in it.
LEMMA OtherEnd ==
    ASSUME NEW t \in Thread, NEW e \in End, e # Peer(EndOf(t)), NEW u \in Thread, EndOf(u) = Peer(e)
    PROVE  u # t
BY ThreadsAre, PeersAre

LEMMA MidInStep ==
    ASSUME TypeOKFraming, Writing, InStep, NEW t \in Thread, MessageOf(t) \in Messages,
           NEW n \in DOMAIN out[t], WritePart(t, n), out'[t] # <<>>, sent' = sent,
           \A u \in Thread : MessageOf(u)' = MessageOf(u),
           \A e \in End : sent[e] \in Seq(Messages)
    PROVE  InStep'
<1> SUFFICES ASSUME NEW e \in End PROVE InStepAt(e)'
  BY DEF InStep
<1>1. InStepAt(e)
  BY DEF InStep
<1>2. /\ torn' = torn /\ got' = got /\ reader' = reader /\ (e \in spoilt => e \in spoilt')
      /\ stream' = [stream EXCEPT ![Peer(EndOf(t))] = @ \o SubSeq(out[t], 1, n)]
      /\ \A u \in Thread : u # t => written'[u] = written[u]
  BY DEF WritePart, TypeOKFraming
<1>3. CASE e # Peer(EndOf(t))
  <2>1. stream'[e] = stream[e]
    BY <1>2, <1>3 DEF TypeOKFraming
  <2>2. \A u \in Thread : EndOf(u) = Peer(e) =>
             /\ written'[u] = written[u]
             /\ written[u] > 0 => MessageOf(u)' = MessageOf(u)
    BY <1>2, <1>3, OtherEnd
  <2> QED
    BY <1>1, <1>2, <2>1, <2>2, InStepKept
<1>4. CASE e = Peer(EndOf(t))
  <2> SUFFICES ASSUME e \notin spoilt', reader'[e] \in {"check", "read", "deliver"}
               PROVE  \E cut \in [0 .. Len(sent'[e]) -> 0 .. Len(Arriving(e)')] :
                        InFrames(Arriving(e), sent[e], cut)' /\ Rest(e, cut)'
    BY DEF InStepAt
  <2>1. PICK cut \in [0 .. Len(sent[e]) -> 0 .. Len(Arriving(e))] :
          InFrames(Arriving(e), sent[e], cut) /\ Rest(e, cut)
    BY <1>1, <1>2 DEF InStepAt
  <2> DEFINE f == Frame(MessageOf(t))
             p == cut[Len(sent[e])]
             m == written[t] + n
  <2>2. /\ e \notin torn'
        /\ \A u \in Thread : EndOf(u) = Peer(e) /\ u # t => written'[u] = 0
        /\ InFrames(Arriving(e)', sent[e], cut)
        /\ Len(Arriving(e)) \in Nat /\ Len(Arriving(e)) <= Len(Arriving(e)')
        /\ Arriving(e)' \in Seq(Byte)
        /\ p \in 0 .. Len(Arriving(e))
        /\ Len(Arriving(e)') = p + m
        /\ HasAt(Arriving(e)', p, f, m)
    BY <1>4, <2>1, PartInPlace
  <2>3. written'[t] = m /\ m \in Nat /\ m > 0 /\ Peer(e) = EndOf(t)
    <3>1. written'[t] = m /\ n \in Nat /\ n > 0 /\ written[t] \in Nat
      BY PartIs
    <3> QED
      BY <1>4, <3>1, ThreadsAre, PeersAre
  <2>4. MessageOf(t)' = MessageOf(t)
    OBVIOUS
  <2> DEFINE a == Arriving(e)'
             w == written'
             L == Len(sent[e])
  <2>5. L = Len(sent'[e]) /\ sent'[e] = sent[e]
    OBVIOUS
  <2> HIDE DEF m
  <2>6. Len(a) - p = m
    BY <2>2, <2>3
  <2>7. cut \in [0 .. L -> 0 .. Len(a)]
    <3>1. 0 .. Len(Arriving(e)) \subseteq 0 .. Len(a)
      BY <2>2, LenProperties
    <3> QED
      BY <2>1, <3>1
  <2>8. ASSUME NEW u \in Thread, EndOf(u) = Peer(e), w[u] > 0
        PROVE  Len(a) - p = w[u] /\ HasAt(a, p, Frame(MessageOf(u)'), Len(a) - p)
    <3>1. u = t
      BY <2>2, <2>8
    <3> QED
      BY <2>2, <2>3, <2>4, <2>6, <3>1
  <2>9. Rest(e, cut)'
    BY <2>2, <2>3, <2>5, <2>8 DEF Rest
  <2> QED
    BY <2>2, <2>5, <2>7, <2>9
<1> QED
  BY <1>3, <1>4

LEMMA LastInStep ==
    ASSUME TypeOKFraming, Writing, InStep, NEW t \in Thread, MessageOf(t) \in Messages,
           NEW n \in DOMAIN out[t], WritePart(t, n), out'[t] = <<>>,
           Sends(t, MessageOf(t)),
           \A u \in Thread : u # t /\ written[u] > 0 => MessageOf(u)' = MessageOf(u),
           \A e \in End : sent[e] \in Seq(Messages)
    PROVE  InStep'
<1> SUFFICES ASSUME NEW e \in End PROVE InStepAt(e)'
  BY DEF InStep
<1>1. InStepAt(e)
  BY DEF InStep
<1>2. /\ torn' = torn /\ got' = got /\ reader' = reader /\ (e \in spoilt => e \in spoilt')
      /\ stream' = [stream EXCEPT ![Peer(EndOf(t))] = @ \o SubSeq(out[t], 1, n)]
      /\ \A u \in Thread : u # t => written'[u] = written[u]
      /\ sent' = [sent EXCEPT ![Peer(EndOf(t))] = Append(@, MessageOf(t))]
  BY DEF WritePart, TypeOKFraming, Sends
<1>3. CASE e # Peer(EndOf(t))
  <2>1. stream'[e] = stream[e] /\ sent'[e] = sent[e]
    BY <1>2, <1>3 DEF TypeOKFraming
  <2>2. \A u \in Thread : EndOf(u) = Peer(e) =>
             /\ written'[u] = written[u]
             /\ written[u] > 0 => MessageOf(u)' = MessageOf(u)
    BY <1>2, <1>3, OtherEnd
  <2> QED
    BY <1>1, <1>2, <2>1, <2>2, InStepKept
<1>4. CASE e = Peer(EndOf(t))
  <2> SUFFICES ASSUME e \notin spoilt', reader'[e] \in {"check", "read", "deliver"}
               PROVE  \E cut \in [0 .. Len(sent'[e]) -> 0 .. Len(Arriving(e)')] :
                        InFrames(Arriving(e), sent[e], cut)' /\ Rest(e, cut)'
    BY DEF InStepAt
  <2>1. PICK cut \in [0 .. Len(sent[e]) -> 0 .. Len(Arriving(e))] :
          InFrames(Arriving(e), sent[e], cut) /\ Rest(e, cut)
    BY <1>1, <1>2 DEF InStepAt
  <2> DEFINE m == MessageOf(t)
             f == Frame(m)
             p == cut[Len(sent[e])]
             a == Arriving(e)'
             s == sent[e]
  <2>2. /\ e \notin torn'
        /\ \A u \in Thread : EndOf(u) = Peer(e) /\ u # t => written'[u] = 0
        /\ InFrames(a, s, cut)
        /\ Len(Arriving(e)) \in Nat /\ Len(Arriving(e)) <= Len(a)
        /\ a \in Seq(Byte)
        /\ Len(a) = p + (written[t] + n)
        /\ HasAt(a, p, f, written[t] + n)
    BY <1>4, <2>1, PartInPlace
  <2>3. written[t] + n = Len(f) /\ written'[t] = 0
    BY PartIs
  <2>4. sent'[e] = Append(s, m) /\ s \in Seq(Messages)
    BY <1>2, <1>4 DEF TypeOKFraming
  <2>5. \E cut2 \in [0 .. Len(s) + 1 -> 0 .. Len(a)] :
             InFrames(a, Append(s, m), cut2) /\ cut2[Len(s) + 1] = Len(a)
    <3>1. cut \in [0 .. Len(s) -> 0 .. Len(Arriving(e))]
      BY <2>1
    <3>2. Len(a) = cut[Len(s)] + Len(Frame(m)) /\ HasAt(a, cut[Len(s)], Frame(m), Len(Frame(m)))
      BY <2>2, <2>3
    <3> HIDE DEF a, s, m
    <3> QED
      BY <2>2, <2>4, <3>1, <3>2, FrameAdded DEF m
  <2>6. PICK cut2 \in [0 .. Len(s) + 1 -> 0 .. Len(a)] :
             InFrames(a, Append(s, m), cut2) /\ cut2[Len(s) + 1] = Len(a)
    BY <2>5
  <2>7. Len(sent'[e]) = Len(s) + 1
    BY <2>4, AppendProperties
  <2>8. Rest(e, cut2)'
    <3>1. Len(a) - cut2[Len(sent'[e])] = 0
      BY <2>2, <2>6, <2>7, LenProperties
    <3>2. \A u \in Thread : EndOf(u) = Peer(e) => ~(written'[u] > 0)
      BY <2>2, <2>3
    <3> QED
      BY <2>2, <3>1, <3>2 DEF Rest
  <2> QED
    BY <2>4, <2>6, <2>7, <2>8
<1> QED
  BY <1>3, <1>4

LEMMA FailInStep ==
    ASSUME TypeOKFraming, Writing, InStep, NEW t \in Thread, MessageOf(t) \in Messages,
           WriteFails(t),
           \A u \in Thread : u # t /\ written[u] > 0 => MessageOf(u)' = MessageOf(u)
    PROVE  InStep'
<1> SUFFICES ASSUME NEW e \in End PROVE InStepAt(e)'
  BY DEF InStep
<1>1. InStepAt(e)
  BY DEF InStep
<1>2. /\ out[t] # <<>>
      /\ torn' = IF written[t] > 0 THEN torn \cup {Peer(EndOf(t))} ELSE torn
      /\ written' = [written EXCEPT ![t] = 0]
      /\ got' = got /\ reader' = reader /\ spoilt' = spoilt /\ stream' = stream /\ sent' = sent
  BY DEF WriteFails
<1>3. written \in [Thread -> Nat]
  BY DEF TypeOKFraming
<1>4. CASE e # Peer(EndOf(t)) \/ written[t] = 0
  <2>1. e \in torn' <=> e \in torn
    BY <1>2, <1>3, <1>4
  <2>2. ASSUME NEW u \in Thread, EndOf(u) = Peer(e)
        PROVE  /\ written'[u] = written[u]
               /\ written[u] > 0 => MessageOf(u)' = MessageOf(u)
    <3>1. CASE written[t] = 0
      BY <1>2, <1>3, <3>1
    <3>2. CASE e # Peer(EndOf(t))
      <4>1. u # t
        BY <2>2, <3>2, OtherEnd
      <4> QED
        BY <1>2, <1>3, <4>1
    <3> QED
      BY <1>4, <3>1, <3>2
  <2> QED
    BY <1>1, <1>2, <2>1, <2>2, InStepKept
<1>5. CASE e = Peer(EndOf(t)) /\ written[t] > 0
  <2> SUFFICES ASSUME e \notin spoilt', reader'[e] \in {"check", "read", "deliver"}
               PROVE  \E cut \in [0 .. Len(sent'[e]) -> 0 .. Len(Arriving(e)')] :
                        InFrames(Arriving(e), sent[e], cut)' /\ Rest(e, cut)'
    BY DEF InStepAt
  <2>1. PICK cut \in [0 .. Len(sent[e]) -> 0 .. Len(Arriving(e))] :
          InFrames(Arriving(e), sent[e], cut) /\ Rest(e, cut)
    BY <1>1, <1>2 DEF InStepAt
  <2> DEFINE a == Arriving(e)
             p == cut[Len(sent[e])]
             m == MessageOf(t)
             n == Len(a) - p
  <2>2. a = Arriving(e)' /\ sent'[e] = sent[e] /\ e \in torn'
    BY <1>2, <1>5 DEF Arriving
  <2>3. \A u \in Thread : EndOf(u) = Peer(e) /\ written[u] > 0 =>
          n = written[u] /\ HasAt(a, p, Frame(MessageOf(u)), n)
    BY <2>1 DEF Rest
  <2>4. n = written[t] /\ HasAt(a, p, Frame(m), n) /\ n < Len(Frame(m)) /\ m \in Messages
    <3>1. EndOf(t) = Peer(e)
      BY <1>5, ThreadsAre, PeersAre
    <3>2. written[t] < Len(Frame(m))
      BY <1>2 DEF Writing
    <3> QED
      BY <1>5, <2>3, <3>1, <3>2
  <2> HIDE DEF a, m, n
  <2>5. ASSUME NEW u \in Thread, EndOf(u) = Peer(e), written'[u] > 0
        PROVE  n = written'[u] /\ HasAt(a, p, Frame(MessageOf(u)'), n)
    <3>1. u # t /\ written[u] = written'[u]
      BY <1>2, <1>3, <2>5
    <3> QED
      BY <2>3, <2>5, <3>1
  <2>6. Rest(e, cut)'
    <3>1. n = Len(Arriving(e)') - cut[Len(sent'[e])]
      BY <2>2 DEF n
    <3> QED
      BY <2>2, <2>4, <2>5, <3>1 DEF Rest
  <2> QED
    BY <2>1, <2>2, <2>6 DEF a
<1> QED
  BY <1>3, <1>4, <1>5

\* What a call of RawIO::read does with the bytes: they are behind those read
\* before.
LEMMA ReadIs ==
    ASSUME TypeOKFraming, Readers, NEW e \in End, NEW n \in DOMAIN stream[e], ReadPart(e, n)
    PROVE  LET bytes == got[e] \o SubSeq(stream[e], 1, n) IN
           /\ bytes \in Seq(Byte) /\ Len(bytes) \in Nat /\ Len(bytes) <= Len(Arriving(e))
           /\ \A k \in 1 .. Len(bytes) : bytes[k] = Arriving(e)[k]
           /\ stream'[e] \in Seq(Byte)
           /\ Arriving(e) = bytes \o stream'[e]
           /\ IsPart(bytes) \/ (4 <= Len(bytes) /\ Missing(bytes) = 0)
<1> DEFINE g == got[e]
           s == stream[e]
           part == SubSeq(s, 1, n)
           bytes == g \o part
<1>1. g \in Seq(Byte) /\ s \in Seq(Byte) /\ Len(s) \in Nat /\ Len(g) \in Nat
      /\ n \in 1 .. Len(s)
  <2>1. g \in Seq(Byte) /\ s \in Seq(Byte)
    BY DEF TypeOKFraming
  <2> QED
    BY <2>1, LenProperties
<1>2. /\ stream'[e] = After(s, n)
      /\ n = Missing(g) \/ n < Missing(g)
  BY DEF ReadPart, TypeOKFraming
<1>3. IsPart(g)
  BY DEF Readers
<1> HIDE DEF g, s
<1>4. /\ part \in Seq(Byte) /\ Len(part) = n
      /\ After(s, n) \in Seq(Byte)
      /\ part \o After(s, n) = s
  <2>1. n \in 0 .. Len(s)
    BY <1>1
  <2>2. /\ part \in Seq(Byte) /\ Len(part) = n /\ After(s, n) \in Seq(Byte)
    BY <1>1, <2>1, CutAre
  <2>3. SubSeq(s, 1, n) \o SubSeq(s, n + 1, Len(s)) = SubSeq(s, 1, Len(s))
    <3>1. 1 \in 1 .. Len(s) + 1 /\ n \in 1 - 1 .. Len(s) /\ Len(s) \in n .. Len(s)
      BY <1>1
    <3> QED
      BY <1>1, <3>1, ConcatAdjacentSubSeq
  <2>4. SubSeq(s, 1, Len(s)) = s
    BY <1>1, SubSeqFull
  <2> QED
    BY <2>2, <2>3, <2>4 DEF After
<1>5. Arriving(e) = bytes \o After(s, n)
  <2>1. Arriving(e) = g \o (part \o After(s, n))
    BY <1>4 DEF Arriving, g, s
  <2> HIDE DEF part
  <2> DEFINE r == After(s, n)
  <2>2. r \in Seq(Byte) /\ part \in Seq(Byte)
    BY <1>4
  <2> HIDE DEF r
  <2>3. (g \o part) \o r = g \o (part \o r)
    <3>1. g \in Seq(Byte) /\ part \in Seq(Byte) /\ r \in Seq(Byte)
      BY <1>1, <2>2
    <3> QED
      BY <3>1, ConcatAssociative
  <2> QED
    BY <2>1, <2>3 DEF r
<1> HIDE DEF part
<1>6. /\ bytes \in Seq(Byte) /\ Len(bytes) = Len(g) + n
      /\ \A k \in 1 .. Len(g) : bytes[k] = g[k]
  <2>1. g \in Seq(Byte) /\ part \in Seq(Byte)
    BY <1>1, <1>4
  <2>2. bytes \in Seq(Byte) /\ Len(bytes) = Len(g) + Len(part)
        /\ \A k \in 1 .. Len(g) : bytes[k] = g[k]
    BY <2>1, ConcatAre
  <2> QED
    BY <1>4, <2>2
<1> HIDE DEF bytes
<1>7. /\ Len(bytes) <= Len(Arriving(e))
      /\ \A k \in 1 .. Len(bytes) : bytes[k] = Arriving(e)[k]
  <2> DEFINE r == After(s, n)
  <2>1. bytes \in Seq(Byte) /\ r \in Seq(Byte)
    BY <1>4, <1>6
  <2> HIDE DEF r
  <2>2. /\ Len(bytes) \in Nat /\ Len(r) \in Nat /\ Len(bytes \o r) = Len(bytes) + Len(r)
        /\ \A k \in 1 .. Len(bytes) : (bytes \o r)[k] = bytes[k]
    BY <2>1, ConcatAre
  <2>3. Arriving(e) = bytes \o r
    BY <1>5 DEF r
  <2> QED
    BY <2>2, <2>3
<1>8. IsPart(bytes) \/ (4 <= Len(bytes) /\ Missing(bytes) = 0)
  <2> DEFINE l == Len(g)
             k == Len(bytes)
  <2>1. l \in Nat /\ n \in Nat /\ n > 0 /\ k = l + n
    BY <1>1, <1>6
  <2> HIDE DEF l, k
  <2>2. CASE l < 4
    <3>1. Missing(g) = 4 - l
      BY <2>2 DEF Missing, l
    <3>2. k <= 4
      BY <1>2, <2>1, <3>1
    <3>3. CASE k < 4
      BY <3>3 DEF IsPart, k
    <3>4. CASE k = 4
      <4>1. Missing(bytes) = 4 + Number(bytes) - 4
        BY <3>4 DEF Missing, k
      <4>2. Number(bytes) \in Nat
        <5>1. /\ 1 \in 1 .. Len(bytes) /\ 2 \in 1 .. Len(bytes)
              /\ 3 \in 1 .. Len(bytes) /\ 4 \in 1 .. Len(bytes)
          BY <3>4 DEF k
        <5>2. bytes \in Seq(Byte)
          BY <1>6
        <5>3. bytes[1] \in Byte /\ bytes[2] \in Byte /\ bytes[3] \in Byte /\ bytes[4] \in Byte
          BY <5>1, <5>2, ElementOfSeq
        <5> QED
          BY <5>3, NumberIs
      <4> QED
        BY <3>4, <4>1, <4>2 DEF IsPart, k
    <3> QED
      BY <2>1, <3>2, <3>3, <3>4
  <2>3. CASE l >= 4
    <3>1. Missing(g) = 4 + Number(g) - l
      BY <2>1, <2>3 DEF Missing, l
    <3>2. g[1] \in Byte /\ g[2] \in Byte /\ g[3] \in Byte /\ g[4] \in Byte
      BY <1>1, <2>1, <2>3, ElementOfSeq DEF l
    <3>3. Number(g) \in Nat
      BY <3>2, NumberIs
    <3>4. Number(bytes) = Number(g)
      <4>1. 1 \in 1 .. l /\ 2 \in 1 .. l /\ 3 \in 1 .. l /\ 4 \in 1 .. l
        BY <2>1, <2>3
      <4>2. bytes[1] = g[1] /\ bytes[2] = g[2] /\ bytes[3] = g[3] /\ bytes[4] = g[4]
        BY <1>6, <4>1 DEF l
      <4> QED
        BY <4>2 DEF Number
    <3>5. Missing(bytes) = 4 + Number(g) - k /\ 4 <= k
      BY <2>1, <2>3, <3>4 DEF Missing, k
    <3>6. Missing(bytes) >= 0 /\ Missing(bytes) \in Int
      BY <1>2, <2>1, <3>1, <3>3, <3>5
    <3> QED
      BY <3>5, <3>6 DEF IsPart, k
  <2> QED
    BY <2>1, <2>2, <2>3
<1> QED
  BY <1>1, <1>2, <1>4, <1>5, <1>6, <1>7, <1>8, LenProperties DEF bytes, g, s, part

\* The same goes for an end where what arrives is only read in part.
LEMMA SameInStep ==
    ASSUME NEW e \in End, InStepAt(e),
           Arriving(e)' = Arriving(e), sent'[e] = sent[e],
           e \in spoilt => e \in spoilt', e \in torn' <=> e \in torn,
           reader'[e] \in {"check", "read", "deliver"} => reader[e] \in {"check", "read", "deliver"},
           \A t \in Thread : EndOf(t) = Peer(e) =>
             /\ written'[t] = written[t]
             /\ written[t] > 0 => MessageOf(t)' = MessageOf(t)
    PROVE  InStepAt(e)'
<1> SUFFICES ASSUME e \notin spoilt', reader'[e] \in {"check", "read", "deliver"}
             PROVE  \E cut \in [0 .. Len(sent'[e]) -> 0 .. Len(Arriving(e)')] :
                      InFrames(Arriving(e), sent[e], cut)' /\ Rest(e, cut)'
  BY DEF InStepAt
<1>2. PICK cut \in [0 .. Len(sent[e]) -> 0 .. Len(Arriving(e))] :
        InFrames(Arriving(e), sent[e], cut) /\ Rest(e, cut)
  BY DEF InStepAt
<1>3. InFrames(Arriving(e)', sent'[e], cut)
  BY <1>2
<1>4. Rest(e, cut)'
  <2> DEFINE p == cut[Len(sent[e])]
             n == Len(Arriving(e)) - p
             a == Arriving(e)
  <2>1. /\ \A t \in Thread : EndOf(t) = Peer(e) /\ written[t] > 0 =>
             n = written[t] /\ HasAt(a, p, Frame(MessageOf(t)), n)
        /\ e \in torn =>
             \E m \in Messages : n < Len(Frame(m)) /\ HasAt(a, p, Frame(m), n)
        /\ e \notin torn /\ (\A t \in Thread : EndOf(t) = Peer(e) => written[t] = 0) => n = 0
    BY <1>2 DEF Rest
  <2> HIDE DEF p, n, a
  <2>2. /\ \A t \in Thread : EndOf(t) = Peer(e) /\ written'[t] > 0 =>
             n = written'[t] /\ HasAt(a, p, Frame(MessageOf(t)'), n)
        /\ e \in torn' =>
             \E m \in Messages : n < Len(Frame(m)) /\ HasAt(a, p, Frame(m), n)
        /\ e \notin torn' /\ (\A t \in Thread : EndOf(t) = Peer(e) => written'[t] = 0) => n = 0
    BY <2>1
  <2>3. p = cut[Len(sent'[e])] /\ n = Len(Arriving(e)') - p /\ a = Arriving(e)'
    BY DEF p, n, a
  <2> QED
    BY <2>2, <2>3 DEF Rest, HasAt
<1> QED
  BY <1>2, <1>3, <1>4

\* With no message sent, what arrives is less than a frame.
LEMMA NothingSent ==
    ASSUME TypeOKFraming, Writing, NEW e \in End, Len(sent[e]) = 0,
           \A t \in Thread : written[t] > 0 => MessageOf(t) \in Messages,
           NEW cut, InFrames(Arriving(e), sent[e], cut), Rest(e, cut)
    PROVE  \/ Len(Arriving(e)) = 0
           \/ \E m \in Messages : /\ Len(Arriving(e)) < Len(Frame(m))
                                  /\ HasAt(Arriving(e), 0, Frame(m), Len(Arriving(e)))
<1> DEFINE a == Arriving(e)
           l == Len(a)
<1>1. cut[Len(sent[e])] = 0 /\ l \in Nat
  BY ArrivingIs DEF InFrames
<1>2. /\ \A t \in Thread : EndOf(t) = Peer(e) /\ written[t] > 0 =>
           l = written[t] /\ HasAt(a, 0, Frame(MessageOf(t)), l)
      /\ e \in torn => \E m \in Messages : l < Len(Frame(m)) /\ HasAt(a, 0, Frame(m), l)
      /\ e \notin torn /\ (\A t \in Thread : EndOf(t) = Peer(e) => written[t] = 0) => l = 0
  <2>1. l - 0 = l
    BY <1>1
  <2> QED
    BY <1>1, <2>1 DEF Rest
<1> HIDE DEF l, a
<1>3. ASSUME NEW t \in Thread, EndOf(t) = Peer(e), written[t] > 0
      PROVE  \E m \in Messages : l < Len(Frame(m)) /\ HasAt(a, 0, Frame(m), l)
  <2>1. MessageOf(t) \in Messages /\ l = written[t] /\ HasAt(a, 0, Frame(MessageOf(t)), l)
    BY <1>2, <1>3
  <2>2. out[t] # <<>>
    BY <1>3 DEF Writing
  <2>3. written[t] < Len(Frame(MessageOf(t)))
    BY <2>2 DEF Writing
  <2> QED
    BY <2>1, <2>3
<1>4. \A t \in Thread : written[t] > 0 \/ written[t] = 0
  BY DEF TypeOKFraming
<1> QED
  BY <1>2, <1>3, <1>4 DEF l, a

LEMMA AfterOne ==
    ASSUME NEW S, NEW s \in Seq(S), s # <<>>
    PROVE  After(s, 1) = Tail(s) /\ Head(s) = s[1] /\ s[1] \in S /\ Len(s) > 0 /\ 1 \in DOMAIN s
<1>1. Len(s) \in Nat /\ Len(s) > 0
  BY EmptySeq, LenProperties
<1>2. /\ After(s, 1) \in Seq(S) /\ Len(After(s, 1)) = Len(s) - 1
      /\ \A i \in 1 .. Len(s) - 1 : After(s, 1)[i] = s[1 + i]
  <2>1. 1 \in 0 .. Len(s)
    BY <1>1
  <2> QED
    BY <2>1, CutAre
<1>3. /\ Tail(s) \in Seq(S) /\ Len(Tail(s)) = Len(s) - 1
      /\ \A i \in 1 .. Len(s) - 1 : Tail(s)[i] = s[i + 1]
  BY HeadTailProperties
<1>4. \A i \in 1 .. Len(s) - 1 : i + 1 = 1 + i
  BY <1>1
<1>5. After(s, 1) = Tail(s)
  BY <1>2, <1>3, <1>4, SeqEqual
<1>6. 1 \in 1 .. Len(s) /\ DOMAIN s = 1 .. Len(s)
  BY <1>1, LenProperties
<1> QED
  BY <1>1, <1>5, <1>6, ElementOfSeq

\* What is received is the first message on the stream.
LEMMA Received ==
    ASSUME TypeOKFraming, Writing, Readers, InStep, NEW e \in End, NEW n \in DOMAIN stream[e],
           ReadPart(e, n), sent[e] \in Seq(Messages),
           \A t \in Thread : written[t] > 0 => MessageOf(t) \in Messages,
           NEW bytes, bytes = got[e] \o SubSeq(stream[e], 1, n),
           4 <= Len(bytes), Missing(bytes) = 0
    PROVE  /\ sent[e] # <<>> /\ sent[e][1] \in Messages /\ Len(sent[e]) > 0
           /\ bytes = Frame(sent[e][1])
           /\ Content(bytes) = Head(sent[e])
           /\ Content(bytes) = sent[e][1]
<1>1. reader[e] = "read" /\ e \notin spoilt
  BY DEF ReadPart
<1>2. PICK cut \in [0 .. Len(sent[e]) -> 0 .. Len(Arriving(e))] :
        InFrames(Arriving(e), sent[e], cut) /\ Rest(e, cut)
  BY <1>1 DEF InStep, InStepAt
<1>3. /\ bytes \in Seq(Byte) /\ Len(bytes) \in Nat /\ Len(bytes) <= Len(Arriving(e))
      /\ \A k \in 1 .. Len(bytes) : bytes[k] = Arriving(e)[k]
  BY ReadIs
<1>4. Arriving(e) \in Seq(Byte) /\ Len(sent[e]) \in Nat
  BY ArrivingIs
<1>5. Len(sent[e]) = 0 => Len(Arriving(e)) = 0 \/ \E m \in Messages :
             Len(Arriving(e)) < Len(Frame(m)) /\ HasAt(Arriving(e), 0, Frame(m), Len(Arriving(e)))
  BY <1>2, NothingSent
<1> DEFINE a == Arriving(e)
           s == sent[e]
<1>6. Len(s) > 0 /\ bytes = Frame(s[1])
  <2>1. /\ a \in Seq(Byte) /\ s \in Seq(Messages)
        /\ cut \in [0 .. Len(s) -> 0 .. Len(a)]
        /\ InFrames(a, s, cut)
        /\ Len(s) = 0 => Len(a) = 0 \/ \E m \in Messages : 
             Len(a) < Len(Frame(m)) /\ HasAt(a, 0, Frame(m), Len(a))
        /\ bytes \in Seq(Byte) /\ 4 <= Len(bytes) /\ Len(bytes) <= Len(a)
        /\ \A k \in 1 .. Len(bytes) : bytes[k] = a[k]
        /\ Missing(bytes) = 0
    BY <1>2, <1>3, <1>4, <1>5
  <2> HIDE DEF a, s
  <2> QED
    BY <2>1, FirstFrame
<1>7. s # <<>> /\ s[1] \in Messages /\ Head(s) = s[1]
  <2>1. s # <<>>
    BY <1>6
  <2> QED
    BY <2>1, AfterOne
<1>8. After(Frame(s[1]), 4) = s[1]
  BY <1>7, FramesAre
<1> QED
  BY <1>6, <1>7, <1>8 DEF Content

\* rest is what bytes leave without the first n.
Leaves(bytes, n, rest) ==
    Len(bytes) = n + Len(rest) /\ \A k \in 1 .. Len(rest) : rest[k] = bytes[n + k]

LEMMA RestLeft ==
    ASSUME NEW bytes \in Seq(Byte), NEW n \in Nat, NEW rest \in Seq(Byte), Leaves(bytes, n, rest),
           NEW p \in Nat, n <= p, p <= Len(bytes),
           NEW frame, HasAt(bytes, p, frame, Len(bytes) - p)
    PROVE  HasAt(rest, p - n, frame, Len(bytes) - p)
<1> DEFINE l == Len(rest)
           a == Len(bytes)
           q == p - n
<1>1. l \in Nat /\ a \in Nat /\ a = n + l
  BY LenProperties DEF Leaves
<1> HIDE DEF l, a
<1>3. ASSUME NEW k \in 1 .. a - p
      PROVE  rest[q + k] = frame[k]
  <2>1. q + k \in 1 .. l /\ n + (q + k) = p + k
    BY <1>1
  <2>2. rest[q + k] = bytes[n + (q + k)]
    BY <2>1 DEF l, Leaves
  <2>3. bytes[p + k] = frame[k]
    BY <1>3 DEF HasAt, a
  <2> QED
    BY <2>1, <2>2, <2>3
<1> QED
  BY <1>3 DEF HasAt, a

LEMMA FirstTaken ==
    ASSUME NEW bytes \in Seq(Byte), NEW messages \in Seq(Messages), Len(messages) > 0,
           NEW cut \in [0 .. Len(messages) -> 0 .. Len(bytes)], InFrames(bytes, messages, cut),
           messages[1] \in Messages,
           NEW rest \in Seq(Byte), Leaves(bytes, Len(Frame(messages[1])), rest)
    PROVE  \E cut2 \in [0 .. Len(messages) - 1 -> 0 .. Len(rest)] :
             /\ InFrames(rest, After(messages, 1), cut2)
             /\ cut2[Len(messages) - 1] = cut[Len(messages)] - Len(Frame(messages[1]))
<1> DEFINE n == Len(Frame(messages[1]))
<1>1. n \in Nat
  BY FrameLengths
<1>2. Len(bytes) = n + Len(rest) /\ \A k \in 1 .. Len(rest) : rest[k] = bytes[n + k]
  BY DEF Leaves
<1>3. n = Len(Frame(messages[1]))
  OBVIOUS
<1> HIDE DEF n
<1> QED
  BY <1>1, <1>2, <1>3, FrameTaken

LEMMA ReadInStep ==
    ASSUME TypeOKFraming, Writing, Readers, InStep, NEW e \in End, NEW n \in DOMAIN stream[e],
           ReadPart(e, n), sent[e] \in Seq(Messages),
           \A t \in Thread : written[t] > 0 => MessageOf(t) \in Messages,
           \A t \in Thread : MessageOf(t)' = MessageOf(t)
    PROVE  InStep'
<1> SUFFICES ASSUME NEW d \in End PROVE InStepAt(d)'
  BY DEF InStep
<1> DEFINE bytes == got[e] \o SubSeq(stream[e], 1, n)
           last == 4 <= Len(bytes) /\ Missing(bytes) = 0
<1>1. InStepAt(d) /\ InStepAt(e)
  BY DEF InStep
<1>2. /\ reader[e] = "read" /\ e \notin spoilt
      /\ stream' = [stream EXCEPT ![e] = After(@, n)]
      /\ got' = [got EXCEPT ![e] = IF last THEN <<>> ELSE bytes]
      /\ written' = written /\ torn' = torn /\ spoilt' = spoilt
      /\ last => /\ sent' = [sent EXCEPT ![e] = After(@, 1)]
                 /\ reader' = [reader EXCEPT ![e] = "deliver"]
      /\ ~last => sent' = sent /\ reader' = reader
  <2>1. Len(bytes) >= 4 <=> 4 <= Len(bytes)
    BY ReadIs
  <2> QED
    BY <2>1 DEF ReadPart
<1>3. /\ bytes \in Seq(Byte) /\ Len(bytes) \in Nat /\ Len(bytes) <= Len(Arriving(e))
      /\ \A k \in 1 .. Len(bytes) : bytes[k] = Arriving(e)[k]
      /\ stream'[e] \in Seq(Byte)
      /\ Arriving(e) = bytes \o stream'[e]
  BY ReadIs
<1>4. got'[e] = IF last THEN <<>> ELSE bytes
  BY <1>2 DEF TypeOKFraming
<1> HIDE DEF bytes, last
<1>5. CASE d # e
  <2>1. got'[d] = got[d] /\ stream'[d] = stream[d] /\ sent'[d] = sent[d] /\ reader'[d] = reader[d]
    BY <1>2, <1>5 DEF TypeOKFraming
  <2> QED
    BY <1>1, <1>2, <2>1, InStepKept
<1>6. CASE d = e /\ ~last
  <2>1. Arriving(e)' = Arriving(e)
    BY <1>3, <1>4, <1>6 DEF Arriving
  <2> QED
    BY <1>1, <1>2, <1>6, <2>1, SameInStep
<1>7. CASE d = e /\ last
  <2> DEFINE a == Arriving(e)
             s == sent[e]
             r == stream'[e]
             l == Len(bytes)
             L == Len(s)
  <2>1. PICK cut \in [0 .. L -> 0 .. Len(a)] : InFrames(a, s, cut) /\ Rest(e, cut)
    BY <1>1, <1>2 DEF InStepAt
  <2>2. L > 0 /\ bytes = Frame(s[1])
    BY <1>7, Received DEF last, bytes
  <2>3. Arriving(e)' = r
    <3>1. Arriving(e)' = <<>> \o r
      BY <1>4, <1>7 DEF Arriving
    <3>2. <<>> \o r = r
      BY <1>3, ConcatEmptySeq
    <3> QED
      BY <3>1, <3>2
  <2>4. /\ a \in Seq(Byte) /\ r \in Seq(Byte) /\ s \in Seq(Messages)
        /\ l \in Nat /\ l = Len(Frame(s[1]))
        /\ L \in Nat /\ Len(a) \in Nat
    BY <1>3, <2>2, ArrivingIs, LenProperties
  <2>5. Len(a) = l + Len(r) /\ \A k \in 1 .. Len(r) : r[k] = a[l + k]
    <3>1. a = bytes \o r /\ bytes \in Seq(Byte) /\ r \in Seq(Byte)
      BY <1>3
    <3> HIDE DEF a, r
    <3> QED
      BY <3>1, ConcatAre
  <2>6. sent'[e] = After(s, 1)
    BY <1>2, <1>7 DEF TypeOKFraming
  <2>7. Len(After(s, 1)) = L - 1
    <3>1. 1 \in 0 .. Len(s) /\ s \in Seq(Messages)
      BY <2>2, <2>4
    <3> HIDE DEF s
    <3> QED
      BY <3>1, CutAre
  <2> DEFINE f == Len(Frame(s[1]))
  <2>8. \E cut2 \in [0 .. L - 1 -> 0 .. Len(r)] :
             InFrames(r, After(s, 1), cut2) /\ cut2[L - 1] = cut[L] - f
    <3>1. /\ a \in Seq(Byte) /\ s \in Seq(Messages) /\ Len(s) > 0
          /\ cut \in [0 .. Len(s) -> 0 .. Len(a)] /\ InFrames(a, s, cut)
          /\ s[1] \in Messages
          /\ r \in Seq(Byte) /\ Leaves(a, Len(Frame(s[1])), r)
      BY <2>1, <2>2, <2>4, <2>5, Received, <1>7 DEF Leaves, last, bytes
    <3> HIDE DEF a, r, s
    <3> QED
      BY <3>1, FirstTaken
  <2>9. PICK cut2 \in [0 .. L - 1 -> 0 .. Len(r)] :
             InFrames(r, After(s, 1), cut2) /\ cut2[L - 1] = cut[L] - l
    BY <2>4, <2>8
  <2> DEFINE p == cut[L]
             q == cut2[L - 1]
             w == Len(a) - p
  <2>10. p \in Nat /\ q \in Nat /\ q = p - l /\ p <= Len(a)
    <3>1. L \in 0 .. L /\ L - 1 \in 0 .. L - 1
      BY <2>2, <2>4
    <3>2. p \in 0 .. Len(a) /\ q \in 0 .. Len(r)
      BY <2>1, <2>9, <3>1
    <3>3. Len(r) \in Nat
      BY <2>4, LenProperties
    <3> QED
      BY <2>4, <2>9, <3>2, <3>3
  <2>11. ASSUME NEW frame, HasAt(a, p, frame, w)
         PROVE  HasAt(r, q, frame, w)
    <3>1. l <= p
      BY <2>4, <2>10
    <3>2. Leaves(a, l, r) /\ HasAt(a, p, frame, Len(a) - p)
      BY <2>5, <2>11 DEF Leaves
    <3>3. HasAt(r, p - l, frame, Len(a) - p)
      <4> HIDE DEF a, p, q, r, l
      <4> QED
        BY <2>4, <2>10, <3>1, <3>2, RestLeft
    <3> QED
      BY <2>10, <3>3
  <2>12. Len(r) - q = w
    <3>1. Len(r) \in Nat
      BY <2>4, LenProperties
    <3> HIDE DEF a, p, q, r, l
    <3> QED
      BY <3>1, <2>4, <2>5, <2>10
  <2>13. /\ \A t \in Thread : EndOf(t) = Peer(e) /\ written[t] > 0 =>
             w = written[t] /\ HasAt(a, p, Frame(MessageOf(t)), w)
         /\ e \in torn =>
             \E m \in Messages : w < Len(Frame(m)) /\ HasAt(a, p, Frame(m), w)
         /\ e \notin torn /\ (\A t \in Thread : EndOf(t) = Peer(e) => written[t] = 0) => w = 0
    BY <2>1 DEF Rest
  <2> HIDE DEF a, r, s, p, q, w
  <2>14. /\ \A t \in Thread : EndOf(t) = Peer(e) /\ written'[t] > 0 =>
             Len(r) - q = written'[t] /\ HasAt(r, q, Frame(MessageOf(t)'), Len(r) - q)
         /\ e \in torn' =>
             \E m \in Messages : Len(r) - q < Len(Frame(m)) /\ HasAt(r, q, Frame(m), Len(r) - q)
         /\ e \notin torn' /\ (\A t \in Thread : EndOf(t) = Peer(e) => written'[t] = 0) => Len(r) - q = 0
    <3>1. \A frame : HasAt(a, p, frame, w) => HasAt(r, q, frame, w)
      BY <2>11
    <3> QED
      BY <1>2, <2>12, <2>13, <3>1
  <2>15. r = Arriving(e)' /\ q = cut2[Len(sent'[e])] /\ Len(sent'[e]) = L - 1
    BY <2>3, <2>6, <2>7 DEF q
  <2>16. Rest(e, cut2)'
    BY <2>14, <2>15 DEF Rest
  <2>17. InFrames(Arriving(e)', sent'[e], cut2)
    BY <2>6, <2>9, <2>15
  <2>18. cut2 \in [0 .. Len(sent'[e]) -> 0 .. Len(Arriving(e)')]
    BY <2>9, <2>15
  <2> QED
    BY <1>7, <2>16, <2>17, <2>18 DEF InStepAt
<1> QED
  BY <1>5, <1>6, <1>7

-----------------------------------------------------------------------------
(* Whose the messages are.                                                 *)

LEMMA SeqIn == ASSUME NEW S, NEW T, NEW s \in Seq(S), \A i \in 1 .. Len(s) : s[i] \in T
               PROVE  s \in Seq(T)
<1>1. Len(s) \in Nat /\ s \in [1 .. Len(s) -> S]
  BY LenProperties
<1>2. s \in [1 .. Len(s) -> T]
  BY <1>1
<1> QED
  BY <1>1, <1>2, SeqDef

\* Of each thread that has something left to write.
LEMMA WriterIs ==
    ASSUME Stages, NEW t \in Thread, out[t] # <<>>
    PROVE  /\ MessageOf(t) \in Messages
           /\ caller[t[1]].pc = IF EndOf(t) = "client" THEN "writing" ELSE "sent"
           /\ EndOf(t) = "server" => handler[t[1]].pc = "writing"
<1> DEFINE c == t[1]
<1>1. c \in Caller /\ t = <<c, EndOf(t)>> /\ EndOf(t) \in End
  BY ThreadsAre
<1> HIDE DEF c
<1>2. CASE EndOf(t) = "client"
  <2>1. t = AtClient(c)
    BY <1>1, <1>2 DEF AtClient
  <2>2. caller[c].pc = "writing"
    BY <1>1, <2>1 DEF Stages
  <2>3. MessageOf(t) \in Messages
    BY <1>1, <1>2, <2>2, MessageOfIs
  <2> QED
    BY <1>2, <2>2, <2>3 DEF c
<1>3. CASE EndOf(t) = "server"
  <2>1. t = AtServer(c)
    BY <1>1, <1>3 DEF AtServer
  <2>2. handler[c].pc = "writing"
    BY <1>1, <2>1 DEF Stages
  <2>3. caller[c].pc = "sent" /\ handler[c].outs \in Lists(Functions[caller[c].f].out)
    BY <1>1, <2>2 DEF Stages
  <2>4. MessageOf(t) \in Messages
    BY <1>1, <1>3, <2>3, MessageOfIs
  <2> QED
    BY <1>3, <2>2, <2>3, <2>4 DEF c
<1> QED
  BY <1>1, <1>2, <1>3 DEF End

LEMMA WritersAre ==
    ASSUME Stages, Writing
    PROVE  \A t \in Thread : written[t] > 0 => out[t] # <<>> /\ MessageOf(t) \in Messages
<1> SUFFICES ASSUME NEW t \in Thread, written[t] > 0
             PROVE  out[t] # <<>> /\ MessageOf(t) \in Messages
  OBVIOUS
<1>1. out[t] # <<>>
  BY DEF Writing
<1> QED
  BY <1>1, WriterIs

\* A message on its way to end e.
LEMMA IsMessageIs ==
    ASSUME Stages, NEW e \in End, NEW m, IsMessage(m, e)
    PROVE  /\ m \in Messages /\ m # None
           /\ m[3] = IF e = "server" THEN CmdCall ELSE CmdReturn
           /\ CallerOf(m) \in Caller /\ caller[CallerOf(m)].pc = "sent"
           /\ \A d \in Caller : Of(m, d) <=> d = CallerOf(m)
           /\ m = MessageOf(<<CallerOf(m), Peer(e)>>)
           /\ e = "client" => handler[CallerOf(m)].outs \in Lists(Functions[caller[CallerOf(m)].f].out)
<1>1. PICK c \in Caller : /\ caller[c].pc = "sent"
                          /\ m = MessageOf(<<c, Peer(e)>>)
                          /\ e = "client" => handler[c].outs \in Lists(Functions[caller[c].f].out)
  BY DEF IsMessage
<1>2. Peer(e) \in End /\ (Peer(e) = "server" <=> e = "client") /\ (Peer(e) = "client" <=> e = "server")
  BY DEF Peer, End
<1>3. /\ m \in Messages /\ m # None
      /\ m[3] = IF Peer(e) = "client" THEN CmdCall ELSE CmdReturn
      /\ \A d \in Caller : Of(m, d) <=> d = c
      /\ CallerOf(m) = c
  BY <1>1, <1>2, MessageOfIs
<1> QED
  BY <1>1, <1>2, <1>3

LEMMA SentAre ==
    ASSUME TypeOKFraming, Stages, Genuine, NEW e \in End
    PROVE  /\ sent[e] \in Seq(Messages)
           /\ \A i \in DOMAIN sent[e] : IsMessage(sent[e][i], e)
           /\ inbox[e] # None => IsMessage(inbox[e], e)
<1>1. \A i \in DOMAIN sent[e] : IsMessage(sent[e][i], e)
  BY DEF Genuine
<1>2. sent[e] \in Seq(Seq(Byte)) /\ DOMAIN sent[e] = 1 .. Len(sent[e])
  BY ArrivingIs
<1>3. \A i \in 1 .. Len(sent[e]) : sent[e][i] \in Messages
  BY <1>1, <1>2, IsMessageIs
<1>4. sent[e] \in Seq(Messages)
  BY <1>2, <1>3, SeqIn
<1> QED
  BY <1>1, <1>4 DEF Genuine

\* A step about one caller leaves the messages of the others what they are.
LEMMA IsMessageKept ==
    ASSUME Stages, NEW e \in End, NEW m, IsMessage(m, e), NEW c \in Caller,
           \A d \in Caller \ {c} : caller'[d] = caller[d] /\ handler'[d].outs = handler[d].outs,
           caller[c].pc = "sent" => ~Of(m, c)
    PROVE  IsMessage(m, e)'
<1> DEFINE d == CallerOf(m)
<1>1. /\ d \in Caller /\ caller[d].pc = "sent"
      /\ Of(m, d)
      /\ m = MessageOf(<<d, Peer(e)>>)
      /\ e = "client" => handler[d].outs \in Lists(Functions[caller[d].f].out)
  BY IsMessageIs
<1> HIDE DEF d
<1>2. d # c
  BY <1>1
<1>3. caller'[d] = caller[d] /\ handler'[d].outs = handler[d].outs
  BY <1>1, <1>2
<1>4. m = MessageOf(<<d, Peer(e)>>)'
  BY <1>1, <1>3 DEF MessageOf, EndOf
<1> QED
  BY <1>1, <1>3, <1>4 DEF IsMessage

LEMMA IsMessageSame ==
    ASSUME NEW e \in End, NEW m, IsMessage(m, e),
           \A d \in Caller : caller'[d] = caller[d] /\ handler'[d].outs = handler[d].outs
    PROVE  IsMessage(m, e)'
<1>1. PICK d \in Caller : /\ caller[d].pc = "sent"
                          /\ m = MessageOf(<<d, Peer(e)>>)
                          /\ e = "client" => handler[d].outs \in Lists(Functions[caller[d].f].out)
  BY DEF IsMessage
<1>2. caller'[d] = caller[d] /\ handler'[d].outs = handler[d].outs
  OBVIOUS
<1>3. m = MessageOf(<<d, Peer(e)>>)'
  BY <1>1, <1>2 DEF MessageOf, EndOf
<1> QED
  BY <1>1, <1>2, <1>3 DEF IsMessage

\* The messages of the threads of other callers stay the same.
LEMMA MessageOfKept ==
    ASSUME NEW t \in Thread,
           caller'[t[1]].f = caller[t[1]].f,
           EndOf(t) = "client" => caller'[t[1]].args = caller[t[1]].args,
           EndOf(t) # "client" => handler'[t[1]].outs = handler[t[1]].outs
    PROVE  MessageOf(t)' = MessageOf(t)
BY DEF MessageOf, EndOf

-----------------------------------------------------------------------------
(* Steps that leave part of the invariant alone.                           *)

\* A step of one caller.
LEMMA CallerMoves ==
    ASSUME Shapes, NEW c \in Caller, NEW r, CallerShape(r), caller' = [caller EXCEPT ![c] = r]
    PROVE  /\ caller' = [d \in Caller |-> caller'[d]]
           /\ \A d \in Caller : CallerShape(caller'[d])
           /\ caller'[c] = r
           /\ \A d \in Caller \ {c} : caller'[d] = caller[d]
<1>1. caller = [d \in Caller |-> caller[d]] /\ \A d \in Caller : CallerShape(caller[d])
  BY DEF Shapes
<1>2. caller' = [d \in Caller |-> IF d = c THEN r ELSE caller[d]]
  BY <1>1
<1> QED
  BY <1>1, <1>2

LEMMA HandlerMoves ==
    ASSUME Shapes, NEW c \in Caller, NEW r, HandlerShape(r), handler' = [handler EXCEPT ![c] = r]
    PROVE  /\ handler' = [d \in Caller |-> handler'[d]]
           /\ \A d \in Caller : HandlerShape(handler'[d])
           /\ handler'[c] = r
           /\ \A d \in Caller \ {c} : handler'[d] = handler[d]
<1>1. handler = [d \in Caller |-> handler[d]] /\ \A d \in Caller : HandlerShape(handler[d])
  BY DEF Shapes
<1>2. handler' = [d \in Caller |-> IF d = c THEN r ELSE handler[d]]
  BY <1>1
<1> QED
  BY <1>1, <1>2

\* No stream is written to or read.
LEMMA StillInStep ==
    ASSUME InStep, got' = got, stream' = stream, sent' = sent, spoilt' = spoilt, torn' = torn,
           written' = written,
           \A e \in End : reader'[e] \in {"check", "read", "deliver"} =>
                            reader[e] \in {"check", "read", "deliver"},
           \A t \in Thread : written[t] > 0 => MessageOf(t)' = MessageOf(t)
    PROVE  InStep'
<1> SUFFICES ASSUME NEW e \in End PROVE InStepAt(e)'
  BY DEF InStep
<1>1. InStepAt(e)
  BY DEF InStep
<1> QED
  BY <1>1, InStepKept

\* A caller whose message, or its return, is where it was.
LEMMA OnceKept ==
    ASSUME NEW c \in Caller, OnceAt(c),
           \A e \in End : /\ WithReader(c, e)' <=> WithReader(c, e)
                          /\ \A i : OnStream(c, e, i)' <=> OnStream(c, e, i),
           WithHandler(c)' <=> WithHandler(c),
           Waits(c) => Waits(c)',
           handler'[c].res # "Success" => caller'[c].pc = "sent"
    PROVE  OnceAt(c)'
<1>1. \A e \in End : \A i : OnStream(c, e, i)' => i \in DOMAIN sent[e] /\ OnStream(c, e, i)
  BY DEF OnStream
<1> HIDE DEF OnStream, WithReader, WithHandler, Waits
<1>2. ASSUME NEW e \in End, NEW i \in DOMAIN sent'[e], OnStream(c, e, i)'
      PROVE  /\ Waits(c)'
             /\ ~WithHandler(c)'
             /\ \A g \in End : /\ ~WithReader(c, g)'
                               /\ \A j \in DOMAIN sent'[g] : OnStream(c, g, j)' => g = e /\ j = i
  BY <1>1, <1>2 DEF OnceAt
<1>3. ASSUME NEW e \in End, WithReader(c, e)'
      PROVE  Waits(c)' /\ ~WithHandler(c)' /\ \A g \in End : WithReader(c, g)' => g = e
  BY <1>3 DEF OnceAt
<1>4. WithHandler(c)' => Waits(c)'
  BY DEF OnceAt
<1> QED
  BY <1>2, <1>3, <1>4 DEF OnceAt

LEMMA SomewhereKept ==
    ASSUME NEW c \in Caller, Somewhere(c),
           \A e \in End : /\ WithReader(c, e) => WithReader(c, e)'
                          /\ \A i : OnStream(c, e, i) => OnStream(c, e, i)',
           WithHandler(c) => WithHandler(c)'
    PROVE  Somewhere(c)'
<1>1. \A e \in End : \A i : OnStream(c, e, i) => i \in DOMAIN sent'[e] /\ OnStream(c, e, i)'
  BY DEF OnStream
<1> HIDE DEF OnStream, WithReader, WithHandler
<1> QED
  BY <1>1 DEF Somewhere

\* No message comes or goes.
LEMMA PlacesKept ==
    ASSUME Once, Kept, sent' = sent, inbox' = inbox,
           \A e \in End : state'[e] = "Active" => state[e] = "Active",
           \A c \in Caller : /\ handler'[c].pc # "idle" <=> handler[c].pc # "idle"
                             /\ handler'[c].res = handler[c].res
                             /\ caller'[c].pc = "sent" <=> caller[c].pc = "sent"
    PROVE  Once' /\ Kept'
<1>1. ASSUME NEW c \in Caller
      PROVE  /\ \A e \in End : /\ WithReader(c, e)' <=> WithReader(c, e)
                               /\ \A i : OnStream(c, e, i)' <=> OnStream(c, e, i)
             /\ WithHandler(c)' <=> WithHandler(c)
             /\ Waits(c) <=> Waits(c)'
  BY DEF WithReader, OnStream, WithHandler, Waits, Of
<1>2. ASSUME NEW c \in Caller PROVE OnceAt(c)'
  <2>1. OnceAt(c)
    BY DEF Once
  <2>2. handler'[c].res # "Success" => caller'[c].pc = "sent"
    BY <2>1 DEF OnceAt
  <2> QED
    BY <1>1, <2>1, <2>2, OnceKept
<1>3. ASSUME \A e \in End : state'[e] = "Active", NEW c \in Caller, Waits(c)'
      PROVE  Somewhere(c)'
  <2>1. Waits(c)
    BY <1>1, <1>3
  <2>2. Somewhere(c)
    BY <1>3, <2>1 DEF Kept
  <2> QED
    BY <1>1, <2>2, SomewhereKept
<1> QED
  BY <1>2, <1>3 DEF Once, Kept

\* There are no more callers than thread ids.
LEMMA FewCallers == IsFiniteSet(Caller)
<1> DEFINE n == Short - 1
<1>1. n \in Int
  BY BaseIs
<1> HIDE DEF n
<1>2. IsFiniteSet(0 .. n)
  BY <1>1, FS_Interval
<1>3. Tid \in Injection(Caller, 0 .. n)
  BY StubsAssumption DEF Injection, IsInjective, n
<1> QED
  BY <1>2, <1>3, FS_Injection

LEMMA SeveralKept ==
    ASSUME Several, \A c \in Caller : caller[c].n > 0 => caller'[c].n > 0
    PROVE  Several'
<1> DEFINE S == {c \in Caller : caller[c].n > 0}
           T == {c \in Caller : caller'[c].n > 0}
<1>1. S \in SUBSET T /\ T \in SUBSET Caller
  OBVIOUS
<1> HIDE DEF S, T
<1>2. IsFiniteSet(T)
  BY <1>1, FewCallers, FS_Subset
<1>3. Cardinality(S) <= Cardinality(T) /\ IsFiniteSet(S)
  BY <1>1, <1>2, FS_Subset
<1>4. Cardinality(S) \in Nat /\ Cardinality(T) \in Nat
  BY <1>2, <1>3, FS_CardinalityType
<1>5. Cardinality(S) > 1
  BY DEF Several, S
<1>6. Cardinality(T) > 1
  BY <1>3, <1>4, <1>5
<1> QED
  BY <1>6 DEF Several, T

LEMMA TwoAreSeveral ==
    ASSUME NEW c \in Caller, NEW d \in Caller, c # d, caller[c].n > 0, caller[d].n > 0
    PROVE  Several
<1> DEFINE S == {x \in Caller : caller[x].n > 0}
           T == {c, d}
<1>1. T \in SUBSET S /\ S \in SUBSET Caller
  OBVIOUS
<1> HIDE DEF S
<1>2. IsFiniteSet(S)
  BY <1>1, FewCallers, FS_Subset
<1>3. IsFiniteSet({c}) /\ Cardinality({c}) = 1
  BY FS_Singleton
<1>4. d \notin {c} /\ T = {c} \cup {d}
  OBVIOUS
<1> HIDE DEF T
<1>5. Cardinality(T) = 2
  <2> DEFINE C == {c}
  <2>1. IsFiniteSet(C) /\ Cardinality(C) = 1 /\ d \notin C /\ T = C \cup {d}
    BY <1>3, <1>4
  <2> HIDE DEF C
  <2>2. Cardinality(C \cup {d}) = Cardinality(C) + 1
    BY <2>1, FS_AddElement
  <2> QED
    BY <2>1, <2>2
<1>6. Cardinality(T) <= Cardinality(S) /\ Cardinality(S) \in Nat
  BY <1>1, <1>2, FS_Subset, FS_CardinalityType
<1>7. Cardinality(S) > 1
  BY <1>5, <1>6
<1> QED
  BY <1>7 DEF Several, S

\* Nothing breaks off, and nothing begins anew.
LEMMA TearsKept ==
    ASSUME Tears, SpoiltOnlyIf, torn' = torn, spoilt' = spoilt, whole' = whole,
           \A e \in End : /\ state[e] # "Active" => state'[e] # "Active"
                          /\ state[e] = "ClosedCleanedup" => state'[e] = "ClosedCleanedup",
           \A c \in Caller : caller[c].n > 0 => caller'[c].n > 0,
           \A t \in Thread : out'[t] # <<>> =>
             \/ out[t] # <<>>
             \/ state[EndOf(t)] # "Active" => state[EndOf(t)] = "ClosedCleanedup"
    PROVE  Tears' /\ SpoiltOnlyIf'
<1>1. Several => Several'
  BY SeveralKept
<1>2. \A e \in End : Peer(e) \in End
  BY PeersAre
<1>3. ASSUME NEW e \in End, e \in spoilt'
      PROVE  ~whole' /\ (Several' \/ state'[Peer(e)] = "ClosedCleanedup")
  BY <1>1, <1>2, <1>3 DEF SpoiltOnlyIf, Several
<1>4. SpoiltOnlyIf'
  BY <1>3 DEF SpoiltOnlyIf, Several
<1>5. ASSUME NEW e \in End, e \in torn'
      PROVE  /\ ~whole'
             /\ state'[Peer(e)] # "Active"
             /\ (\E t \in Thread : EndOf(t) = Peer(e) /\ out'[t] # <<>>) =>
                  Several' \/ state'[Peer(e)] = "ClosedCleanedup"
  <2>1. /\ ~whole
        /\ state[Peer(e)] # "Active"
        /\ (\E t \in Thread : EndOf(t) = Peer(e) /\ out[t] # <<>>) =>
             Several \/ state[Peer(e)] = "ClosedCleanedup"
    BY <1>5 DEF Tears
  <2>2. ASSUME NEW t \in Thread, EndOf(t) = Peer(e), out'[t] # <<>>
        PROVE  Several' \/ state'[Peer(e)] = "ClosedCleanedup"
    BY <1>1, <1>2, <2>1, <2>2
  <2> QED
    BY <1>2, <2>1, <2>2
<1>6. Tears'
  BY <1>5 DEF Tears
<1> QED
  BY <1>4, <1>6

-----------------------------------------------------------------------------
(* A stub is called.                                                       *)

LEMMA NamesOfThreads ==
    \A c, d \in Caller : /\ AtClient(c) = AtClient(d) <=> c = d
                         /\ AtServer(c) = AtServer(d) <=> c = d
                         /\ AtClient(c) # AtServer(d)
                         /\ AtClient(c) \in Thread /\ AtServer(c) \in Thread
                         /\ EndOf(AtClient(c)) = "client" /\ EndOf(AtServer(c)) = "server"
                         /\ AtClient(c)[1] = c /\ AtServer(c)[1] = c
BY ThreadsAre DEF AtClient, AtServer, EndOf

LEMMA ThreadIs ==
    ASSUME NEW t \in Thread, NEW c \in Caller, t[1] = c
    PROVE  t = AtClient(c) \/ t = AtServer(c)
BY ThreadsAre DEF AtClient, AtServer, End

\* A whole frame is what is left of it before the first byte is written.
LEMMA FrameWhole ==
    ASSUME NEW m \in Messages
    PROVE  /\ Frame(m) \in Seq(Byte) /\ 0 < Len(Frame(m)) /\ Frame(m) # <<>>
           /\ Frame(m) = After(Frame(m), 0)
<1> DEFINE f == Frame(m)
<1>1. f \in Seq(Byte) /\ Len(f) > 0
  BY FramesAre
<1> HIDE DEF f
<1>2. SubSeq(f, 1, Len(f)) = f
  BY <1>1, SubSeqFull
<1>3. 0 + 1 = 1
  OBVIOUS
<1>4. f = After(f, 0)
  BY <1>2, <1>3 DEF After
<1>5. f # <<>>
  BY <1>1, EmptySeq
<1> QED
  BY <1>1, <1>4, <1>5 DEF f

\* A message is accepted of a thread that has nothing to write.
LEMMA Accepted ==
    ASSUME TypeOKFraming, Writing, NEW t \in Thread, out[t] = <<>>, NEW m \in Messages,
           BeginWrite(t, m), MessageOf(t)' = m,
           \A u \in Thread : u # t /\ out[u] # <<>> => MessageOf(u)' = MessageOf(u)
    PROVE  /\ TypeOKFraming' /\ Writing'
           /\ out'[t] # <<>> /\ \A u \in Thread : u # t => out'[u] = out[u]
<1>1. /\ out' = [out EXCEPT ![t] = Frame(m)]
      /\ UNCHANGED <<whole, state, stream, written, torn, spoilt, reader, got, sent, inbox>>
  BY DEF BeginWrite
<1>2. Frame(m) \in Seq(Byte) /\ 0 < Len(Frame(m)) /\ Frame(m) # <<>> /\ Frame(m) = After(Frame(m), 0)
  BY FrameWhole
<1>3. TypeOKFraming'
  BY <1>1, <1>2 DEF TypeOKFraming
<1>4. out'[t] = Frame(m) /\ \A u \in Thread : u # t => out'[u] = out[u]
  BY <1>1 DEF TypeOKFraming
<1>5. written[t] = 0
  BY DEF Writing
<1>6. ASSUME NEW u \in Thread
      PROVE  /\ out'[u] = <<>> => written'[u] = 0
             /\ out'[u] # <<>> => /\ written'[u] < Len(Frame(MessageOf(u)'))
                                  /\ out'[u] = After(Frame(MessageOf(u)'), written'[u])
             /\ written'[u] > 0 => ~whole'
  <2>1. CASE u = t
    BY <1>1, <1>2, <1>4, <1>5, <2>1
  <2>2. CASE u # t
    BY <1>1, <1>4, <2>2 DEF Writing
  <2> QED
    BY <2>1, <2>2
<1>7. Writing'
  BY <1>6 DEF Writing
<1> QED
  BY <1>2, <1>3, <1>4, <1>7

\* Of a caller that waits for nothing.
LEMMA IdleIs ==
    ASSUME Stages, Once, NEW c \in Caller, caller[c].pc \in {"idle", "back"}
    PROVE  /\ handler[c].pc = "idle" /\ handler[c].res = "Success"
           /\ out[AtClient(c)] = <<>> /\ out[AtServer(c)] = <<>>
           /\ \A t \in Thread : out[t] # <<>> => t[1] # c
<1>1. handler[c].pc = "idle"
  BY DEF Stages
<1>2. handler[c].res = "Success"
  BY DEF Once, OnceAt
<1>3. out[AtClient(c)] = <<>> /\ out[AtServer(c)] = <<>>
  BY <1>1 DEF Stages
<1> QED
  BY <1>1, <1>2, <1>3, ThreadIs

LEMMA CallKeeps ==
    ASSUME StubsInv, NEW c \in Caller, Call(c)
    PROVE  StubsInv'
<1>1. /\ TypeOKFraming /\ Shapes /\ Stages /\ Writing /\ Genuine /\ Once /\ Kept /\ Readers
      /\ Tears /\ SpoiltOnlyIf /\ InStep
  BY DEF StubsInv
<1>2. PICK f \in Uses[c] : \E args \in Lists(Functions[f].in) :
         LET made == [pc |-> "writing", n |-> caller[c].n + 1, f |-> f, args |-> args,
                      res |-> "Success", outs |-> <<>>]
         IN  \/ /\ BeginWrite(AtClient(c), CallMessage(c, f, args))
                /\ caller' = [caller EXCEPT ![c] = made]
             \/ /\ Refuses(AtClient(c))
                /\ caller' = [caller EXCEPT ![c] = [made EXCEPT
                                !.pc = "back", !.res = "Disconnected"]]
                /\ UNCHANGED framing
  BY DEF Call
<1>3. PICK args \in Lists(Functions[f].in) :
         LET made == [pc |-> "writing", n |-> caller[c].n + 1, f |-> f, args |-> args,
                      res |-> "Success", outs |-> <<>>]
         IN  \/ /\ BeginWrite(AtClient(c), CallMessage(c, f, args))
                /\ caller' = [caller EXCEPT ![c] = made]
             \/ /\ Refuses(AtClient(c))
                /\ caller' = [caller EXCEPT ![c] = [made EXCEPT
                                !.pc = "back", !.res = "Disconnected"]]
                /\ UNCHANGED framing
  BY <1>2
<1>4. caller[c].pc \in {"idle", "back"} /\ handler' = handler /\ leaving' = leaving
  BY DEF Call
<1>5. /\ handler[c].pc = "idle" /\ handler[c].res = "Success"
      /\ out[AtClient(c)] = <<>> /\ out[AtServer(c)] = <<>>
      /\ \A t \in Thread : out[t] # <<>> => t[1] # c
  BY <1>1, <1>4, IdleIs
<1> DEFINE m == CallMessage(c, f, args)
           r(pc, res) == [pc |-> pc, n |-> caller[c].n + 1, f |-> f, args |-> args,
                          res |-> res, outs |-> <<>>]
<1>6. f \in DOMAIN Functions /\ m \in Messages
  <2>1. f \in DOMAIN Functions
    BY StubsAssumption
  <2> QED
    BY <2>1, CallMessageIs
<1>7. caller[c].n + 1 \in Nat /\ caller[c].n + 1 > 0
  BY <1>1 DEF Shapes, CallerShape
<1>8. \/ BeginWrite(AtClient(c), m) /\ caller' = [caller EXCEPT ![c] = r("writing", "Success")]
      \/ UNCHANGED framing /\ caller' = [caller EXCEPT ![c] = r("back", "Disconnected")]
  BY <1>3
<1>9. PICK pc \in {"writing", "back"}, res \in {"Success", "Disconnected"} :
        /\ caller' = [caller EXCEPT ![c] = r(pc, res)]
        /\ \/ pc = "writing" /\ BeginWrite(AtClient(c), m)
           \/ pc = "back" /\ UNCHANGED framing
  BY <1>8
<1>10. CallerShape(r(pc, res))
  BY <1>7 DEF CallerShape, CallerPC
<1>11. /\ caller' = [d \in Caller |-> caller'[d]]
       /\ \A d \in Caller : CallerShape(caller'[d])
       /\ caller'[c] = r(pc, res)
       /\ \A d \in Caller \ {c} : caller'[d] = caller[d]
  BY <1>1, <1>9, <1>10, CallerMoves
<1>12. Shapes'
  BY <1>1, <1>4, <1>11 DEF Shapes
<1>13. \A t \in Thread : t[1] # c => MessageOf(t)' = MessageOf(t)
  BY <1>4, <1>11, ThreadsAre, MessageOfKept
<1>14. UNCHANGED <<whole, state, stream, written, torn, spoilt, reader, got, sent, inbox>>
  BY <1>9 DEF BeginWrite, framing
<1>15. caller'[c].pc = pc /\ caller'[c].n > 0 /\ caller'[c].f = f /\ caller'[c].args = args
  BY <1>7, <1>11
<1>16. /\ TypeOKFraming' /\ Writing'
       /\ out'[AtClient(c)] # <<>> <=> pc = "writing"
       /\ \A u \in Thread : u # AtClient(c) => out'[u] = out[u]
  <2>1. CASE pc = "writing"
    <3>1. BeginWrite(AtClient(c), m)
      BY <1>9, <2>1
    <3>2. MessageOf(AtClient(c))' = m
      BY <1>15, NamesOfThreads DEF MessageOf
    <3>3. AtClient(c) \in Thread
      BY NamesOfThreads
    <3> HIDE DEF m
    <3> QED
      BY <1>1, <1>5, <1>6, <1>13, <2>1, <3>1, <3>2, <3>3, Accepted
  <2>2. CASE pc = "back"
    <3>1. out' = out
      BY <1>9, <2>2 DEF framing, BeginWrite
    <3>2. TypeOKFraming'
      BY <1>1, <1>14, <3>1 DEF TypeOKFraming
    <3>3. Writing'
      BY <1>1, <1>5, <1>13, <1>14, <3>1 DEF Writing
    <3> QED
      BY <1>5, <2>2, <3>1, <3>2, <3>3
  <2> QED
    BY <2>1, <2>2
<1> HIDE DEF m, r
<1>17. Stages'
  <2> SUFFICES ASSUME NEW d \in Caller
               PROVE  /\ caller'[d].pc # "idle" =>
                           /\ caller'[d].n > 0
                           /\ caller'[d].f \in DOMAIN Functions
                           /\ caller'[d].args \in Lists(Functions[caller'[d].f].in)
                      /\ handler'[d].pc # "idle" => caller'[d].pc = "sent"
                      /\ handler'[d].pc = "writing" =>
                           handler'[d].outs \in Lists(Functions[caller'[d].f].out)
                      /\ out'[AtClient(d)] # <<>> <=> caller'[d].pc = "writing"
                      /\ out'[AtServer(d)] # <<>> <=> handler'[d].pc = "writing"
    BY DEF Stages
  <2>1. CASE d = c
    BY <1>4, <1>5, <1>6, <1>15, <1>16, <2>1, NamesOfThreads
  <2>2. CASE d # c
    <3>1. caller'[d] = caller[d] /\ out'[AtClient(d)] = out[AtClient(d)] /\ out'[AtServer(d)] = out[AtServer(d)]
      BY <1>11, <1>16, <2>2, NamesOfThreads
    <3> QED
      BY <1>1, <1>4, <3>1 DEF Stages
  <2> QED
    BY <2>1, <2>2
<1>18. Genuine'
  <2>1. ASSUME NEW e \in End, NEW x, IsMessage(x, e) PROVE IsMessage(x, e)'
    BY <1>1, <1>4, <1>11, <2>1, IsMessageKept
  <2> QED
    BY <1>1, <1>14, <2>1 DEF Genuine
<1>19. Once' /\ Kept'
  <2>1. \A d \in Caller : caller'[d].pc = "sent" <=> caller[d].pc = "sent"
    BY <1>4, <1>11, <1>15
  <2> QED
    BY <1>1, <1>4, <1>14, <2>1, PlacesKept
<1>20. Readers'
  BY <1>1, <1>14 DEF Readers
<1>21. Tears' /\ SpoiltOnlyIf'
  <2>1. \A d \in Caller : caller[d].n > 0 => caller'[d].n > 0
    BY <1>11, <1>15
  <2>2. ASSUME NEW t \in Thread, out'[t] # <<>>
        PROVE  out[t] # <<>> \/ (state[EndOf(t)] # "Active" => state[EndOf(t)] = "ClosedCleanedup")
    <3>1. CASE t # AtClient(c)
      BY <1>16, <2>2, <3>1
    <3>2. CASE t = AtClient(c)
      <4>1. ~Refuses(t)
        BY <1>9, <1>16, <2>2, <3>2 DEF BeginWrite
      <4>2. EndOf(t) \in End
        BY ThreadsAre
      <4> QED
        BY <1>1, <4>1, <4>2 DEF Refuses, TypeOKFraming
    <3> QED
      BY <3>1, <3>2
  <2> QED
    BY <1>1, <1>14, <2>1, <2>2, TearsKept
<1>22. InStep'
  <2>1. \A t \in Thread : written[t] > 0 => MessageOf(t)' = MessageOf(t)
    BY <1>1, <1>5, <1>13, WritersAre
  <2> QED
    BY <1>1, <1>14, <2>1, StillInStep
<1> QED
  BY <1>12, <1>16, <1>17, <1>18, <1>19, <1>20, <1>21, <1>22 DEF StubsInv

-----------------------------------------------------------------------------
(* A call of RawIO::write.                                                 *)

LEMMA WriteTypes ==
    ASSUME TypeOKFraming, Writing, NEW t \in Thread, MessageOf(t) \in Messages,
           NEW n \in DOMAIN out[t], WritePart(t, n), sent' \in [End -> Seq(Seq(Byte))]
    PROVE  TypeOKFraming'
<1> DEFINE e == Peer(EndOf(t))
           part == SubSeq(out[t], 1, n)
<1>1. e \in End /\ part \in Seq(Byte) /\ out'[t] \in Seq(Byte)
  BY PartIs
<1>2. stream[e] \in Seq(Byte)
  BY <1>1 DEF TypeOKFraming
<1>3. stream[e] \o part \in Seq(Byte)
  <2> DEFINE s == stream[e]
  <2>1. s \in Seq(Byte) /\ part \in Seq(Byte)
    BY <1>1, <1>2
  <2> HIDE DEF s, part
  <2>2. s \o part \in Seq(Byte)
    BY <2>1, ConcatAre
  <2> QED
    BY <2>2 DEF s
<1> HIDE DEF e, part
<1>4. stream' \in [End -> Seq(Byte)]
  BY <1>1, <1>3 DEF WritePart, TypeOKFraming, e, part
<1>5. out' \in [Thread -> Seq(Byte)]
  <2>1. out' = [out EXCEPT ![t] = out'[t]]
    BY DEF WritePart, TypeOKFraming
  <2> QED
    BY <1>1, <2>1 DEF TypeOKFraming
<1>6. written' \in [Thread -> Nat]
  <2>1. n \in Nat
    BY PartIs
  <2> QED
    BY <2>1 DEF WritePart, TypeOKFraming
<1>7. spoilt' \subseteq End
  BY <1>1 DEF WritePart, TypeOKFraming, e
<1> QED
  BY <1>4, <1>5, <1>6, <1>7 DEF WritePart, TypeOKFraming

LEMMA WriteWriting ==
    ASSUME TypeOKFraming, Writing, NEW t \in Thread, MessageOf(t) \in Messages,
           NEW n \in DOMAIN out[t], WritePart(t, n),
           out'[t] # <<>> => MessageOf(t)' = MessageOf(t),
           \A u \in Thread : u # t /\ out[u] # <<>> => MessageOf(u)' = MessageOf(u)
    PROVE  /\ Writing'
           /\ \A u \in Thread : u # t => out'[u] = out[u]
           /\ out[t] # <<>>
<1>1. /\ n \in Nat /\ n > 0 /\ written[t] \in Nat /\ written[t] + n <= Len(Frame(MessageOf(t)))
      /\ out'[t] = <<>> <=> written[t] + n = Len(Frame(MessageOf(t)))
      /\ out'[t] # <<>> => /\ written'[t] = written[t] + n
                           /\ out'[t] = After(Frame(MessageOf(t)), written'[t])
                           /\ ~whole
      /\ out'[t] = <<>> => written'[t] = 0
  BY PartIs
<1>2. \A u \in Thread : u # t => out'[u] = out[u] /\ written'[u] = written[u]
  BY DEF WritePart, TypeOKFraming
<1>3. whole' = whole
  BY DEF WritePart
<1>4. ASSUME NEW u \in Thread
      PROVE  /\ out'[u] = <<>> => written'[u] = 0
             /\ out'[u] # <<>> => /\ written'[u] < Len(Frame(MessageOf(u)'))
                                  /\ out'[u] = After(Frame(MessageOf(u)'), written'[u])
             /\ written'[u] > 0 => ~whole'
  <2>1. CASE u = t /\ out'[u] = <<>>
    BY <1>1, <2>1
  <2>2. CASE u = t /\ out'[u] # <<>>
    <3>1. Len(Frame(MessageOf(t))) \in Nat
      BY FrameLengths
    <3>2. written'[t] < Len(Frame(MessageOf(t)))
      BY <1>1, <2>2, <3>1
    <3> QED
      BY <1>1, <1>3, <2>2, <3>2
  <2>3. CASE u # t
    BY <1>2, <1>3, <2>3 DEF Writing
  <2> QED
    BY <2>1, <2>2, <2>3
<1>5. Writing'
  BY <1>4 DEF Writing
<1> QED
  BY <1>2, <1>5

\* A frame that begins amidst another is that of another caller, or is written
\* after the cleanup.
LEMMA WriteTears ==
    ASSUME TypeOKFraming, Shapes, Stages, Writing, Tears, SpoiltOnlyIf, NEW t \in Thread,
           NEW n \in DOMAIN out[t], WritePart(t, n), out[t] # <<>>,
           \A u \in Thread : u # t => out'[u] = out[u],
           \A c \in Caller : caller[c].n > 0 => caller'[c].n > 0
    PROVE  Tears' /\ SpoiltOnlyIf'
<1> DEFINE e == Peer(EndOf(t))
<1>1. e \in End /\ Peer(e) = EndOf(t) /\ \A g \in End : Peer(g) \in End
  BY ThreadsAre, PeersAre
<1>2. /\ torn' = torn /\ state' = state /\ whole' = whole
      /\ spoilt' = IF Amidst(t, e) THEN spoilt \cup {e} ELSE spoilt
  BY DEF WritePart
<1> HIDE DEF e
<1>3. Several => Several'
  BY SeveralKept
<1>4. ASSUME Amidst(t, e)
      PROVE  ~whole /\ (Several \/ state[Peer(e)] = "ClosedCleanedup")
  <2>1. CASE e \in torn
    BY <1>1, <2>1 DEF Tears
  <2>2. ASSUME NEW u \in Thread \ {t}, EndOf(u) = EndOf(t), written[u] > 0
        PROVE  ~whole /\ Several
    <3>1. u[1] \in Caller /\ t[1] \in Caller /\ u[1] # t[1]
      BY <2>2, ThreadsAre
    <3>2. out[u] # <<>> /\ ~whole
      BY <2>2 DEF Writing
    <3>3. caller[u[1]].pc # "idle" /\ caller[t[1]].pc # "idle"
      BY <3>2, WriterIs
    <3>4. caller[u[1]].n > 0 /\ caller[t[1]].n > 0
      BY <3>1, <3>3 DEF Stages
    <3> QED
      BY <3>1, <3>2, <3>4, TwoAreSeveral
  <2> QED
    BY <1>4, <2>1, <2>2 DEF Amidst
<1>5. ASSUME NEW g \in End, g \in spoilt'
      PROVE  ~whole' /\ (Several' \/ state'[Peer(g)] = "ClosedCleanedup")
  <2>1. CASE g \in spoilt
    BY <1>2, <1>3, <2>1 DEF SpoiltOnlyIf, Several
  <2>2. CASE g \notin spoilt
    <3>1. g = e /\ Amidst(t, e)
      BY <1>2, <1>5, <2>2
    <3> QED
      BY <1>2, <1>3, <1>4, <3>1
  <2> QED
    BY <2>1, <2>2
<1>6. SpoiltOnlyIf'
  BY <1>5 DEF SpoiltOnlyIf, Several
<1>7. ASSUME NEW g \in End, g \in torn'
      PROVE  /\ ~whole'
             /\ state'[Peer(g)] # "Active"
             /\ (\E u \in Thread : EndOf(u) = Peer(g) /\ out'[u] # <<>>) =>
                  Several' \/ state'[Peer(g)] = "ClosedCleanedup"
  <2>1. /\ ~whole
        /\ state[Peer(g)] # "Active"
        /\ (\E u \in Thread : EndOf(u) = Peer(g) /\ out[u] # <<>>) =>
             Several \/ state[Peer(g)] = "ClosedCleanedup"
    BY <1>2, <1>7 DEF Tears
  <2>2. ASSUME NEW u \in Thread, EndOf(u) = Peer(g), out'[u] # <<>>
        PROVE  Several' \/ state'[Peer(g)] = "ClosedCleanedup"
    <3>1. out[u] # <<>>
      BY <2>2
    <3> QED
      BY <1>2, <1>3, <2>1, <2>2, <3>1
  <2> QED
    BY <1>2, <2>1, <2>2
<1>8. Tears'
  BY <1>7 DEF Tears
<1> QED
  BY <1>6, <1>8

\* A message is put behind those sent.
LEMMA Appended ==
    ASSUME TypeOKFraming, NEW e \in End, NEW m \in Messages,
           sent' = [sent EXCEPT ![e] = Append(@, m)]
    PROVE  /\ sent' \in [End -> Seq(Seq(Byte))]
           /\ \A g \in End : \A i :
                i \in DOMAIN sent'[g] <=> i \in DOMAIN sent[g] \/ (g = e /\ i = Len(sent[e]) + 1)
           /\ \A g \in End : \A i \in DOMAIN sent[g] : sent'[g][i] = sent[g][i]
           /\ sent'[e][Len(sent[e]) + 1] = m
           /\ Len(sent[e]) + 1 \notin DOMAIN sent[e]
<1> DEFINE s == sent[e]
<1>1. s \in Seq(Seq(Byte)) /\ m \in Seq(Byte)
  BY MessagesAre DEF TypeOKFraming
<1>2. sent'[e] = Append(s, m) /\ \A g \in End \ {e} : sent'[g] = sent[g]
  BY DEF TypeOKFraming
<1> HIDE DEF s
<1>3. /\ Append(s, m) \in Seq(Seq(Byte))
      /\ Len(Append(s, m)) = Len(s) + 1
      /\ \A i \in 1 .. Len(s) : Append(s, m)[i] = s[i]
      /\ Append(s, m)[Len(s) + 1] = m
  BY <1>1, AppendProperties
<1>4. /\ Len(s) \in Nat /\ DOMAIN s = 1 .. Len(s)
      /\ DOMAIN Append(s, m) = 1 .. Len(s) + 1
  BY <1>1, <1>3, LenProperties
<1>5. sent' \in [End -> Seq(Seq(Byte))]
  BY <1>1, <1>3 DEF TypeOKFraming, s
<1>6. \A i : i \in DOMAIN Append(s, m) <=> i \in DOMAIN s \/ i = Len(s) + 1
  BY <1>4
<1>7. Len(s) + 1 \notin DOMAIN s
  BY <1>4
<1>8. \A i \in DOMAIN s : Append(s, m)[i] = s[i]
  BY <1>3, <1>4
<1>9. ASSUME NEW g \in End, NEW i
      PROVE  /\ i \in DOMAIN sent'[g] <=> i \in DOMAIN sent[g] \/ (g = e /\ i = Len(s) + 1)
             /\ i \in DOMAIN sent[g] => sent'[g][i] = sent[g][i]
  <2>1. CASE g = e
    BY <1>2, <1>6, <1>8, <2>1 DEF s
  <2>2. CASE g # e
    BY <1>2, <2>2
  <2> QED
    BY <2>1, <2>2
<1>10. sent'[e][Len(s) + 1] = m
  BY <1>2, <1>3
<1> QED
  BY <1>5, <1>7, <1>9, <1>10 DEF s

LEMMA SentByWrite ==
    ASSUME TypeOKFraming, Genuine, Stages, NEW e \in End, NEW m \in Messages,
           sent' = [sent EXCEPT ![e] = Append(@, m)], inbox' = inbox,
           IsMessage(m, e)',
           NEW c \in Caller, \A d \in Caller : Of(m, d) <=> d = c,
           \A g \in End : \A i : ~OnStream(c, g, i),
           \A g \in End : \A x : IsMessage(x, g) => IsMessage(x, g)'
    PROVE  /\ Genuine'
           /\ \A g \in End : \A i : OnStream(c, g, i)' <=> g = e /\ i = Len(sent[e]) + 1
           /\ \A d \in Caller \ {c} : \A g \in End : \A i : OnStream(d, g, i)' <=> OnStream(d, g, i)
           /\ \A d \in Caller : \A g \in End : WithReader(d, g)' <=> WithReader(d, g)
<1>1. /\ \A g \in End : \A i :
           i \in DOMAIN sent'[g] <=> i \in DOMAIN sent[g] \/ (g = e /\ i = Len(sent[e]) + 1)
      /\ \A g \in End : \A i \in DOMAIN sent[g] : sent'[g][i] = sent[g][i]
      /\ sent'[e][Len(sent[e]) + 1] = m
      /\ Len(sent[e]) + 1 \notin DOMAIN sent[e]
  BY Appended
<1>2. Genuine'
  <2>1. ASSUME NEW g \in End, NEW i \in DOMAIN sent'[g], NEW x, x = sent'[g][i]
        PROVE  IsMessage(x, g)'
    <3>1. CASE i \in DOMAIN sent[g]
      <4>1. IsMessage(x, g)
        BY <1>1, <2>1, <3>1 DEF Genuine
      <4> QED
        BY <4>1
    <3>2. CASE g = e /\ i = Len(sent[e]) + 1
      <4>1. x = m
        BY <1>1, <2>1, <3>2
      <4> QED
        BY <3>2, <4>1
    <3> QED
      BY <1>1, <3>1, <3>2
  <2>2. ASSUME NEW g \in End, NEW x, x = inbox'[g], x # None PROVE IsMessage(x, g)'
    BY <2>2 DEF Genuine
  <2> QED
    BY <2>1, <2>2 DEF Genuine, IsMessage
<1>3. ASSUME NEW d \in Caller, NEW g \in End, NEW i
      PROVE  OnStream(d, g, i)' <=> OnStream(d, g, i) \/ (d = c /\ g = e /\ i = Len(sent[e]) + 1)
  <2>1. CASE i \in DOMAIN sent[g]
    BY <1>1, <2>1 DEF OnStream, Of
  <2>2. CASE i \notin DOMAIN sent[g]
    <3>1. ~OnStream(d, g, i)
      BY <2>2 DEF OnStream
    <3>2. OnStream(d, g, i)' <=> g = e /\ i = Len(sent[e]) + 1 /\ Of(m, d)
      BY <1>1, <2>2 DEF OnStream, Of
    <3> QED
      BY <3>1, <3>2
  <2> QED
    BY <2>1, <2>2
<1>4. \A d \in Caller : \A g \in End : WithReader(d, g)' <=> WithReader(d, g)
  BY DEF WithReader, Of
<1> QED
  BY <1>2, <1>3, <1>4

-----------------------------------------------------------------------------
(* A call and its return are written.                                      *)

LEMMA SameMessages ==
    ASSUME \A d \in Caller : caller'[d] = caller[d] /\ handler'[d].outs = handler[d].outs
    PROVE  /\ \A t \in Thread : MessageOf(t)' = MessageOf(t)
           /\ \A e \in End : \A m : IsMessage(m, e) => IsMessage(m, e)'
<1>1. \A t \in Thread : MessageOf(t)' = MessageOf(t)
  BY ThreadsAre, MessageOfKept
<1> QED
  BY <1>1, IsMessageSame

\* Of a caller that waits for no return.
LEMMA NowhereIs ==
    ASSUME Once, NEW c \in Caller, ~Waits(c)
    PROVE  /\ ~WithHandler(c)
           /\ \A e \in End : ~WithReader(c, e)
           /\ \A e \in End : \A i : ~OnStream(c, e, i)
<1>1. OnceAt(c)
  BY DEF Once
<1>2. \A e \in End : \A i : OnStream(c, e, i) => i \in DOMAIN sent[e]
  BY DEF OnStream
<1> HIDE DEF OnStream, WithReader, WithHandler, Waits
<1> QED
  BY <1>1, <1>2 DEF OnceAt

LEMMA WriteCallKeeps ==
    ASSUME StubsInv, NEW c \in Caller, WriteCall(c)
    PROVE  StubsInv'
<1>1. /\ TypeOKFraming /\ Shapes /\ Stages /\ Writing /\ Genuine /\ Once /\ Kept /\ Readers
      /\ Tears /\ SpoiltOnlyIf /\ InStep
  BY DEF StubsInv
<1> DEFINE t == AtClient(c)
<1>0. PICK m : m = MessageOf(t)
  OBVIOUS
<1>2. PICK n \in DOMAIN out[t] : WritePart(t, n)
  BY DEF WriteCall
<1>3. /\ IF out'[t] = <<>>
         THEN Sends(t, m) /\ caller' = [caller EXCEPT ![c].pc = "sent"]
         ELSE sent' = sent /\ caller' = caller
      /\ handler' = handler /\ leaving' = leaving
  BY <1>0, NamesOfThreads DEF WriteCall, SendsNothing, MessageOf
<1>4. t \in Thread /\ EndOf(t) = "client" /\ t[1] = c /\ Peer(EndOf(t)) = "server" /\ t = <<c, "client">>
  BY NamesOfThreads DEF Peer, AtClient
<1> HIDE DEF t
<1>5. out[t] # <<>>
  <2>1. out[t] \in Seq(Byte)
    BY <1>1, <1>4 DEF TypeOKFraming
  <2> QED
    BY <1>2, <2>1, EmptySeq
<1>6. caller[c].pc = "writing" /\ m \in Messages
  BY <1>0, <1>1, <1>4, <1>5, WriterIs
<1>7. handler[c].pc = "idle" /\ handler[c].res = "Success"
  BY <1>1, <1>6 DEF Stages, Once, OnceAt
<1>8. /\ state' = state /\ whole' = whole /\ torn' = torn /\ reader' = reader /\ got' = got
      /\ inbox' = inbox
  BY <1>2 DEF WritePart
<1>9. \A d \in Caller : caller[d].n > 0 => caller'[d].n > 0
  <2>1. CASE caller' = caller
    BY <2>1
  <2>2. CASE caller' = [caller EXCEPT ![c].pc = "sent"]
    BY <1>1, <2>2 DEF Shapes, CallerShape
  <2> QED
    BY <1>3, <2>1, <2>2
<1>10. Tears' /\ SpoiltOnlyIf'
  <2>1. \A u \in Thread : u # t => out'[u] = out[u]
    BY <1>1, <1>2, <1>4 DEF WritePart, TypeOKFraming
  <2> QED
    BY <1>1, <1>2, <1>4, <1>5, <1>9, <2>1, WriteTears
<1>11. Readers'
  BY <1>1, <1>8 DEF Readers
<1>12. \A e \in End : sent[e] \in Seq(Messages)
  BY <1>1, SentAre
<1>13. CASE out'[t] # <<>>
  <2>1. sent' = sent /\ caller' = caller
    BY <1>3, <1>13
  <2>2. /\ \A u \in Thread : MessageOf(u)' = MessageOf(u)
        /\ \A e \in End : \A x : IsMessage(x, e) => IsMessage(x, e)'
    BY <1>3, <2>1, SameMessages
  <2>3. TypeOKFraming'
    <3>1. sent' \in [End -> Seq(Seq(Byte))]
      BY <1>1, <2>1 DEF TypeOKFraming
    <3> QED
      BY <1>0, <1>1, <1>2, <1>4, <1>6, <3>1, WriteTypes
  <2>4. Shapes'
    BY <1>1, <1>3, <2>1 DEF Shapes
  <2>5. Writing' /\ \A u \in Thread : u # t => out'[u] = out[u]
    BY <1>0, <1>1, <1>2, <1>4, <1>6, <2>2, WriteWriting
  <2>6. Stages'
    <3>1. \A d \in Caller : /\ out'[AtClient(d)] # <<>> <=> out[AtClient(d)] # <<>>
                            /\ out'[AtServer(d)] = out[AtServer(d)]
      BY <1>5, <1>13, <2>5, NamesOfThreads DEF t
    <3> QED
      BY <1>1, <1>3, <2>1, <3>1 DEF Stages
  <2>7. Genuine'
    BY <1>1, <1>8, <2>1, <2>2 DEF Genuine
  <2>8. Once' /\ Kept'
    BY <1>1, <1>3, <1>8, <2>1, PlacesKept
  <2>9. InStep'
    BY <1>0, <1>1, <1>2, <1>4, <1>6, <1>12, <1>13, <2>1, <2>2, MidInStep
  <2> QED
    BY <1>10, <1>11, <2>3, <2>4, <2>5, <2>6, <2>7, <2>8, <2>9 DEF StubsInv
<1>14. CASE out'[t] = <<>>
  <2>1. /\ Sends(t, m) /\ caller' = [caller EXCEPT ![c].pc = "sent"]
        /\ sent' = [sent EXCEPT !["server"] = Append(@, m)]
    BY <1>3, <1>4, <1>14 DEF Sends
  <2> DEFINE r == [caller[c] EXCEPT !.pc = "sent"]
  <2>2. CallerShape(r) /\ caller' = [caller EXCEPT ![c] = r]
    BY <1>1, <2>1 DEF Shapes, CallerShape, CallerPC
  <2>3. /\ caller' = [d \in Caller |-> caller'[d]]
        /\ \A d \in Caller : CallerShape(caller'[d])
        /\ caller'[c] = r
        /\ \A d \in Caller \ {c} : caller'[d] = caller[d]
    BY <1>1, <2>2, CallerMoves
  <2>4. /\ caller'[c].pc = "sent" /\ caller'[c].n = caller[c].n /\ caller'[c].f = caller[c].f
        /\ caller'[c].args = caller[c].args
    BY <1>1, <2>3 DEF Shapes, CallerShape
  <2> HIDE DEF r
  <2>5. Shapes'
    BY <1>1, <1>3, <2>3 DEF Shapes
  <2>6. \A u \in Thread : MessageOf(u)' = MessageOf(u)
    <3> SUFFICES ASSUME NEW u \in Thread PROVE MessageOf(u)' = MessageOf(u)
      OBVIOUS
    <3>1. u[1] \in Caller
      BY ThreadsAre
    <3>2. caller'[u[1]].f = caller[u[1]].f /\ caller'[u[1]].args = caller[u[1]].args
      BY <2>3, <2>4, <3>1
    <3> QED
      BY <1>3, <3>2, MessageOfKept
  <2>7. sent' \in [End -> Seq(Seq(Byte))]
    <3>1. "server" \in End
      BY DEF End
    <3> QED
      BY <1>1, <1>6, <2>1, <3>1, Appended
  <2>8. TypeOKFraming'
    BY <1>0, <1>1, <1>2, <1>4, <1>6, <2>7, WriteTypes
  <2>9. Writing' /\ \A u \in Thread : u # t => out'[u] = out[u]
    BY <1>0, <1>1, <1>2, <1>4, <1>6, <2>6, WriteWriting
  <2>10. Stages'
    <3> SUFFICES ASSUME NEW d \in Caller
                 PROVE  /\ caller'[d].pc # "idle" =>
                             /\ caller'[d].n > 0
                             /\ caller'[d].f \in DOMAIN Functions
                             /\ caller'[d].args \in Lists(Functions[caller'[d].f].in)
                        /\ handler'[d].pc # "idle" => caller'[d].pc = "sent"
                        /\ handler'[d].pc = "writing" =>
                             handler'[d].outs \in Lists(Functions[caller'[d].f].out)
                        /\ out'[AtClient(d)] # <<>> <=> caller'[d].pc = "writing"
                        /\ out'[AtServer(d)] # <<>> <=> handler'[d].pc = "writing"
      BY DEF Stages
    <3>1. CASE d = c
      <4>1. out'[AtClient(d)] = <<>> /\ out'[AtServer(d)] = out[AtServer(d)]
        BY <1>14, <2>9, <3>1, NamesOfThreads DEF t
      <4> QED
        BY <1>1, <1>3, <1>6, <1>7, <2>4, <3>1, <4>1 DEF Stages
    <3>2. CASE d # c
      <4>1. caller'[d] = caller[d] /\ out'[AtClient(d)] = out[AtClient(d)] /\ out'[AtServer(d)] = out[AtServer(d)]
        BY <2>3, <2>9, <3>2, NamesOfThreads DEF t
      <4> QED
        BY <1>1, <1>3, <4>1 DEF Stages
    <3> QED
      BY <3>1, <3>2
  <2>11. IsMessage(m, "server")'
    <3>1. m = MessageOf(<<c, Peer("server")>>)'
      BY <1>0, <1>4, <2>6 DEF Peer
    <3> QED
      BY <2>4, <3>1 DEF IsMessage
  <2>12. \A e \in End : \A x : IsMessage(x, e) => IsMessage(x, e)'
    BY <1>1, <1>3, <1>6, <2>3, IsMessageKept
  <2>13. \A d \in Caller : Of(m, d) <=> d = c
    <3>1. m = MessageOf(<<c, "client">>) /\ "client" \in End
      BY <1>0, <1>4 DEF End
    <3> QED
      BY <1>1, <1>6, <3>1, MessageOfIs
  <2>14. ~WithHandler(c) /\ \A e \in End : ~WithReader(c, e) /\ \A i : ~OnStream(c, e, i)
    <3>1. ~Waits(c)
      BY <1>6 DEF Waits
    <3> QED
      BY <1>1, <3>1, NowhereIs
  <2> PICK new : new = Len(sent["server"]) + 1
    OBVIOUS
  <2>15. /\ Genuine'
         /\ \A g \in End : \A i : OnStream(c, g, i)' <=> g = "server" /\ i = new
         /\ \A d \in Caller \ {c} : \A g \in End : \A i : OnStream(d, g, i)' <=> OnStream(d, g, i)
         /\ \A d \in Caller : \A g \in End : WithReader(d, g)' <=> WithReader(d, g)
    <3>1. /\ TypeOKFraming /\ Genuine /\ Stages /\ "server" \in End /\ m \in Messages
          /\ sent' = [sent EXCEPT !["server"] = Append(@, m)] /\ inbox' = inbox
          /\ IsMessage(m, "server")'
      BY <1>1, <1>6, <1>8, <2>1, <2>11 DEF End
    <3>2. /\ \A d \in Caller : Of(m, d) <=> d = c
          /\ \A g \in End : \A i : ~OnStream(c, g, i)
          /\ \A g \in End : \A x : IsMessage(x, g) => IsMessage(x, g)'
      BY <2>12, <2>13, <2>14
    <3>3. PICK e : e = "server"
      OBVIOUS
    <3>4. /\ TypeOKFraming /\ Genuine /\ Stages /\ e \in End /\ m \in Messages
          /\ sent' = [sent EXCEPT ![e] = Append(@, m)] /\ inbox' = inbox
          /\ IsMessage(m, e)'
      BY <3>1, <3>3
    <3>5. /\ Genuine'
          /\ \A g \in End : \A i : OnStream(c, g, i)' <=> g = e /\ i = Len(sent[e]) + 1
          /\ \A d \in Caller \ {c} : \A g \in End : \A i : OnStream(d, g, i)' <=> OnStream(d, g, i)
          /\ \A d \in Caller : \A g \in End : WithReader(d, g)' <=> WithReader(d, g)
      BY <3>2, <3>4, SentByWrite
    <3> QED
      BY <3>3, <3>5
  <2>16. \A d \in Caller : WithHandler(d)' <=> WithHandler(d)
    BY <1>3 DEF WithHandler
  <2>17. Waits(c)'
    BY <1>3, <1>7, <2>4 DEF Waits
  <2>18. \A d \in Caller \ {c} : Waits(d)' <=> Waits(d)
    BY <1>3, <2>3 DEF Waits
  <2>19. OnceAt(c)'
    <3> HIDE DEF OnStream, WithReader, WithHandler, Waits
    <3> QED
      BY <2>4, <2>14, <2>15, <2>16, <2>17 DEF OnceAt
  <2>20. ASSUME NEW d \in Caller \ {c} PROVE OnceAt(d)'
    <3>1. OnceAt(d)
      BY <1>1 DEF Once
    <3>2. handler'[d].res # "Success" => caller'[d].pc = "sent"
      BY <1>3, <2>3, <3>1 DEF OnceAt
    <3> QED
      BY <2>15, <2>16, <2>18, <3>1, <3>2, OnceKept
  <2>21. Once'
    BY <2>19, <2>20 DEF Once
  <2>22. ASSUME \A e \in End : state'[e] = "Active", NEW d \in Caller, Waits(d)' PROVE Somewhere(d)'
    <3>1. CASE d = c
      <4>1. OnStream(c, "server", new)' /\ "server" \in End
        BY <2>15 DEF End
      <4>2. new \in DOMAIN sent'["server"]
        BY <4>1 DEF OnStream
      <4> QED
        BY <3>1, <4>1, <4>2 DEF Somewhere
    <3>2. CASE d # c
      <4>1. Somewhere(d)
        BY <1>1, <1>8, <2>18, <2>22, <3>2 DEF Kept
      <4> QED
        BY <2>15, <2>16, <3>2, <4>1, SomewhereKept
    <3> QED
      BY <3>1, <3>2
  <2>23. Kept'
    BY <2>22 DEF Kept
  <2>24. InStep'
    BY <1>0, <1>1, <1>2, <1>4, <1>6, <1>12, <1>14, <2>1, <2>6, LastInStep
  <2> QED
    BY <1>10, <1>11, <2>5, <2>8, <2>9, <2>10, <2>15, <2>21, <2>23, <2>24 DEF StubsInv
<1> QED
  BY <1>13, <1>14

\* Of a caller who is served.
LEMMA ServedIs ==
    ASSUME Stages, Once, NEW c \in Caller, handler[c].pc # "idle"
    PROVE  /\ caller[c].pc = "sent" /\ handler[c].res = "Success" /\ Waits(c) /\ WithHandler(c)
           /\ \A e \in End : ~WithReader(c, e)
           /\ \A e \in End : \A i : ~OnStream(c, e, i)
<1>1. OnceAt(c)
  BY DEF Once
<1>2. \A e \in End : \A i : OnStream(c, e, i) => i \in DOMAIN sent[e]
  BY DEF OnStream
<1>3. WithHandler(c)
  BY DEF WithHandler
<1>4. Waits(c)
  BY <1>1, <1>3 DEF OnceAt
<1>5. caller[c].pc = "sent" /\ handler[c].res = "Success"
  BY <1>4 DEF Waits
<1> HIDE DEF OnStream, WithReader, WithHandler, Waits
<1> QED
  BY <1>1, <1>2, <1>3, <1>4, <1>5 DEF OnceAt

LEMMA WriteReturnKeeps ==
    ASSUME StubsInv, NEW c \in Caller, WriteReturn(c)
    PROVE  StubsInv'
<1>1. /\ TypeOKFraming /\ Shapes /\ Stages /\ Writing /\ Genuine /\ Once /\ Kept /\ Readers
      /\ Tears /\ SpoiltOnlyIf /\ InStep
  BY DEF StubsInv
<1> DEFINE t == AtServer(c)
<1>0. PICK m : m = MessageOf(t)
  OBVIOUS
<1>2. PICK n \in DOMAIN out[t] : WritePart(t, n)
  BY DEF WriteReturn
<1>3. /\ IF out'[t] = <<>>
         THEN Sends(t, m) /\ Through(c)
         ELSE sent' = sent /\ handler' = handler /\ leaving' = leaving
      /\ caller' = caller
  BY <1>0, NamesOfThreads DEF WriteReturn, SendsNothing, MessageOf
<1>4. t \in Thread /\ EndOf(t) = "server" /\ t[1] = c /\ Peer(EndOf(t)) = "client" /\ t = <<c, "server">>
  BY NamesOfThreads DEF Peer, AtServer
<1> HIDE DEF t
<1>5. out[t] # <<>>
  <2>1. out[t] \in Seq(Byte)
    BY <1>1, <1>4 DEF TypeOKFraming
  <2> QED
    BY <1>2, <2>1, EmptySeq
<1>6. handler[c].pc = "writing" /\ m \in Messages
  BY <1>0, <1>1, <1>4, <1>5, WriterIs
<1>7. /\ caller[c].pc = "sent" /\ handler[c].res = "Success" /\ Waits(c) /\ WithHandler(c)
      /\ \A e \in End : ~WithReader(c, e)
      /\ \A e \in End : \A i : ~OnStream(c, e, i)
  BY <1>1, <1>6, ServedIs
<1>8. /\ state' = state /\ whole' = whole /\ torn' = torn /\ reader' = reader /\ got' = got
      /\ inbox' = inbox
  BY <1>2 DEF WritePart
<1>9. \A d \in Caller : handler'[d].outs = handler[d].outs
  <2>1. CASE handler' = handler
    BY <2>1
  <2>2. CASE handler' = [handler EXCEPT ![c].pc = "idle"]
    BY <1>1, <2>2 DEF Shapes, HandlerShape
  <2> QED
    BY <1>3, <2>1, <2>2 DEF Through
<1>10. Tears' /\ SpoiltOnlyIf'
  <2>1. \A u \in Thread : u # t => out'[u] = out[u]
    BY <1>1, <1>2, <1>4 DEF WritePart, TypeOKFraming
  <2> QED
    BY <1>1, <1>2, <1>3, <1>4, <1>5, <2>1, WriteTears
<1>11. Readers'
  BY <1>1, <1>8 DEF Readers
<1>12. \A e \in End : sent[e] \in Seq(Messages)
  BY <1>1, SentAre
<1>13. /\ \A u \in Thread : MessageOf(u)' = MessageOf(u)
       /\ \A e \in End : \A x : IsMessage(x, e) => IsMessage(x, e)'
  BY <1>3, <1>9, SameMessages
<1>14. Writing' /\ \A u \in Thread : u # t => out'[u] = out[u]
  BY <1>0, <1>1, <1>2, <1>4, <1>6, <1>13, WriteWriting
<1>15. CASE out'[t] # <<>>
  <2>1. sent' = sent /\ handler' = handler /\ leaving' = leaving
    BY <1>3, <1>15
  <2>3. TypeOKFraming'
    <3>1. sent' \in [End -> Seq(Seq(Byte))]
      BY <1>1, <2>1 DEF TypeOKFraming
    <3> QED
      BY <1>0, <1>1, <1>2, <1>4, <1>6, <3>1, WriteTypes
  <2>4. Shapes'
    BY <1>1, <1>3, <2>1 DEF Shapes
  <2>6. Stages'
    <3>1. \A d \in Caller : /\ out'[AtServer(d)] # <<>> <=> out[AtServer(d)] # <<>>
                            /\ out'[AtClient(d)] = out[AtClient(d)]
      BY <1>5, <1>14, <1>15, NamesOfThreads DEF t
    <3> QED
      BY <1>1, <1>3, <2>1, <3>1 DEF Stages
  <2>7. Genuine'
    BY <1>1, <1>8, <1>13, <2>1 DEF Genuine
  <2>8. Once' /\ Kept'
    BY <1>1, <1>3, <1>8, <2>1, PlacesKept
  <2>9. InStep'
    BY <1>0, <1>1, <1>2, <1>4, <1>6, <1>12, <1>13, <1>15, <2>1, MidInStep
  <2> QED
    BY <1>10, <1>11, <1>14, <2>3, <2>4, <2>6, <2>7, <2>8, <2>9 DEF StubsInv
<1>16. CASE out'[t] = <<>>
  <2>1. /\ Sends(t, m) /\ handler' = [handler EXCEPT ![c].pc = "idle"] /\ leaving' = leaving + 1
        /\ sent' = [sent EXCEPT !["client"] = Append(@, m)]
    BY <1>3, <1>4, <1>16 DEF Sends, Through
  <2> DEFINE r == [handler[c] EXCEPT !.pc = "idle"]
  <2>2. HandlerShape(r) /\ handler' = [handler EXCEPT ![c] = r]
    BY <1>1, <2>1 DEF Shapes, HandlerShape, HandlerPC
  <2>3. /\ handler' = [d \in Caller |-> handler'[d]]
        /\ \A d \in Caller : HandlerShape(handler'[d])
        /\ handler'[c] = r
        /\ \A d \in Caller \ {c} : handler'[d] = handler[d]
    BY <1>1, <2>2, HandlerMoves
  <2>4. handler'[c].pc = "idle" /\ handler'[c].res = handler[c].res
    BY <1>1, <2>3 DEF Shapes, HandlerShape
  <2> HIDE DEF r
  <2>5. Shapes'
    BY <1>1, <1>3, <2>1, <2>3 DEF Shapes
  <2>7. sent' \in [End -> Seq(Seq(Byte))]
    <3>1. "client" \in End
      BY DEF End
    <3> QED
      BY <1>1, <1>6, <2>1, <3>1, Appended
  <2>8. TypeOKFraming'
    BY <1>0, <1>1, <1>2, <1>4, <1>6, <2>7, WriteTypes
  <2>10. Stages'
    <3> SUFFICES ASSUME NEW d \in Caller
                 PROVE  /\ caller'[d].pc # "idle" =>
                             /\ caller'[d].n > 0
                             /\ caller'[d].f \in DOMAIN Functions
                             /\ caller'[d].args \in Lists(Functions[caller'[d].f].in)
                        /\ handler'[d].pc # "idle" => caller'[d].pc = "sent"
                        /\ handler'[d].pc = "writing" =>
                             handler'[d].outs \in Lists(Functions[caller'[d].f].out)
                        /\ out'[AtClient(d)] # <<>> <=> caller'[d].pc = "writing"
                        /\ out'[AtServer(d)] # <<>> <=> handler'[d].pc = "writing"
      BY DEF Stages
    <3>1. CASE d = c
      <4>1. out'[AtServer(d)] = <<>> /\ out'[AtClient(d)] = out[AtClient(d)]
        BY <1>14, <1>16, <3>1, NamesOfThreads DEF t
      <4> QED
        BY <1>1, <1>3, <1>7, <2>4, <3>1, <4>1 DEF Stages
    <3>2. CASE d # c
      <4>1. handler'[d] = handler[d] /\ out'[AtClient(d)] = out[AtClient(d)] /\ out'[AtServer(d)] = out[AtServer(d)]
        BY <1>14, <2>3, <3>2, NamesOfThreads DEF t
      <4> QED
        BY <1>1, <1>3, <4>1 DEF Stages
    <3> QED
      BY <3>1, <3>2
  <2>11. IsMessage(m, "client")'
    <3>1. m = MessageOf(<<c, Peer("client")>>)'
      BY <1>0, <1>4, <1>13 DEF Peer
    <3>2. handler'[c].outs \in Lists(Functions[caller'[c].f].out)
      BY <1>1, <1>3, <1>6, <1>9 DEF Stages
    <3> QED
      BY <1>3, <1>7, <3>1, <3>2 DEF IsMessage
  <2>13. \A d \in Caller : Of(m, d) <=> d = c
    <3>1. m = MessageOf(<<c, "server">>) /\ "server" \in End
      BY <1>0, <1>4 DEF End
    <3>2. handler[c].outs \in Lists(Functions[caller[c].f].out)
      BY <1>1, <1>6 DEF Stages
    <3> QED
      BY <1>1, <1>7, <3>1, <3>2, MessageOfIs
  <2> PICK new : new = Len(sent["client"]) + 1
    OBVIOUS
  <2>15. /\ Genuine'
         /\ \A g \in End : \A i : OnStream(c, g, i)' <=> g = "client" /\ i = new
         /\ \A d \in Caller \ {c} : \A g \in End : \A i : OnStream(d, g, i)' <=> OnStream(d, g, i)
         /\ \A d \in Caller : \A g \in End : WithReader(d, g)' <=> WithReader(d, g)
    <3>3. PICK e : e = "client"
      OBVIOUS
    <3>4. /\ TypeOKFraming /\ Genuine /\ Stages /\ e \in End /\ m \in Messages
          /\ sent' = [sent EXCEPT ![e] = Append(@, m)] /\ inbox' = inbox
          /\ IsMessage(m, e)'
      BY <1>1, <1>6, <1>8, <2>1, <2>11, <3>3 DEF End
    <3>5. /\ Genuine'
          /\ \A g \in End : \A i : OnStream(c, g, i)' <=> g = e /\ i = Len(sent[e]) + 1
          /\ \A d \in Caller \ {c} : \A g \in End : \A i : OnStream(d, g, i)' <=> OnStream(d, g, i)
          /\ \A d \in Caller : \A g \in End : WithReader(d, g)' <=> WithReader(d, g)
      BY <1>7, <1>13, <2>13, <3>4, SentByWrite
    <3> QED
      BY <3>3, <3>5
  <2>16. ~WithHandler(c)' /\ \A d \in Caller \ {c} : WithHandler(d)' <=> WithHandler(d)
    BY <2>3, <2>4 DEF WithHandler
  <2>17. Waits(c)'
    BY <1>3, <1>7, <2>4 DEF Waits
  <2>18. \A d \in Caller \ {c} : Waits(d)' <=> Waits(d)
    BY <1>3, <2>3 DEF Waits
  <2>19. OnceAt(c)'
    <3>1. handler'[c].res # "Success" => caller'[c].pc = "sent"
      BY <1>7, <2>4
    <3> HIDE DEF OnStream, WithReader, WithHandler, Waits
    <3> QED
      BY <1>7, <2>15, <2>16, <2>17, <3>1 DEF OnceAt
  <2>20. ASSUME NEW d \in Caller \ {c} PROVE OnceAt(d)'
    <3>1. OnceAt(d)
      BY <1>1 DEF Once
    <3>2. handler'[d].res # "Success" => caller'[d].pc = "sent"
      BY <1>3, <2>3, <3>1 DEF OnceAt
    <3> QED
      BY <2>15, <2>16, <2>18, <3>1, <3>2, OnceKept
  <2>21. Once'
    BY <2>19, <2>20 DEF Once
  <2>22. ASSUME \A e \in End : state'[e] = "Active", NEW d \in Caller, Waits(d)' PROVE Somewhere(d)'
    <3>1. CASE d = c
      <4>1. OnStream(c, "client", new)' /\ "client" \in End
        BY <2>15 DEF End
      <4>2. new \in DOMAIN sent'["client"]
        BY <4>1 DEF OnStream
      <4> QED
        BY <3>1, <4>1, <4>2 DEF Somewhere
    <3>2. CASE d # c
      <4>1. Somewhere(d)
        BY <1>1, <1>8, <2>18, <2>22, <3>2 DEF Kept
      <4> QED
        BY <2>15, <2>16, <3>2, <4>1, SomewhereKept
    <3> QED
      BY <3>1, <3>2
  <2>23. Kept'
    BY <2>22 DEF Kept
  <2>24. InStep'
    BY <1>0, <1>1, <1>2, <1>4, <1>6, <1>12, <1>13, <1>16, <2>1, LastInStep
  <2> QED
    BY <1>10, <1>11, <1>14, <2>5, <2>8, <2>10, <2>15, <2>21, <2>23, <2>24 DEF StubsInv
<1> QED
  BY <1>15, <1>16

-----------------------------------------------------------------------------
(* A call of RawIO::write that fails.                                      *)

LEMMA FailTypes ==
    ASSUME TypeOKFraming, Stages, Writing, Readers, Tears, SpoiltOnlyIf, NEW t \in Thread, WriteFails(t),
           \A u \in Thread : u # t /\ out[u] # <<>> => MessageOf(u)' = MessageOf(u),
           \A c \in Caller : caller[c].n > 0 => caller'[c].n > 0
    PROVE  /\ TypeOKFraming' /\ Writing' /\ Readers' /\ Tears' /\ SpoiltOnlyIf'
           /\ out[t] # <<>> /\ out'[t] = <<>> /\ \A u \in Thread : u # t => out'[u] = out[u]
           /\ sent' = sent /\ inbox' = inbox
           /\ \E e \in End : state'[e] # "Active"
<1> DEFINE e == Peer(EndOf(t))
           g == EndOf(t)
<1>1. e \in End /\ g \in End /\ Peer(e) = g /\ (\A h \in End : Peer(h) \in End)
  BY ThreadsAre, PeersAre
<1>2. /\ out[t] # <<>>
      /\ torn' = IF written[t] > 0 THEN torn \cup {e} ELSE torn
      /\ out' = [out EXCEPT ![t] = <<>>]
      /\ written' = [written EXCEPT ![t] = 0]
      /\ state' = [state EXCEPT ![g] = IF @ = "Active" THEN "Closed" ELSE @]
      /\ UNCHANGED <<whole, stream, spoilt, reader, got, sent, inbox>>
  BY DEF WriteFails, Close
<1>3. /\ out'[t] = <<>> /\ written'[t] = 0
      /\ \A u \in Thread : u # t => out'[u] = out[u] /\ written'[u] = written[u]
  BY <1>2 DEF TypeOKFraming
<1>4. /\ state'[g] # "Active"
      /\ \A h \in End : /\ state[h] # "Active" => state'[h] # "Active"
                        /\ state[h] = "ClosedCleanedup" => state'[h] = "ClosedCleanedup"
  BY <1>1, <1>2 DEF TypeOKFraming
<1>5. TypeOKFraming'
  <2>1. <<>> \in Seq(Byte)
    BY EmptySeq
  <2>2. state' \in [End -> {"Active", "Closed", "ClosedCleanedup"}]
    BY <1>1, <1>2 DEF TypeOKFraming
  <2> HIDE DEF e, g
  <2> QED
    BY <1>1, <1>2, <2>1, <2>2 DEF TypeOKFraming
<1>6. ASSUME NEW u \in Thread
      PROVE  /\ out'[u] = <<>> => written'[u] = 0
             /\ out'[u] # <<>> => /\ written'[u] < Len(Frame(MessageOf(u)'))
                                  /\ out'[u] = After(Frame(MessageOf(u)'), written'[u])
             /\ written'[u] > 0 => ~whole'
  <2>1. CASE u = t
    BY <1>3, <2>1
  <2>2. CASE u # t
    BY <1>2, <1>3, <2>2 DEF Writing
  <2> QED
    BY <2>1, <2>2
<1>7. Writing'
  BY <1>6 DEF Writing
<1>8. Readers'
  BY <1>2, <1>4 DEF Readers
<1>9. Several => Several'
  BY SeveralKept
<1> HIDE DEF e, g
<1>10. ASSUME NEW h \in End, h \in torn'
       PROVE  /\ ~whole'
              /\ state'[Peer(h)] # "Active"
              /\ (\E u \in Thread : EndOf(u) = Peer(h) /\ out'[u] # <<>>) =>
                   Several' \/ state'[Peer(h)] = "ClosedCleanedup"
  <2>1. CASE h \in torn
    <3>1. /\ ~whole
          /\ state[Peer(h)] # "Active"
          /\ (\E u \in Thread : EndOf(u) = Peer(h) /\ out[u] # <<>>) =>
               Several \/ state[Peer(h)] = "ClosedCleanedup"
      BY <2>1 DEF Tears
    <3>2. ASSUME NEW u \in Thread, EndOf(u) = Peer(h), out'[u] # <<>>
          PROVE  Several' \/ state'[Peer(h)] = "ClosedCleanedup"
      <4>1. out[u] # <<>>
        BY <1>3, <3>2
      <4> QED
        BY <1>1, <1>4, <1>9, <3>1, <3>2, <4>1
    <3> QED
      BY <1>1, <1>2, <1>4, <3>1, <3>2
  <2>2. CASE h \notin torn
    <3>1. h = e /\ written[t] > 0
      BY <1>2, <1>10, <2>2
    <3>2. ~whole
      BY <3>1 DEF Writing
    <3>3. ASSUME NEW u \in Thread, EndOf(u) = g, out'[u] # <<>>
          PROVE  Several'
      <4>1. out[u] # <<>> /\ u # t
        BY <1>3, <3>3
      <4>2. u[1] \in Caller /\ t[1] \in Caller /\ u[1] # t[1]
        BY <3>3, <4>1, ThreadsAre DEF g
      <4>3. caller[u[1]].pc # "idle" /\ caller[t[1]].pc # "idle"
        BY <1>2, <4>1, WriterIs
      <4>4. caller[u[1]].n > 0 /\ caller[t[1]].n > 0
        BY <4>2, <4>3 DEF Stages
      <4> QED
        BY <1>9, <4>2, <4>4, TwoAreSeveral
    <3> QED
      BY <1>1, <1>2, <1>4, <3>1, <3>2, <3>3
  <2> QED
    BY <2>1, <2>2
<1>11. Tears'
  BY <1>10 DEF Tears
<1>12. ASSUME NEW h \in End, h \in spoilt'
       PROVE  ~whole' /\ (Several' \/ state'[Peer(h)] = "ClosedCleanedup")
  BY <1>1, <1>2, <1>4, <1>9, <1>12 DEF SpoiltOnlyIf, Several
<1>13. SpoiltOnlyIf'
  BY <1>12 DEF SpoiltOnlyIf, Several
<1> QED
  BY <1>1, <1>2, <1>3, <1>4, <1>5, <1>7, <1>8, <1>11, <1>13

LEMMA CallFailsKeeps ==
    ASSUME StubsInv, NEW c \in Caller, CallFails(c)
    PROVE  StubsInv'
<1>1. /\ TypeOKFraming /\ Shapes /\ Stages /\ Writing /\ Genuine /\ Once /\ Kept /\ Readers
      /\ Tears /\ SpoiltOnlyIf /\ InStep
  BY DEF StubsInv
<1> DEFINE t == AtClient(c)
           r == [caller[c] EXCEPT !.pc = "back", !.res = "Disconnected"]
<1>2. /\ WriteFails(t) /\ handler' = handler /\ leaving' = leaving
      /\ caller' = [caller EXCEPT ![c].pc = "back", ![c].res = "Disconnected"]
  BY DEF CallFails
<1>3. t \in Thread /\ EndOf(t) = "client" /\ t[1] = c
  BY NamesOfThreads
<1>4. CallerShape(r) /\ caller' = [caller EXCEPT ![c] = r]
  <2>1. /\ caller = [d \in Caller |-> caller[d]] /\ caller[c].n \in Nat
        /\ caller[c] = [pc |-> caller[c].pc, n |-> caller[c].n, f |-> caller[c].f,
                        args |-> caller[c].args, res |-> caller[c].res, outs |-> caller[c].outs]
    BY <1>1 DEF Shapes, CallerShape
  <2>2. r = [pc |-> "back", n |-> caller[c].n, f |-> caller[c].f,
             args |-> caller[c].args, res |-> "Disconnected", outs |-> caller[c].outs]
    <3> DEFINE y == [caller[c] EXCEPT !.pc = "back"]
    <3>1. y = [pc |-> "back", n |-> caller[c].n, f |-> caller[c].f,
               args |-> caller[c].args, res |-> caller[c].res, outs |-> caller[c].outs]
      BY <2>1
    <3>2. r = [y EXCEPT !.res = "Disconnected"]
      OBVIOUS
    <3> HIDE DEF y, r
    <3> QED
      BY <3>1, <3>2
  <2>3. caller' = [caller EXCEPT ![c] = r]
    BY <1>2, <2>1
  <2> HIDE DEF r
  <2> QED
    BY <2>1, <2>2, <2>3 DEF CallerShape, CallerPC
<1>5. /\ caller' = [d \in Caller |-> caller'[d]]
      /\ \A d \in Caller : CallerShape(caller'[d])
      /\ caller'[c] = r
      /\ \A d \in Caller \ {c} : caller'[d] = caller[d]
  BY <1>1, <1>4, CallerMoves
<1>6. /\ caller'[c].pc = "back" /\ caller'[c].n = caller[c].n /\ caller'[c].f = caller[c].f
      /\ caller'[c].args = caller[c].args
  BY <1>1, <1>5 DEF Shapes, CallerShape
<1> HIDE DEF t, r
<1>7. Shapes'
  BY <1>1, <1>2, <1>5 DEF Shapes
<1>8. \A u \in Thread : MessageOf(u)' = MessageOf(u)
  <2> SUFFICES ASSUME NEW u \in Thread PROVE MessageOf(u)' = MessageOf(u)
    OBVIOUS
  <2>1. u[1] \in Caller
    BY ThreadsAre
  <2>2. caller'[u[1]].f = caller[u[1]].f /\ caller'[u[1]].args = caller[u[1]].args
    BY <1>5, <1>6, <2>1
  <2> QED
    BY <1>2, <2>2, MessageOfKept
<1>9. \A d \in Caller : caller[d].n > 0 => caller'[d].n > 0
  BY <1>5, <1>6
<1>10. /\ TypeOKFraming' /\ Writing' /\ Readers' /\ Tears' /\ SpoiltOnlyIf'
       /\ out[t] # <<>> /\ out'[t] = <<>> /\ \A u \in Thread : u # t => out'[u] = out[u]
       /\ sent' = sent /\ inbox' = inbox
       /\ \E e \in End : state'[e] # "Active"
  BY <1>1, <1>2, <1>3, <1>8, <1>9, FailTypes
<1>11. caller[c].pc = "writing" /\ MessageOf(t) \in Messages
  BY <1>1, <1>3, <1>10, WriterIs
<1>12. handler[c].pc = "idle" /\ handler[c].res = "Success"
  BY <1>1, <1>11 DEF Stages, Once, OnceAt
<1>13. Stages'
  <2> SUFFICES ASSUME NEW d \in Caller
               PROVE  /\ caller'[d].pc # "idle" =>
                           /\ caller'[d].n > 0
                           /\ caller'[d].f \in DOMAIN Functions
                           /\ caller'[d].args \in Lists(Functions[caller'[d].f].in)
                      /\ handler'[d].pc # "idle" => caller'[d].pc = "sent"
                      /\ handler'[d].pc = "writing" =>
                           handler'[d].outs \in Lists(Functions[caller'[d].f].out)
                      /\ out'[AtClient(d)] # <<>> <=> caller'[d].pc = "writing"
                      /\ out'[AtServer(d)] # <<>> <=> handler'[d].pc = "writing"
    BY DEF Stages
  <2>1. CASE d = c
    <3>1. out'[AtClient(d)] = <<>> /\ out'[AtServer(d)] = out[AtServer(d)]
      BY <1>10, <2>1, NamesOfThreads DEF t
    <3> QED
      BY <1>1, <1>2, <1>6, <1>11, <1>12, <2>1, <3>1 DEF Stages
  <2>2. CASE d # c
    <3>1. caller'[d] = caller[d] /\ out'[AtClient(d)] = out[AtClient(d)] /\ out'[AtServer(d)] = out[AtServer(d)]
      BY <1>5, <1>10, <2>2, NamesOfThreads DEF t
    <3> QED
      BY <1>1, <1>2, <3>1 DEF Stages
  <2> QED
    BY <2>1, <2>2
<1>14. Genuine'
  <2>1. \A e \in End : \A x : IsMessage(x, e) => IsMessage(x, e)'
    BY <1>1, <1>2, <1>5, <1>11, IsMessageKept
  <2> QED
    BY <1>1, <1>10, <2>1 DEF Genuine
<1>15. Once'
  <2> SUFFICES ASSUME NEW d \in Caller PROVE OnceAt(d)'
    BY DEF Once
  <2>1. OnceAt(d)
    BY <1>1 DEF Once
  <2>2. /\ \A e \in End : /\ WithReader(d, e)' <=> WithReader(d, e)
                          /\ \A i : OnStream(d, e, i)' <=> OnStream(d, e, i)
        /\ WithHandler(d)' <=> WithHandler(d)
    BY <1>2, <1>10 DEF WithReader, OnStream, WithHandler, Of
  <2>3. Waits(d) => Waits(d)'
    BY <1>2, <1>5, <1>11 DEF Waits
  <2>4. handler'[d].res # "Success" => caller'[d].pc = "sent"
    BY <1>2, <1>5, <1>12, <2>1 DEF OnceAt
  <2> QED
    BY <2>1, <2>2, <2>3, <2>4, OnceKept
<1>16. Kept'
  BY <1>10 DEF Kept
<1>17. InStep'
  BY <1>1, <1>2, <1>3, <1>8, <1>11, FailInStep
<1> QED
  BY <1>7, <1>10, <1>13, <1>14, <1>15, <1>16, <1>17 DEF StubsInv

-----------------------------------------------------------------------------
(* The dispatcher is through with the call of a caller.                    *)

LEMMA ThroughIs ==
    ASSUME Shapes, Stages, Once, NEW c \in Caller, handler[c].pc # "idle",
           NEW res, res = handler[c].res \/ res = "Exception",
           handler' = [handler EXCEPT ![c] = [handler[c] EXCEPT !.pc = "idle", !.res = res]],
           leaving' = leaving + 1, caller' = caller, sent' = sent, inbox' = inbox
    PROVE  /\ Shapes' /\ Once'
           /\ \A d \in Caller : caller'[d] = caller[d] /\ handler'[d].outs = handler[d].outs
           /\ handler'[c].pc = "idle" /\ handler'[c].res = res
           /\ \A d \in Caller \ {c} : handler'[d] = handler[d]
<1> DEFINE r == [handler[c] EXCEPT !.pc = "idle", !.res = res]
<1>1. HandlerShape(r) /\ handler' = [handler EXCEPT ![c] = r]
  <2>1. handler[c] = [pc |-> handler[c].pc, res |-> handler[c].res,
                      args |-> handler[c].args, outs |-> handler[c].outs]
    BY DEF Shapes, HandlerShape
  <2>2. r = [pc |-> "idle", res |-> res, args |-> handler[c].args, outs |-> handler[c].outs]
    <3> DEFINE y == [handler[c] EXCEPT !.pc = "idle"]
    <3>1. y = [pc |-> "idle", res |-> handler[c].res, args |-> handler[c].args, outs |-> handler[c].outs]
      BY <2>1
    <3>2. r = [y EXCEPT !.res = res]
      OBVIOUS
    <3> HIDE DEF y, r
    <3> QED
      BY <3>1, <3>2
  <2>3. handler' = [handler EXCEPT ![c] = r]
    OBVIOUS
  <2> HIDE DEF r
  <2> QED
    BY <2>2, <2>3 DEF HandlerShape, HandlerPC
<1>2. /\ handler' = [d \in Caller |-> handler'[d]]
      /\ \A d \in Caller : HandlerShape(handler'[d])
      /\ handler'[c] = r
      /\ \A d \in Caller \ {c} : handler'[d] = handler[d]
  BY <1>1, HandlerMoves
<1>3. handler'[c].pc = "idle" /\ handler'[c].res = res /\ handler'[c].outs = handler[c].outs
  BY <1>2 DEF Shapes, HandlerShape
<1> HIDE DEF r
<1>4. Shapes'
  BY <1>2 DEF Shapes
<1>5. \A d \in Caller : caller'[d] = caller[d] /\ handler'[d].outs = handler[d].outs
  BY <1>2, <1>3
<1>6. /\ caller[c].pc = "sent" /\ handler[c].res = "Success" /\ Waits(c) /\ WithHandler(c)
      /\ \A e \in End : ~WithReader(c, e)
      /\ \A e \in End : \A i : ~OnStream(c, e, i)
  BY ServedIs
<1>7. \A d \in Caller : \A e \in End : /\ WithReader(d, e)' <=> WithReader(d, e)
                                       /\ \A i : OnStream(d, e, i)' <=> OnStream(d, e, i)
  BY DEF WithReader, OnStream, Of
<1>8. OnceAt(c)'
  <2>1. ~WithHandler(c)'
    BY <1>3 DEF WithHandler
  <2> HIDE DEF OnStream, WithReader, WithHandler, Waits
  <2> QED
    BY <1>6, <1>7, <2>1 DEF OnceAt
<1>9. ASSUME NEW d \in Caller \ {c} PROVE OnceAt(d)'
  <2>1. OnceAt(d)
    BY DEF Once
  <2>2. (WithHandler(d)' <=> WithHandler(d)) /\ (Waits(d)' <=> Waits(d))
    BY <1>2 DEF WithHandler, Waits
  <2>3. handler'[d].res # "Success" => caller'[d].pc = "sent"
    BY <1>2, <2>1 DEF OnceAt
  <2> QED
    BY <1>7, <2>1, <2>2, <2>3, OnceKept
<1> QED
  BY <1>2, <1>3, <1>4, <1>5, <1>8, <1>9 DEF Once

\* Stages, when nothing is written for the caller any more.
LEMMA ThroughStages ==
    ASSUME Stages, NEW c \in Caller, handler[c].pc # "idle", caller' = caller, handler'[c].pc = "idle",
           \A d \in Caller \ {c} : handler'[d] = handler[d],
           out'[AtServer(c)] = <<>>, \A t \in Thread : t # AtServer(c) => out'[t] = out[t]
    PROVE  Stages'
<1> SUFFICES ASSUME NEW d \in Caller
             PROVE  /\ caller'[d].pc # "idle" =>
                         /\ caller'[d].n > 0
                         /\ caller'[d].f \in DOMAIN Functions
                         /\ caller'[d].args \in Lists(Functions[caller'[d].f].in)
                    /\ handler'[d].pc # "idle" => caller'[d].pc = "sent"
                    /\ handler'[d].pc = "writing" =>
                         handler'[d].outs \in Lists(Functions[caller'[d].f].out)
                    /\ out'[AtClient(d)] # <<>> <=> caller'[d].pc = "writing"
                    /\ out'[AtServer(d)] # <<>> <=> handler'[d].pc = "writing"
  BY DEF Stages
<1>1. CASE d = c
  <2>1. out'[AtServer(d)] = <<>> /\ out'[AtClient(d)] = out[AtClient(d)]
    BY <1>1, NamesOfThreads
  <2> QED
    BY <1>1, <2>1 DEF Stages
<1>2. CASE d # c
  <2>1. handler'[d] = handler[d] /\ out'[AtClient(d)] = out[AtClient(d)] /\ out'[AtServer(d)] = out[AtServer(d)]
    BY <1>2, NamesOfThreads
  <2> QED
    BY <2>1 DEF Stages
<1> QED
  BY <1>1, <1>2

LEMMA ReturnFailsKeeps ==
    ASSUME StubsInv, NEW c \in Caller, ReturnFails(c)
    PROVE  StubsInv'
<1>1. /\ TypeOKFraming /\ Shapes /\ Stages /\ Writing /\ Genuine /\ Once /\ Kept /\ Readers
      /\ Tears /\ SpoiltOnlyIf /\ InStep
  BY DEF StubsInv
<1> DEFINE t == AtServer(c)
<1>2. /\ WriteFails(t) /\ caller' = caller /\ leaving' = leaving + 1
      /\ handler' = [handler EXCEPT ![c].pc = "idle"]
  BY DEF ReturnFails, Through
<1>3. t \in Thread /\ EndOf(t) = "server" /\ t[1] = c
  BY NamesOfThreads
<1>4. sent' = sent /\ inbox' = inbox /\ out[t] # <<>>
  BY <1>2 DEF WriteFails
<1>5. handler[c].pc = "writing" /\ MessageOf(t) \in Messages
  BY <1>1, <1>3, <1>4, WriterIs
<1>6. handler' = [handler EXCEPT ![c] = [handler[c] EXCEPT !.pc = "idle", !.res = handler[c].res]]
  BY <1>1, <1>2 DEF Shapes, HandlerShape
<1> HIDE DEF t
<1>7. /\ Shapes' /\ Once'
      /\ \A d \in Caller : caller'[d] = caller[d] /\ handler'[d].outs = handler[d].outs
      /\ handler'[c].pc = "idle"
      /\ \A d \in Caller \ {c} : handler'[d] = handler[d]
  BY <1>1, <1>2, <1>4, <1>5, <1>6, ThroughIs
<1>8. /\ \A u \in Thread : MessageOf(u)' = MessageOf(u)
      /\ \A e \in End : \A x : IsMessage(x, e) => IsMessage(x, e)'
  BY <1>7, SameMessages
<1>9. /\ TypeOKFraming' /\ Writing' /\ Readers' /\ Tears' /\ SpoiltOnlyIf'
      /\ out'[t] = <<>> /\ \A u \in Thread : u # t => out'[u] = out[u]
      /\ \E e \in End : state'[e] # "Active"
  BY <1>1, <1>2, <1>3, <1>8, FailTypes
<1>10. Stages'
  BY <1>1, <1>2, <1>5, <1>7, <1>9, ThroughStages DEF t
<1>11. Genuine'
  BY <1>1, <1>4, <1>8 DEF Genuine
<1>12. Kept'
  BY <1>9 DEF Kept
<1>13. InStep'
  BY <1>1, <1>2, <1>3, <1>5, <1>8, FailInStep
<1> QED
  BY <1>7, <1>9, <1>10, <1>11, <1>12, <1>13 DEF StubsInv

-----------------------------------------------------------------------------
(* The handler.                                                            *)

\* The streams are left alone.
LEMMA FramingSame ==
    ASSUME TypeOKFraming, Stages, Writing, Readers, Tears, SpoiltOnlyIf, InStep, UNCHANGED framing,
           \A t \in Thread : MessageOf(t)' = MessageOf(t), caller' = caller
    PROVE  TypeOKFraming' /\ Writing' /\ Readers' /\ Tears' /\ SpoiltOnlyIf' /\ InStep'
<1>1. UNCHANGED <<whole, state, stream, out, written, torn, spoilt, reader, got, sent, inbox>>
  BY DEF framing
<1>2. TypeOKFraming' /\ Writing' /\ Readers'
  BY <1>1 DEF TypeOKFraming, Writing, Readers
<1>3. Tears' /\ SpoiltOnlyIf'
  BY <1>1, TearsKept
<1>4. InStep'
  BY <1>1, StillInStep
<1> QED
  BY <1>2, <1>3, <1>4

\* The handler of one caller is through, or fails.
LEMMA ThroughKeeps ==
    ASSUME StubsInv, NEW c \in Caller, handler[c].pc = "running",
           NEW res, res = handler[c].res \/ res = "Exception",
           handler' = [handler EXCEPT ![c] = [handler[c] EXCEPT !.pc = "idle", !.res = res]],
           leaving' = leaving + 1, caller' = caller, UNCHANGED framing,
           res = "Exception" \/ \E e \in End : state[e] # "Active"
    PROVE  StubsInv'
<1>1. /\ TypeOKFraming /\ Shapes /\ Stages /\ Writing /\ Genuine /\ Once /\ Kept /\ Readers
      /\ Tears /\ SpoiltOnlyIf /\ InStep
  BY DEF StubsInv
<1>2. sent' = sent /\ inbox' = inbox /\ out' = out /\ state' = state
  BY DEF framing
<1>3. /\ Shapes' /\ Once'
      /\ \A d \in Caller : caller'[d] = caller[d] /\ handler'[d].outs = handler[d].outs
      /\ handler'[c].pc = "idle" /\ handler'[c].res = res
      /\ \A d \in Caller \ {c} : handler'[d] = handler[d]
  BY <1>1, <1>2, ThroughIs
<1>4. /\ \A u \in Thread : MessageOf(u)' = MessageOf(u)
      /\ \A e \in End : \A x : IsMessage(x, e) => IsMessage(x, e)'
  BY <1>3, SameMessages
<1>5. TypeOKFraming' /\ Writing' /\ Readers' /\ Tears' /\ SpoiltOnlyIf' /\ InStep'
  BY <1>1, <1>4, FramingSame
<1>6. Stages'
  <2>1. out[AtServer(c)] = <<>>
    BY <1>1 DEF Stages
  <2> QED
    BY <1>1, <1>2, <1>3, <2>1, ThroughStages
<1>7. Genuine'
  BY <1>1, <1>2, <1>4 DEF Genuine
<1>8. Kept'
  <2> SUFFICES ASSUME \A e \in End : state'[e] = "Active", NEW d \in Caller, Waits(d)'
               PROVE  Somewhere(d)'
    BY DEF Kept
  <2>1. res = "Exception"
    BY <1>2
  <2>2. d # c
    BY <1>3, <2>1 DEF Waits
  <2>3. Waits(d) /\ WithHandler(d)' = WithHandler(d)
    BY <1>3, <2>2 DEF Waits, WithHandler
  <2>4. Somewhere(d)
    BY <1>1, <1>2, <2>3 DEF Kept
  <2>5. \A e \in End : /\ WithReader(d, e)' <=> WithReader(d, e)
                       /\ \A i : OnStream(d, e, i)' <=> OnStream(d, e, i)
    BY <1>2 DEF WithReader, OnStream, Of
  <2> QED
    BY <2>3, <2>4, <2>5, SomewhereKept
<1> QED
  BY <1>3, <1>5, <1>6, <1>7, <1>8 DEF StubsInv

LEMMA FunctionFailsKeeps ==
    ASSUME StubsInv, NEW c \in Caller, FunctionFails(c)
    PROVE  StubsInv'
<1>1. Shapes
  BY DEF StubsInv
<1>2. /\ handler[c].pc = "running" /\ leaving' = leaving + 1 /\ caller' = caller
      /\ UNCHANGED framing
      /\ handler' = [handler EXCEPT ![c].pc = "idle", ![c].res = "Exception"]
  BY DEF FunctionFails
<1>3. PICK res : res = "Exception"
  OBVIOUS
<1>4. handler' = [handler EXCEPT ![c] = [handler[c] EXCEPT !.pc = "idle", !.res = res]]
  BY <1>1, <1>2, <1>3 DEF Shapes
<1> QED
  BY <1>2, <1>3, <1>4, ThroughKeeps

LEMMA AnswerRefusedKeeps ==
    ASSUME StubsInv, NEW c \in Caller, AnswerRefused(c)
    PROVE  StubsInv'
<1>1. Shapes
  BY DEF StubsInv
<1>2. /\ handler[c].pc = "running" /\ leaving' = leaving + 1 /\ caller' = caller
      /\ UNCHANGED framing
      /\ handler' = [handler EXCEPT ![c].pc = "idle"]
      /\ Refuses(AtServer(c))
  BY DEF AnswerRefused, Through
<1>3. PICK res : res = handler[c].res
  OBVIOUS
<1>4. handler' = [handler EXCEPT ![c] = [handler[c] EXCEPT !.pc = "idle", !.res = res]]
  BY <1>1, <1>2, <1>3 DEF Shapes, HandlerShape
<1>5. "server" \in End /\ state["server"] # "Active"
  BY <1>2, NamesOfThreads DEF Refuses, End
<1> QED
  BY <1>2, <1>3, <1>4, <1>5, ThroughKeeps

LEMMA AnswerKeeps ==
    ASSUME StubsInv, NEW c \in Caller, Answer(c)
    PROVE  StubsInv'
<1>1. /\ TypeOKFraming /\ Shapes /\ Stages /\ Writing /\ Genuine /\ Once /\ Kept /\ Readers
      /\ Tears /\ SpoiltOnlyIf /\ InStep
  BY DEF StubsInv
<1> DEFINE t == AtServer(c)
<1>2. PICK outs \in Lists(Functions[caller[c].f].out) :
         /\ BeginWrite(t, ReturnMessage(c, caller[c].f, outs))
         /\ handler' = [handler EXCEPT ![c].pc = "writing", ![c].outs = outs]
  BY DEF Answer
<1>3. handler[c].pc = "running" /\ caller' = caller /\ leaving' = leaving
  BY DEF Answer
<1>4. PICK m : m = ReturnMessage(c, caller[c].f, outs)
  OBVIOUS
<1>5. caller[c].pc = "sent" /\ caller[c].f \in DOMAIN Functions
  BY <1>1, <1>3 DEF Stages
<1>6. m \in Messages
  BY <1>2, <1>4, <1>5, ReturnMessageIs
<1>7. t \in Thread /\ EndOf(t) = "server" /\ t[1] = c /\ out[t] = <<>>
  BY <1>1, <1>3, NamesOfThreads DEF Stages
<1> DEFINE r == [handler[c] EXCEPT !.pc = "writing", !.outs = outs]
<1>8. HandlerShape(r) /\ handler' = [handler EXCEPT ![c] = r] /\ r.pc = "writing" /\ r.outs = outs
      /\ r.res = handler[c].res
  <2>1. handler = [d \in Caller |-> handler[d]] /\ handler[c] = 
             [pc |-> handler[c].pc, res |-> handler[c].res,
              args |-> handler[c].args, outs |-> handler[c].outs]
    BY <1>1 DEF Shapes, HandlerShape
  <2>2. r = [pc |-> "writing", res |-> handler[c].res, args |-> handler[c].args, outs |-> outs]
    <3> DEFINE y == [handler[c] EXCEPT !.pc = "writing"]
    <3>1. y = [pc |-> "writing", res |-> handler[c].res, args |-> handler[c].args, outs |-> handler[c].outs]
      BY <2>1
    <3>2. r = [y EXCEPT !.outs = outs]
      OBVIOUS
    <3> HIDE DEF y, r
    <3> QED
      BY <3>1, <3>2
  <2>3. handler' = [handler EXCEPT ![c] = r]
    BY <1>2, <2>1
  <2> HIDE DEF r
  <2> QED
    BY <2>2, <2>3 DEF HandlerShape, HandlerPC
<1>9. /\ handler' = [d \in Caller |-> handler'[d]]
      /\ \A d \in Caller : HandlerShape(handler'[d])
      /\ handler'[c] = r
      /\ \A d \in Caller \ {c} : handler'[d] = handler[d]
  BY <1>1, <1>8, HandlerMoves
<1>10. handler'[c].pc = "writing" /\ handler'[c].outs = outs /\ handler'[c].res = handler[c].res
  BY <1>8, <1>9
<1> HIDE DEF t, r
<1>11. Shapes'
  BY <1>1, <1>3, <1>9 DEF Shapes
<1>12. UNCHANGED <<whole, state, stream, written, torn, spoilt, reader, got, sent, inbox>>
  BY <1>2 DEF BeginWrite
<1>13. \A u \in Thread : u # t => MessageOf(u)' = MessageOf(u)
  <2> SUFFICES ASSUME NEW u \in Thread, u # t PROVE MessageOf(u)' = MessageOf(u)
    OBVIOUS
  <2>1. u[1] \in Caller
    BY ThreadsAre
  <2>2. CASE u[1] # c
    BY <1>3, <1>9, <2>1, <2>2, MessageOfKept
  <2>3. CASE u[1] = c
    <3>1. EndOf(u) = "client"
      BY <2>3, ThreadIs, NamesOfThreads DEF t
    <3> QED
      BY <1>3, <3>1, MessageOfKept
  <2> QED
    BY <2>2, <2>3
<1>14. /\ TypeOKFraming' /\ Writing'
       /\ out'[t] # <<>> /\ \A u \in Thread : u # t => out'[u] = out[u]
  <2>1. MessageOf(t)' = m
    BY <1>3, <1>4, <1>7, <1>10 DEF MessageOf
  <2>2. BeginWrite(t, m)
    BY <1>2, <1>4
  <2> QED
    BY <1>1, <1>6, <1>7, <1>13, <2>1, <2>2, Accepted
<1>15. Stages'
  <2> SUFFICES ASSUME NEW d \in Caller
               PROVE  /\ caller'[d].pc # "idle" =>
                           /\ caller'[d].n > 0
                           /\ caller'[d].f \in DOMAIN Functions
                           /\ caller'[d].args \in Lists(Functions[caller'[d].f].in)
                      /\ handler'[d].pc # "idle" => caller'[d].pc = "sent"
                      /\ handler'[d].pc = "writing" =>
                           handler'[d].outs \in Lists(Functions[caller'[d].f].out)
                      /\ out'[AtClient(d)] # <<>> <=> caller'[d].pc = "writing"
                      /\ out'[AtServer(d)] # <<>> <=> handler'[d].pc = "writing"
    BY DEF Stages
  <2>1. CASE d = c
    <3>1. out'[AtServer(d)] # <<>> /\ out'[AtClient(d)] = out[AtClient(d)]
      BY <1>14, <2>1, NamesOfThreads DEF t
    <3> QED
      BY <1>1, <1>2, <1>3, <1>5, <1>10, <2>1, <3>1 DEF Stages
  <2>2. CASE d # c
    <3>1. handler'[d] = handler[d] /\ out'[AtClient(d)] = out[AtClient(d)] /\ out'[AtServer(d)] = out[AtServer(d)]
      BY <1>9, <1>14, <2>2, NamesOfThreads DEF t
    <3> QED
      BY <1>1, <1>3, <3>1 DEF Stages
  <2> QED
    BY <2>1, <2>2
<1>16. /\ \A e \in End : ~WithReader(c, e)
       /\ \A e \in End : \A i : ~OnStream(c, e, i)
  BY <1>1, <1>3, ServedIs
<1>17. Genuine'
  <2>1. ASSUME NEW e \in End, NEW x, IsMessage(x, e), ~Of(x, c) PROVE IsMessage(x, e)'
    BY <1>1, <1>3, <1>9, <2>1, IsMessageKept
  <2>2. \A e \in End : \A i \in DOMAIN sent[e] : ~Of(sent[e][i], c)
    BY <1>16 DEF OnStream
  <2>3. \A e \in End : inbox[e] # None => ~Of(inbox[e], c)
    BY <1>16 DEF WithReader
  <2>4. ASSUME NEW e \in End, NEW i \in DOMAIN sent[e], NEW x, x = sent[e][i] PROVE IsMessage(x, e)'
    <3>1. IsMessage(x, e) /\ ~Of(x, c)
      BY <1>1, <2>2, <2>4 DEF Genuine
    <3> QED
      BY <2>1, <3>1
  <2>5. ASSUME NEW e \in End, NEW x, x = inbox[e], x # None PROVE IsMessage(x, e)'
    <3>1. IsMessage(x, e) /\ ~Of(x, c)
      BY <1>1, <2>3, <2>5 DEF Genuine
    <3> QED
      BY <2>1, <3>1
  <2>6. sent' = sent /\ inbox' = inbox
    BY <1>12
  <2> QED
    BY <2>4, <2>5, <2>6 DEF Genuine, IsMessage
<1>18. Once' /\ Kept'
  <2>1. \A d \in Caller : /\ handler'[d].pc # "idle" <=> handler[d].pc # "idle"
                          /\ handler'[d].res = handler[d].res
    BY <1>3, <1>9, <1>10
  <2> QED
    BY <1>1, <1>3, <1>12, <2>1, PlacesKept
<1>19. Readers'
  BY <1>1, <1>12 DEF Readers
<1>20. Tears' /\ SpoiltOnlyIf'
  <2>1. ASSUME NEW u \in Thread, out'[u] # <<>>
        PROVE  out[u] # <<>> \/ (state[EndOf(u)] # "Active" => state[EndOf(u)] = "ClosedCleanedup")
    <3>1. CASE u # t
      BY <1>14, <2>1, <3>1
    <3>2. CASE u = t
      <4>1. ~Refuses(t)
        BY <1>2 DEF BeginWrite
      <4>2. EndOf(t) \in End
        BY <1>7, ThreadsAre
      <4> QED
        BY <1>1, <3>2, <4>1, <4>2 DEF Refuses, TypeOKFraming
    <3> QED
      BY <3>1, <3>2
  <2> QED
    BY <1>1, <1>3, <1>12, <2>1, TearsKept
<1>21. InStep'
  <2>1. \A u \in Thread : written[u] > 0 => MessageOf(u)' = MessageOf(u)
    BY <1>1, <1>7, <1>13, WritersAre
  <2> QED
    BY <1>1, <1>12, <2>1, StillInStep
<1> QED
  BY <1>11, <1>14, <1>15, <1>17, <1>18, <1>19, <1>20, <1>21 DEF StubsInv

-----------------------------------------------------------------------------
(* A message is delivered.                                                 *)

LEMMA DeliveredIs ==
    ASSUME StubsInv, NEW e \in End, Delivered(e), NEW c, c = CallerOf(inbox[e])
    PROVE  /\ c \in Caller /\ caller[c].pc = "sent"
           /\ handler[c].pc = "idle" /\ handler[c].res = "Success"
           /\ out[AtClient(c)] = <<>> /\ out[AtServer(c)] = <<>>
           /\ inbox[e] # None
           /\ inbox[e][3] = IF e = "server" THEN CmdCall ELSE CmdReturn
           /\ \A d \in Caller : Of(inbox[e], d) <=> d = c
           /\ \A g \in End : \A i : ~OnStream(c, g, i)
           /\ \A g \in End : WithReader(c, g) => g = e
<1>1. Readers /\ Genuine /\ Stages /\ Once
  BY DEF StubsInv
<1>2. inbox[e] # None
  BY <1>1 DEF Readers, Delivered
<1>3. IsMessage(inbox[e], e)
  BY <1>1, <1>2 DEF Genuine
<1>4. /\ c \in Caller /\ caller[c].pc = "sent"
      /\ inbox[e][3] = IF e = "server" THEN CmdCall ELSE CmdReturn
      /\ \A d \in Caller : Of(inbox[e], d) <=> d = c
  BY <1>1, <1>3, IsMessageIs
<1>5. WithReader(c, e)
  BY <1>2, <1>4 DEF WithReader
<1>6. OnceAt(c)
  BY <1>1, <1>4 DEF Once
<1>7. \A g \in End : \A i : OnStream(c, g, i) => i \in DOMAIN sent[g]
  BY DEF OnStream
<1>8. /\ Waits(c) /\ ~WithHandler(c)
      /\ \A g \in End : \A i : ~OnStream(c, g, i)
      /\ \A g \in End : WithReader(c, g) => g = e
  <2> HIDE DEF OnStream, WithReader, WithHandler, Waits
  <2> QED
    BY <1>5, <1>6, <1>7 DEF OnceAt
<1>9. handler[c].pc = "idle" /\ handler[c].res = "Success"
  BY <1>8 DEF Waits, WithHandler
<1>10. out[AtClient(c)] = <<>> /\ out[AtServer(c)] = <<>>
  BY <1>1, <1>4, <1>9 DEF Stages
<1> QED
  BY <1>2, <1>4, <1>8, <1>9, <1>10

LEMMA DeliveredKeeps ==
    ASSUME StubsInv, NEW e \in End, Delivered(e), NEW c, c = CallerOf(inbox[e]),
           Shapes', \A d \in Caller \ {c} : caller'[d] = caller[d] /\ handler'[d] = handler[d],
           caller'[c].n = caller[c].n, caller'[c].f = caller[c].f, caller'[c].args = caller[c].args,
           \/ /\ caller'[c].pc = "sent" /\ handler'[c].pc \in {"idle", "running"}
              /\ handler'[c].pc = "running" <=> handler'[c].res = "Success"
           \/ caller'[c].pc = "back" /\ handler'[c].pc = "idle" /\ handler'[c].res = "Success"
    PROVE  StubsInv'
<1>1. /\ TypeOKFraming /\ Shapes /\ Stages /\ Writing /\ Genuine /\ Once /\ Kept /\ Readers
      /\ Tears /\ SpoiltOnlyIf /\ InStep
  BY DEF StubsInv
<1>2. /\ c \in Caller /\ caller[c].pc = "sent"
      /\ handler[c].pc = "idle" /\ handler[c].res = "Success"
      /\ out[AtClient(c)] = <<>> /\ out[AtServer(c)] = <<>>
      /\ inbox[e] # None
      /\ \A d \in Caller : Of(inbox[e], d) <=> d = c
      /\ \A g \in End : \A i : ~OnStream(c, g, i)
      /\ \A g \in End : WithReader(c, g) => g = e
  <2>1. StubsInv /\ e \in End /\ Delivered(e) /\ c = CallerOf(inbox[e])
    OBVIOUS
  <2> HIDE DEF Delivered, CallerOf, StubsInv
  <2> QED
    BY ONLY <2>1, DeliveredIs
<1>3. /\ reader[e] = "deliver" /\ reader' = [reader EXCEPT ![e] = "check"]
      /\ inbox' = [inbox EXCEPT ![e] = None]
      /\ UNCHANGED <<whole, state, stream, out, written, torn, spoilt, got, sent>>
  BY DEF Delivered
<1>4. /\ reader'[e] = "check" /\ inbox'[e] = None
      /\ \A g \in End : g # e => reader'[g] = reader[g] /\ inbox'[g] = inbox[g]
  BY <1>1, <1>3 DEF TypeOKFraming
<1>5. TypeOKFraming'
  <2>1. inbox' \in [End -> Seq(Byte) \cup {None}]
    BY <1>1, <1>3 DEF TypeOKFraming
  <2>2. reader' \in [End -> {"check", "read", "deliver", "gone", "done"}]
    BY <1>1, <1>3 DEF TypeOKFraming
  <2> QED
    BY <1>1, <1>3, <2>1, <2>2 DEF TypeOKFraming
<1>6. Readers'
  <2> SUFFICES ASSUME NEW g \in End
               PROVE  /\ reader'[g] = "deliver" <=> inbox'[g] # None
                      /\ reader'[g] \in {"gone", "done"} => state'[g] # "Active"
                      /\ IsPart(got'[g])
    BY DEF Readers, IsPart, Missing, Number
  <2> QED
    BY <1>1, <1>3, <1>4 DEF Readers
<1>7. \A u \in Thread : out[u] # <<>> => MessageOf(u)' = MessageOf(u)
  <2> SUFFICES ASSUME NEW u \in Thread, out[u] # <<>> PROVE MessageOf(u)' = MessageOf(u)
    OBVIOUS
  <2>1. u[1] \in Caller /\ u[1] # c
    BY <1>2, ThreadsAre, ThreadIs
  <2> QED
    BY <2>1, MessageOfKept
<1>8. Writing'
  BY <1>1, <1>3, <1>7 DEF Writing
<1>9. Tears' /\ SpoiltOnlyIf'
  <2>1. \A d \in Caller : caller[d].n > 0 => caller'[d].n > 0
    OBVIOUS
  <2> QED
    BY <1>1, <1>3, <2>1, TearsKept
<1>10. InStep'
  <2>1. \A u \in Thread : written[u] > 0 => MessageOf(u)' = MessageOf(u)
    BY <1>1, <1>7, WritersAre
  <2>2. \A g \in End : reader'[g] \in {"check", "read", "deliver"} =>
                         reader[g] \in {"check", "read", "deliver"}
    BY <1>3, <1>4
  <2> QED
    BY <1>1, <1>3, <2>1, <2>2, StillInStep
<1>11. Stages'
  <2> SUFFICES ASSUME NEW d \in Caller
               PROVE  /\ caller'[d].pc # "idle" =>
                           /\ caller'[d].n > 0
                           /\ caller'[d].f \in DOMAIN Functions
                           /\ caller'[d].args \in Lists(Functions[caller'[d].f].in)
                      /\ handler'[d].pc # "idle" => caller'[d].pc = "sent"
                      /\ handler'[d].pc = "writing" =>
                           handler'[d].outs \in Lists(Functions[caller'[d].f].out)
                      /\ out'[AtClient(d)] # <<>> <=> caller'[d].pc = "writing"
                      /\ out'[AtServer(d)] # <<>> <=> handler'[d].pc = "writing"
    BY DEF Stages
  <2>1. CASE d = c
    BY <1>1, <1>2, <1>3, <2>1 DEF Stages
  <2>2. CASE d # c
    BY <1>1, <1>3, <2>2 DEF Stages
  <2> QED
    BY <2>1, <2>2
<1>12. Genuine'
  <2>1. ASSUME NEW g \in End, NEW x, IsMessage(x, g), ~Of(x, c) PROVE IsMessage(x, g)'
    BY <1>1, <1>2, <2>1, IsMessageKept
  <2>2. \A g \in End : \A i \in DOMAIN sent[g] : ~Of(sent[g][i], c)
    BY <1>2 DEF OnStream
  <2>3. ASSUME NEW g \in End, NEW i \in DOMAIN sent[g], NEW x, x = sent[g][i] PROVE IsMessage(x, g)'
    <3>1. IsMessage(x, g) /\ ~Of(x, c)
      BY <1>1, <2>2, <2>3 DEF Genuine
    <3> QED
      BY <2>1, <3>1
  <2>4. ASSUME NEW g \in End, NEW x, x = inbox'[g], x # None PROVE IsMessage(x, g)'
    <3>1. g # e /\ x = inbox[g]
      BY <1>4, <2>4
    <3>2. ~Of(x, c)
      BY <1>2, <2>4, <3>1 DEF WithReader
    <3>3. IsMessage(x, g)
      BY <1>1, <2>4, <3>1 DEF Genuine
    <3> QED
      BY <2>1, <3>2, <3>3
  <2>5. sent' = sent
    BY <1>3
  <2> QED
    BY <2>3, <2>4, <2>5 DEF Genuine, IsMessage
<1>13. \A d \in Caller : \A g \in End : \A i : OnStream(d, g, i)' <=> OnStream(d, g, i)
  BY <1>3 DEF OnStream, Of
<1>14. /\ \A g \in End : ~WithReader(c, g)'
       /\ \A d \in Caller \ {c} : \A g \in End : WithReader(d, g)' <=> WithReader(d, g)
  <2>1. \A g \in End : ~WithReader(c, g)'
    BY <1>2, <1>4 DEF WithReader, Of
  <2>2. ASSUME NEW d \in Caller \ {c}, NEW g \in End PROVE WithReader(d, g)' <=> WithReader(d, g)
    <3>1. CASE g = e
      BY <1>2, <1>4, <3>1 DEF WithReader, Of
    <3>2. CASE g # e
      BY <1>4, <3>2 DEF WithReader, Of
    <3> QED
      BY <3>1, <3>2
  <2> QED
    BY <2>1, <2>2
<1>15. /\ WithHandler(c)' => Waits(c)'
       /\ handler'[c].res # "Success" => caller'[c].pc = "sent"
       /\ Waits(c)' => WithHandler(c)'
  BY DEF WithHandler, Waits
<1>16. \A d \in Caller \ {c} : (WithHandler(d)' <=> WithHandler(d)) /\ (Waits(d)' <=> Waits(d))
  BY DEF WithHandler, Waits
<1>17. OnceAt(c)'
  <2>1. \A g \in End : \A i : ~OnStream(c, g, i)'
    BY <1>2, <1>13
  <2> HIDE DEF OnStream, WithReader, WithHandler, Waits
  <2> QED
    BY <1>14, <1>15, <2>1 DEF OnceAt
<1>18. ASSUME NEW d \in Caller \ {c} PROVE OnceAt(d)'
  <2>1. OnceAt(d)
    BY <1>1 DEF Once
  <2>2. handler'[d].res # "Success" => caller'[d].pc = "sent"
    BY <2>1 DEF OnceAt
  <2> QED
    BY <1>13, <1>14, <1>16, <2>1, <2>2, OnceKept
<1>19. Once'
  BY <1>17, <1>18 DEF Once
<1>20. Kept'
  <2> SUFFICES ASSUME \A g \in End : state'[g] = "Active", NEW d \in Caller, Waits(d)'
               PROVE  Somewhere(d)'
    BY DEF Kept
  <2>1. CASE d = c
    BY <1>15, <2>1 DEF Somewhere
  <2>2. CASE d # c
    <3>1. Somewhere(d)
      BY <1>1, <1>3, <1>16, <2>2 DEF Kept
    <3> QED
      BY <1>13, <1>14, <1>16, <2>2, <3>1, SomewhereKept
  <2> QED
    BY <2>1, <2>2
<1> QED
  BY <1>5, <1>6, <1>8, <1>9, <1>10, <1>11, <1>12, <1>19, <1>20 DEF StubsInv

LEMMA TakeCallKeeps ==
    ASSUME StubsInv, NEW e \in End, TakeCall(e)
    PROVE  StubsInv'
<1>1. PICK c : c = CallerOf(inbox[e])
  OBVIOUS
<1>2. Delivered(e) /\ Dispatch(c, After(inbox[e], 4)) /\ caller' = caller
  BY <1>1 DEF TakeCall
<1>3. /\ c \in Caller /\ caller[c].pc = "sent"
      /\ inbox[e][3] = IF e = "server" THEN CmdCall ELSE CmdReturn
  BY <1>1, <1>2, DeliveredIs
<1> DEFINE data == After(inbox[e], 4)
           args == DeserializeAll(Functions[data[1] + 1].in, After(data, 1))
           r == [pc |-> IF args.res = "Success" THEN "running" ELSE "idle", res |-> args.res,
                 args |-> args.val, outs |-> <<>>]
<1>4. /\ handler' = [handler EXCEPT ![c] = r]
      /\ leaving' = IF args.res = "Success" THEN leaving ELSE leaving + 1
  BY <1>2 DEF Dispatch
<1> HIDE DEF args
<1>5. /\ r.pc \in {"idle", "running"} /\ (r.pc = "running" <=> r.res = "Success")
      /\ HandlerShape(r)
  BY DEF HandlerShape, HandlerPC
<1> HIDE DEF r
<1>6. Shapes
  BY DEF StubsInv
<1>7. /\ handler' = [d \in Caller |-> handler'[d]]
      /\ \A d \in Caller : HandlerShape(handler'[d])
      /\ handler'[c] = r
      /\ \A d \in Caller \ {c} : handler'[d] = handler[d]
  BY <1>3, <1>4, <1>5, <1>6, HandlerMoves
<1>8. Shapes'
  BY <1>2, <1>4, <1>6, <1>7 DEF Shapes
<1> QED
  BY <1>1, <1>2, <1>3, <1>5, <1>7, <1>8, DeliveredKeeps

LEMMA TakeReturnKeeps ==
    ASSUME StubsInv, NEW e \in End, TakeReturn(e)
    PROVE  StubsInv'
<1>1. PICK c : c = CallerOf(inbox[e])
  OBVIOUS
<1>2. PICK outs : outs = DeserializeAll(Functions[caller[c].f].out, After(inbox[e], 3))
  OBVIOUS
<1>3. /\ Delivered(e) /\ handler' = handler /\ leaving' = leaving
      /\ caller' = [caller EXCEPT ![c] = [@ EXCEPT
                        !.pc = "back", !.res = outs.res, !.outs = outs.val]]
  BY <1>1, <1>2 DEF TakeReturn
<1>4. c \in Caller /\ handler[c].pc = "idle" /\ handler[c].res = "Success"
  BY <1>1, <1>3, DeliveredIs
<1>5. Shapes
  BY DEF StubsInv
<1> DEFINE old == caller[c]
           r == [old EXCEPT !.pc = "back", !.res = outs.res, !.outs = outs.val]
<1>6. /\ caller = [d \in Caller |-> caller[d]]
      /\ old = [pc |-> old.pc, n |-> old.n, f |-> old.f, args |-> old.args,
                res |-> old.res, outs |-> old.outs]
      /\ old.n \in Nat
  BY <1>4, <1>5 DEF Shapes, CallerShape
<1>7. caller' = [caller EXCEPT ![c] = r]
  BY <1>3, <1>4, <1>6
<1> HIDE DEF old
<1>8. r = [pc |-> "back", n |-> old.n, f |-> old.f, args |-> old.args,
           res |-> outs.res, outs |-> outs.val]
  <2> DEFINE y == [old EXCEPT !.pc = "back"]
             z == [y EXCEPT !.res = outs.res]
  <2>1. y = [pc |-> "back", n |-> old.n, f |-> old.f, args |-> old.args,
             res |-> old.res, outs |-> old.outs]
    BY <1>6
  <2>2. r = [z EXCEPT !.outs = outs.val]
    OBVIOUS
  <2> HIDE DEF y, r
  <2>3. z = [pc |-> "back", n |-> old.n, f |-> old.f, args |-> old.args,
             res |-> outs.res, outs |-> old.outs]
    BY <2>1
  <2> HIDE DEF z
  <2> QED
    BY <2>2, <2>3
<1> HIDE DEF r
<1>9. CallerShape(r) /\ r.pc = "back" /\ r.n = old.n /\ r.f = old.f /\ r.args = old.args
  BY <1>6, <1>8 DEF CallerShape, CallerPC
<1>10. /\ caller' = [d \in Caller |-> caller'[d]]
       /\ \A d \in Caller : CallerShape(caller'[d])
       /\ caller'[c] = r
       /\ \A d \in Caller \ {c} : caller'[d] = caller[d]
  BY <1>4, <1>5, <1>7, <1>9, CallerMoves
<1>11. Shapes'
  BY <1>3, <1>5, <1>10 DEF Shapes
<1>12. /\ caller'[c].n = caller[c].n /\ caller'[c].f = caller[c].f /\ caller'[c].args = caller[c].args
       /\ caller'[c].pc = "back"
  BY <1>9, <1>10 DEF old
<1> QED
  BY <1>1, <1>3, <1>4, <1>10, <1>11, <1>12, DeliveredKeeps

-----------------------------------------------------------------------------
(* A step of a reader that takes no message, or a cleanup.                 *)

LEMMA QuietKeeps ==
    ASSUME StubsInv,
           UNCHANGED <<whole, out, written, torn, spoilt, sent, inbox, caller, handler>>,
           leaving' \in Nat, TypeOKFraming', Readers', InStep',
           \A e \in End : /\ state[e] # "Active" => state'[e] # "Active"
                          /\ state[e] = "ClosedCleanedup" => state'[e] = "ClosedCleanedup"
    PROVE  StubsInv'
<1>1. /\ Shapes /\ Stages /\ Writing /\ Genuine /\ Once /\ Kept /\ Tears /\ SpoiltOnlyIf
  BY DEF StubsInv
<1>2. /\ \A t \in Thread : MessageOf(t)' = MessageOf(t)
      /\ \A e \in End : \A m : IsMessage(m, e) => IsMessage(m, e)'
  BY SameMessages
<1>3. Shapes' /\ Stages'
  BY <1>1 DEF Shapes, Stages
<1>4. Writing'
  BY <1>1, <1>2 DEF Writing
<1>5. Genuine'
  <2>1. ASSUME NEW e \in End, NEW i \in DOMAIN sent[e], NEW m, m = sent[e][i] PROVE IsMessage(m, e)'
    BY <1>1, <1>2, <2>1 DEF Genuine
  <2>2. ASSUME NEW e \in End, NEW m, m = inbox'[e], m # None PROVE IsMessage(m, e)'
    BY <1>1, <1>2, <2>2 DEF Genuine
  <2>3. sent' = sent
    OBVIOUS
  <2> QED
    BY ONLY <2>1, <2>2, <2>3 DEF Genuine, IsMessage
<1>6. Once' /\ Kept'
  BY <1>1, PlacesKept
<1>7. Tears' /\ SpoiltOnlyIf'
  BY <1>1, TearsKept
<1> QED
  BY <1>3, <1>4, <1>5, <1>6, <1>7 DEF StubsInv

LEMMA ReaderCheckKeeps ==
    ASSUME StubsInv, NEW e \in End, ReaderCheck(e), UNCHANGED <<caller, handler, leaving>>
    PROVE  StubsInv'
<1>1. TypeOKFraming /\ Shapes /\ Readers /\ InStep
  BY DEF StubsInv
<1>2. /\ reader[e] = "check"
      /\ reader' = [reader EXCEPT ![e] = IF state[e] = "Closed" THEN "gone" ELSE "read"]
      /\ UNCHANGED <<whole, state, stream, out, written, torn, spoilt, got, sent, inbox>>
  BY DEF ReaderCheck
<1>3. reader' \in [End -> {"check", "read", "deliver", "gone", "done"}]
  BY <1>1, <1>2 DEF TypeOKFraming
<1>4. TypeOKFraming'
  BY <1>1, <1>2, <1>3 DEF TypeOKFraming
<1>5. /\ reader'[e] = IF state[e] = "Closed" THEN "gone" ELSE "read"
      /\ \A g \in End : g # e => reader'[g] = reader[g]
  BY <1>1, <1>2 DEF TypeOKFraming
<1>6. Readers'
  <2> SUFFICES ASSUME NEW g \in End
               PROVE  /\ reader'[g] = "deliver" <=> inbox'[g] # None
                      /\ reader'[g] \in {"gone", "done"} => state'[g] # "Active"
                      /\ IsPart(got'[g])
    BY DEF Readers, IsPart, Missing, Number
  <2> QED
    BY <1>1, <1>2, <1>5 DEF Readers
<1>7. \A t \in Thread : MessageOf(t)' = MessageOf(t)
  BY SameMessages
<1>8. InStep'
  BY <1>1, <1>2, <1>5, <1>7, StillInStep
<1>9. leaving' \in Nat
  BY <1>1 DEF Shapes
<1> QED
  BY <1>2, <1>4, <1>6, <1>8, <1>9, QuietKeeps

LEMMA ReadFailsKeeps ==
    ASSUME StubsInv, NEW e \in End, ReadFails(e), UNCHANGED <<caller, handler, leaving>>
    PROVE  StubsInv'
<1>1. TypeOKFraming /\ Shapes /\ Readers /\ InStep
  BY DEF StubsInv
<1>2. /\ reader[e] = "read"
      /\ reader' = [reader EXCEPT ![e] = "gone"]
      /\ got' = [got EXCEPT ![e] = <<>>]
      /\ state' = [state EXCEPT ![e] = IF state[e] = "Active" THEN "Closed" ELSE state[e]]
      /\ UNCHANGED <<whole, stream, out, written, torn, spoilt, sent, inbox>>
  BY DEF ReadFails, Close
<1>3. /\ reader' \in [End -> {"check", "read", "deliver", "gone", "done"}]
      /\ got' \in [End -> Seq(Byte)]
  BY <1>1, <1>2 DEF TypeOKFraming
<1>4. /\ state' \in [End -> {"Active", "Closed", "ClosedCleanedup"}]
      /\ \A g \in End : /\ state[g] # "Active" => state'[g] # "Active"
                        /\ state[g] = "ClosedCleanedup" => state'[g] = "ClosedCleanedup"
      /\ state'[e] # "Active"
  BY <1>1, <1>2 DEF TypeOKFraming
<1>5. TypeOKFraming'
  BY <1>1, <1>2, <1>3, <1>4 DEF TypeOKFraming
<1>6. /\ reader'[e] = "gone" /\ got'[e] = <<>>
      /\ \A g \in End : g # e => reader'[g] = reader[g] /\ got'[g] = got[g]
  BY <1>1, <1>2 DEF TypeOKFraming
<1>7. Readers'
  <2> SUFFICES ASSUME NEW g \in End
               PROVE  /\ reader'[g] = "deliver" <=> inbox'[g] # None
                      /\ reader'[g] \in {"gone", "done"} => state'[g] # "Active"
                      /\ IsPart(got'[g])
    BY DEF Readers, IsPart, Missing, Number
  <2>1. IsPart(<<>>)
    BY DEF IsPart
  <2> QED
    BY <1>1, <1>2, <1>4, <1>6, <2>1 DEF Readers
<1>8. \A t \in Thread : MessageOf(t)' = MessageOf(t)
  BY SameMessages
<1>9. InStep'
  <2> SUFFICES ASSUME NEW g \in End PROVE InStepAt(g)'
    BY DEF InStep
  <2>1. CASE g = e
    BY <1>6, <2>1 DEF InStepAt
  <2>2. CASE g # e
    <3>1. InStepAt(g) /\ Arriving(g)' = Arriving(g)
      BY <1>1, <1>2, <1>6, <2>2 DEF InStep, Arriving
    <3> QED
      BY <1>2, <1>6, <1>8, <2>2, <3>1, SameInStep
  <2> QED
    BY <2>1, <2>2
<1>10. leaving' \in Nat
  BY <1>1 DEF Shapes
<1> QED
  BY <1>2, <1>4, <1>5, <1>7, <1>9, <1>10, QuietKeeps

\* What a cleanup leaves of the invariant.
LEMMA CleanupLeaves ==
    ASSUME TypeOKFraming, NEW g \in End, NEW busy, Cleanup(g, busy)
    PROVE  /\ state' \in [End -> {"Active", "Closed", "ClosedCleanedup"}]
           /\ \A e \in End : /\ state[e] # "Active" => state'[e] # "Active"
                             /\ state[e] = "ClosedCleanedup" => state'[e] = "ClosedCleanedup"
<1>1. PICK s : s = IF state[g] = "Closed" /\ ~busy THEN "ClosedCleanedup" ELSE state[g]
  OBVIOUS
<1>2. state' = [state EXCEPT ![g] = s]
  BY <1>1 DEF Cleanup
<1>3. \/ s = state[g]
      \/ s = "ClosedCleanedup" /\ state[g] = "Closed"
  BY <1>1
<1> QED
  BY <1>2, <1>3 DEF TypeOKFraming

LEMMA ReaderExitKeeps ==
    ASSUME StubsInv, NEW e \in End, NEW busy, ReaderExit(e, busy),
           UNCHANGED <<caller, handler, leaving>>
    PROVE  StubsInv'
<1>1. TypeOKFraming /\ Shapes /\ Readers /\ InStep
  BY DEF StubsInv
<1>2. /\ reader[e] = "gone"
      /\ reader' = [reader EXCEPT ![e] = "done"]
      /\ Cleanup(e, busy)
      /\ UNCHANGED <<whole, stream, out, written, torn, spoilt, got, sent, inbox>>
  BY DEF ReaderExit
<1>3. reader' \in [End -> {"check", "read", "deliver", "gone", "done"}]
  BY <1>1, <1>2 DEF TypeOKFraming
<1>4. /\ state' \in [End -> {"Active", "Closed", "ClosedCleanedup"}]
      /\ \A g \in End : /\ state[g] # "Active" => state'[g] # "Active"
                        /\ state[g] = "ClosedCleanedup" => state'[g] = "ClosedCleanedup"
  BY <1>1, <1>2, CleanupLeaves
<1>5. TypeOKFraming'
  BY <1>1, <1>2, <1>3, <1>4 DEF TypeOKFraming
<1>6. /\ reader'[e] = "done"
      /\ \A g \in End : g # e => reader'[g] = reader[g]
  BY <1>1, <1>2 DEF TypeOKFraming
<1>7. Readers'
  <2> SUFFICES ASSUME NEW g \in End
               PROVE  /\ reader'[g] = "deliver" <=> inbox'[g] # None
                      /\ reader'[g] \in {"gone", "done"} => state'[g] # "Active"
                      /\ IsPart(got'[g])
    BY DEF Readers, IsPart, Missing, Number
  <2> QED
    BY <1>1, <1>2, <1>4, <1>6 DEF Readers
<1>8. \A t \in Thread : MessageOf(t)' = MessageOf(t)
  BY SameMessages
<1>9. InStep'
  BY <1>1, <1>2, <1>6, <1>8, StillInStep
<1>10. leaving' \in Nat
  BY <1>1 DEF Shapes
<1> QED
  BY <1>2, <1>4, <1>5, <1>7, <1>9, <1>10, QuietKeeps

LEMMA CallOutKeeps ==
    ASSUME StubsInv, CallOut
    PROVE  StubsInv'
<1>1. TypeOKFraming /\ Shapes /\ Readers /\ InStep
  BY DEF StubsInv
<1>2. PICK busy, e : Cleanup(e, busy) /\ e \in End
  BY DEF CallOut, End
<1>3. /\ leaving > 0 /\ leaving' = leaving - 1
      /\ UNCHANGED <<whole, stream, out, written, torn, spoilt, reader, got, sent, inbox,
                     caller, handler>>
  BY DEF CallOut
<1>4. /\ state' \in [End -> {"Active", "Closed", "ClosedCleanedup"}]
      /\ \A g \in End : /\ state[g] # "Active" => state'[g] # "Active"
                        /\ state[g] = "ClosedCleanedup" => state'[g] = "ClosedCleanedup"
  BY <1>1, <1>2, CleanupLeaves
<1>5. TypeOKFraming'
  BY <1>1, <1>3, <1>4 DEF TypeOKFraming
<1>6. Readers'
  <2> SUFFICES ASSUME NEW g \in End
               PROVE  /\ reader'[g] = "deliver" <=> inbox'[g] # None
                      /\ reader'[g] \in {"gone", "done"} => state'[g] # "Active"
                      /\ IsPart(got'[g])
    BY DEF Readers, IsPart, Missing, Number
  <2> QED
    BY <1>1, <1>3, <1>4 DEF Readers
<1>7. \A t \in Thread : MessageOf(t)' = MessageOf(t)
  BY <1>3, SameMessages
<1>8. InStep'
  BY <1>1, <1>3, <1>7, StillInStep
<1>9. leaving' \in Nat
  BY <1>1, <1>3 DEF Shapes
<1> QED
  BY <1>3, <1>4, <1>5, <1>6, <1>8, <1>9, QuietKeeps

-----------------------------------------------------------------------------
(* A reader gets bytes; with the last of a message it takes it.            *)

LEMMA ReadPartTypes ==
    ASSUME StubsInv, NEW e \in End, NEW n \in DOMAIN stream[e], ReadPart(e, n),
           NEW bytes, bytes = got[e] \o SubSeq(stream[e], 1, n)
    PROVE  /\ UNCHANGED <<whole, state, out, written, torn, spoilt>>
           /\ reader[e] = "read" /\ inbox[e] = None
           /\ bytes \in Seq(Byte)
           /\ stream' \in [End -> Seq(Byte)]
           /\ got' \in [End -> Seq(Byte)]
           /\ \A g \in End : IsPart(got'[g])
           /\ IF Len(bytes) >= 4 /\ Missing(bytes) = 0
              THEN /\ inbox' = [inbox EXCEPT ![e] = Content(bytes)]
                   /\ sent' = [sent EXCEPT ![e] = After(@, 1)]
                   /\ reader' = [reader EXCEPT ![e] = "deliver"]
              ELSE UNCHANGED <<inbox, sent, reader>>
<1>1. TypeOKFraming /\ Readers
  BY DEF StubsInv
<1> DEFINE last == Len(bytes) >= 4 /\ Missing(bytes) = 0
<1>2. /\ UNCHANGED <<whole, state, out, written, torn, spoilt>>
      /\ reader[e] = "read"
      /\ stream' = [stream EXCEPT ![e] = After(@, n)]
      /\ got' = [got EXCEPT ![e] = IF last THEN <<>> ELSE bytes]
      /\ IF last
         THEN /\ inbox' = [inbox EXCEPT ![e] = Content(bytes)]
              /\ sent' = [sent EXCEPT ![e] = After(@, 1)]
              /\ reader' = [reader EXCEPT ![e] = "deliver"]
         ELSE UNCHANGED <<inbox, sent, reader>>
  BY DEF ReadPart
<1>3. /\ bytes \in Seq(Byte)
      /\ stream'[e] \in Seq(Byte)
      /\ IsPart(bytes) \/ last
  BY <1>1, ReadIs
<1>4. inbox[e] = None
  BY <1>1, <1>2 DEF Readers
<1> HIDE DEF last
<1>5. stream' \in [End -> Seq(Byte)]
  BY <1>1, <1>2, <1>3 DEF TypeOKFraming
<1>6. /\ got'[e] = IF last THEN <<>> ELSE bytes
      /\ \A g \in End : g # e => got'[g] = got[g]
      /\ got' \in [End -> Seq(Byte)]
  BY <1>1, <1>2, <1>3 DEF TypeOKFraming
<1>7. ASSUME NEW g \in End PROVE IsPart(got'[g])
  <2>1. IsPart(<<>>)
    BY DEF IsPart
  <2>2. IsPart(got[g])
    BY <1>1 DEF Readers
  <2> QED
    BY <1>3, <1>6, <2>1, <2>2
<1> QED
  BY <1>2, <1>3, <1>4, <1>5, <1>6, <1>7 DEF last

LEMMA ReadOnKeeps ==
    ASSUME StubsInv, NEW e \in End, NEW n \in DOMAIN stream[e], ReadPart(e, n),
           UNCHANGED <<caller, handler, leaving>>,
           UNCHANGED <<inbox, sent, reader>>
    PROVE  StubsInv'
<1>1. /\ TypeOKFraming /\ Shapes /\ Stages /\ Writing /\ Genuine /\ Readers /\ InStep
  BY DEF StubsInv
<1>2. PICK bytes : bytes = got[e] \o SubSeq(stream[e], 1, n)
  OBVIOUS
<1>3. /\ UNCHANGED <<whole, state, out, written, torn, spoilt>>
      /\ stream' \in [End -> Seq(Byte)]
      /\ got' \in [End -> Seq(Byte)]
      /\ \A g \in End : IsPart(got'[g])
  BY <1>2, ReadPartTypes
<1>4. TypeOKFraming'
  BY <1>1, <1>3 DEF TypeOKFraming
<1>5. Readers'
  <2> SUFFICES ASSUME NEW g \in End
               PROVE  /\ reader'[g] = "deliver" <=> inbox'[g] # None
                      /\ reader'[g] \in {"gone", "done"} => state'[g] # "Active"
                      /\ IsPart(got'[g])
    BY DEF Readers, IsPart, Missing, Number
  <2> QED
    BY <1>1, <1>3 DEF Readers
<1>6. \A t \in Thread : MessageOf(t)' = MessageOf(t)
  BY SameMessages
<1>7. InStep'
  <2>1. sent[e] \in Seq(Messages)
    BY <1>1, SentAre
  <2>2. \A t \in Thread : written[t] > 0 => MessageOf(t) \in Messages
    BY <1>1, WritersAre
  <2> QED
    BY <1>1, <1>6, <2>1, <2>2, ReadInStep
<1>8. leaving' \in Nat
  BY <1>1 DEF Shapes
<1> QED
  BY <1>3, <1>4, <1>5, <1>7, <1>8, QuietKeeps

\* The first message of a stream is taken: those behind it move up.
LEMMA FirstGone ==
    ASSUME TypeOKFraming, NEW e \in End, sent[e] # <<>>,
           sent' = [sent EXCEPT ![e] = After(@, 1)]
    PROVE  /\ sent' \in [End -> Seq(Seq(Byte))]
           /\ \A i : i \in DOMAIN sent'[e] <=> i \in 1 .. Len(sent[e]) - 1
           /\ \A i \in 1 .. Len(sent[e]) - 1 : sent'[e][i] = sent[e][i + 1]
           /\ \A g \in End : g # e => sent'[g] = sent[g]
<1>1. sent[e] \in Seq(Seq(Byte)) /\ 1 \in 0 .. Len(sent[e])
  <2>1. sent[e] \in Seq(Seq(Byte))
    BY DEF TypeOKFraming
  <2> QED
    BY <2>1, AfterOne
<1>2. PICK rest : rest = After(sent[e], 1)
  OBVIOUS
<1>3. /\ rest \in Seq(Seq(Byte)) /\ Len(rest) = Len(sent[e]) - 1
      /\ \A i \in 1 .. Len(sent[e]) - 1 : rest[i] = sent[e][1 + i]
  BY <1>1, <1>2, CutAre
<1>4. sent' = [sent EXCEPT ![e] = rest]
  BY <1>2
<1>5. sent'[e] = rest /\ \A g \in End : g # e => sent'[g] = sent[g]
  BY <1>4 DEF TypeOKFraming
<1>6. sent' \in [End -> Seq(Seq(Byte))]
  BY <1>3, <1>4 DEF TypeOKFraming
<1>7. DOMAIN rest = 1 .. Len(sent[e]) - 1
  BY <1>3
<1>8. \A i \in 1 .. Len(sent[e]) - 1 : sent[e][i + 1] = sent[e][1 + i]
  BY <1>1
<1> QED
  BY <1>3, <1>5, <1>6, <1>7, <1>8

\* The reader of end e takes the first message of its stream, one of c.
TakesFirst(e, c) ==
    /\ sent[e] # <<>>
    /\ inbox[e] = None
    /\ sent[e][1] # None
    /\ inbox' = [inbox EXCEPT ![e] = sent[e][1]]
    /\ sent' = [sent EXCEPT ![e] = After(@, 1)]
    /\ \A d \in Caller : Of(sent[e][1], d) <=> d = c

\* What has come first on the stream to e is with the reader now.
LEMMA MovedUp ==
    ASSUME TypeOKFraming, NEW e \in End, NEW c \in Caller, TakesFirst(e, c)
    PROVE  /\ \E i : i = 1 /\ OnStream(c, e, i)
           /\ \A d \in Caller : \A i : OnStream(d, e, i) /\ i = 1 => d = c
           /\ \A d \in Caller : \A g \in End : \A i : g # e => (OnStream(d, g, i)' <=> OnStream(d, g, i))
           /\ \A d \in Caller : \A i : OnStream(d, e, i)' =>
                i \in Nat \ {0} /\ \E j : j = i + 1 /\ OnStream(d, e, j)
           /\ \A d \in Caller : \A i : OnStream(d, e, i) /\ i # 1 => \E j : OnStream(d, e, j)'
           /\ \A d \in Caller : ~WithReader(d, e)
           /\ \A d \in Caller : WithReader(d, e)' <=> d = c
           /\ \A d \in Caller : \A g \in End : g # e => (WithReader(d, g)' <=> WithReader(d, g))
<1>0. PICK m : m = sent[e][1]
  OBVIOUS
<1> /\ sent[e] # <<>> /\ inbox[e] = None /\ m # None
    /\ inbox' = [inbox EXCEPT ![e] = m]
    /\ sent' = [sent EXCEPT ![e] = After(@, 1)]
    /\ \A d \in Caller : Of(m, d) <=> d = c
  BY <1>0 DEF TakesFirst
<1>1. sent[e] \in Seq(Seq(Byte)) /\ 1 \in DOMAIN sent[e]
  <2>1. sent[e] \in Seq(Seq(Byte))
    BY DEF TypeOKFraming
  <2> QED
    BY <2>1, AfterOne
<1>2. PICK l : l = Len(sent[e])
  OBVIOUS
<1>3. l \in Nat /\ DOMAIN sent[e] = 1 .. l
  BY <1>1, <1>2
<1>4. /\ \A i : i \in DOMAIN sent'[e] <=> i \in 1 .. l - 1
      /\ \A i \in 1 .. l - 1 : sent'[e][i] = sent[e][i + 1]
      /\ \A g \in End : g # e => sent'[g] = sent[g]
  BY <1>2, FirstGone
<1>5. inbox'[e] = m /\ \A g \in End : g # e => inbox'[g] = inbox[g]
  BY DEF TypeOKFraming
<1>6. OnStream(c, e, 1) /\ \A d \in Caller : OnStream(d, e, 1) => d = c
  BY <1>0, <1>1 DEF OnStream
<1>7. \A d \in Caller : \A g \in End : \A i : g # e => (OnStream(d, g, i)' <=> OnStream(d, g, i))
  BY <1>4 DEF OnStream, Of
<1>8. ASSUME NEW d \in Caller, NEW i PROVE OnStream(d, e, i)' <=> i \in 1 .. l - 1 /\ OnStream(d, e, i + 1)
  <2>1. OnStream(d, e, i)' <=> i \in 1 .. l - 1 /\ Of(sent'[e][i], d)
    BY <1>4 DEF OnStream, Of
  <2>2. ASSUME i \in 1 .. l - 1 PROVE Of(sent'[e][i], d) <=> OnStream(d, e, i + 1)
    BY <1>3, <1>4, <2>2 DEF OnStream
  <2> QED
    BY <2>1, <2>2
<1>9. \A d \in Caller : \A i : OnStream(d, e, i)' => i \in Nat \ {0} /\ OnStream(d, e, i + 1)
  BY <1>3, <1>8
<1>10. ASSUME NEW d \in Caller, NEW i, OnStream(d, e, i), i # 1 PROVE \E j : OnStream(d, e, j)'
  <2>1. i \in 1 .. l
    BY <1>3, <1>10 DEF OnStream
  <2>2. PICK j : j = i - 1
    OBVIOUS
  <2>3. j \in 1 .. l - 1 /\ j + 1 = i
    BY <1>3, <1>10, <2>1, <2>2
  <2>4. OnStream(d, e, j)'
    BY <1>8, <1>10, <2>3
  <2> QED
    BY <2>4
<1>11. /\ \A d \in Caller : ~WithReader(d, e)
       /\ \A d \in Caller : WithReader(d, e)' <=> d = c
       /\ \A d \in Caller : \A g \in End : g # e => (WithReader(d, g)' <=> WithReader(d, g))
  BY <1>5 DEF WithReader, Of
<1> QED
  <2>1. \E i : i = 1 /\ OnStream(c, e, i)
    BY <1>6
  <2>2. \A d \in Caller : \A i : OnStream(d, e, i) /\ i = 1 => d = c
    BY <1>6
  <2>3. \A d \in Caller : \A i : OnStream(d, e, i)' =>
          i \in Nat \ {0} /\ \E j : j = i + 1 /\ OnStream(d, e, j)
    BY <1>9
  <2> QED
    BY <1>7, <1>10, <1>11, <2>1, <2>2, <2>3

LEMMA TakenPlaces ==
    ASSUME TypeOKFraming, Once, Kept, NEW e \in End, NEW c \in Caller, TakesFirst(e, c),
           UNCHANGED <<caller, handler, state>>
    PROVE  Once' /\ Kept'
<1>1. /\ \E i : i = 1 /\ OnStream(c, e, i)
      /\ \A d \in Caller : \A i : OnStream(d, e, i) /\ i = 1 => d = c
      /\ \A d \in Caller : \A g \in End : \A i : g # e => (OnStream(d, g, i)' <=> OnStream(d, g, i))
      /\ \A d \in Caller : \A i : OnStream(d, e, i)' =>
                i \in Nat \ {0} /\ \E j : j = i + 1 /\ OnStream(d, e, j)
      /\ \A d \in Caller : \A i : OnStream(d, e, i) /\ i # 1 => \E j : OnStream(d, e, j)'
      /\ \A d \in Caller : ~WithReader(d, e)
      /\ \A d \in Caller : WithReader(d, e)' <=> d = c
      /\ \A d \in Caller : \A g \in End : g # e => (WithReader(d, g)' <=> WithReader(d, g))
  BY MovedUp
<1>2. \A d \in Caller : (Waits(d)' <=> Waits(d)) /\ (WithHandler(d)' <=> WithHandler(d))
  BY DEF Waits, WithHandler
<1>3. /\ \A d \in Caller : \A g \in End : \A i : OnStream(d, g, i) => i \in DOMAIN sent[g]
      /\ \A d \in Caller : \A g \in End : \A i : OnStream(d, g, i)' => i \in DOMAIN sent'[g]
  BY DEF OnStream
<1>4. ASSUME NEW d \in Caller
      PROVE  /\ \A g, h \in End : \A i, j : OnStream(d, g, i) /\ OnStream(d, h, j) => h = g /\ j = i
             /\ \A g \in End : \A i : OnStream(d, g, i) =>
                  Waits(d) /\ ~WithHandler(d) /\ \A h \in End : ~WithReader(d, h)
             /\ \A g \in End : WithReader(d, g) =>
                  Waits(d) /\ ~WithHandler(d) /\ \A h \in End : WithReader(d, h) => h = g
             /\ WithHandler(d) => Waits(d)
             /\ handler[d].res # "Success" => caller[d].pc = "sent"
  <2>1. OnceAt(d)
    BY DEF Once
  <2> HIDE DEF OnStream, WithReader, WithHandler, Waits
  <2> QED
    BY ONLY <1>3, <1>4, <2>1 DEF OnceAt
<1>5. ASSUME NEW d \in Caller PROVE OnceAt(d)'
  <2>1. \A g, h \in End : \A i, j : OnStream(d, g, i)' /\ OnStream(d, h, j)' => h = g /\ j = i
    <3> SUFFICES ASSUME NEW g \in End, NEW h \in End, NEW i, NEW j,
                        OnStream(d, g, i)', OnStream(d, h, j)'
                 PROVE  h = g /\ j = i
      OBVIOUS
    <3>1. CASE g = e /\ h = e
      <4>1. PICK k : i \in Nat /\ k = i + 1 /\ OnStream(d, e, k)
        BY <1>1, <3>1
      <4>2. PICK l : j \in Nat /\ l = j + 1 /\ OnStream(d, e, l)
        BY <1>1, <3>1
      <4>3. k = l
        BY <1>4, <4>1, <4>2
      <4> QED
        BY <3>1, <4>1, <4>2, <4>3
    <3>2. CASE g # e /\ h # e
      BY <1>1, <1>4, <3>2
    <3>3. CASE g = e /\ h # e
      BY <1>1, <1>4, <3>3
    <3>4. CASE g # e /\ h = e
      BY <1>1, <1>4, <3>4
    <3> QED
      BY <3>1, <3>2, <3>3, <3>4
  <2>2. ASSUME NEW g \in End, NEW i, OnStream(d, g, i)'
        PROVE  Waits(d)' /\ ~WithHandler(d)' /\ \A h \in End : ~WithReader(d, h)'
    <3>1. d # c
      <4>1. CASE g = e
        <5>1. PICK j : i \in Nat \ {0} /\ j = i + 1 /\ OnStream(d, e, j)
          BY <1>1, <2>2, <4>1
        <5>2. j # 1
          BY <5>1
        <5> QED
          BY <1>1, <1>4, <5>1, <5>2
      <4>2. CASE g # e
        BY <1>1, <1>4, <2>2, <4>2
      <4> QED
        BY <4>1, <4>2
    <3>2. PICK h \in End : \E j : OnStream(d, h, j)
      BY <1>1, <2>2
    <3>3. Waits(d) /\ ~WithHandler(d) /\ \A k \in End : ~WithReader(d, k)
      BY <1>4, <3>2
    <3> QED
      BY <1>1, <1>2, <3>1, <3>3
  <2>3. ASSUME NEW g \in End, WithReader(d, g)'
        PROVE  Waits(d)' /\ ~WithHandler(d)' /\ \A h \in End : WithReader(d, h)' => h = g
    <3>1. CASE d = c
      BY <1>1, <1>2, <1>4, <2>3, <3>1
    <3>2. CASE d # c
      BY <1>1, <1>2, <1>4, <2>3, <3>2
    <3> QED
      BY <3>1, <3>2
  <2>4. /\ WithHandler(d)' => Waits(d)'
        /\ handler'[d].res # "Success" => caller'[d].pc = "sent"
    BY <1>2, <1>4
  <2> HIDE DEF OnStream, WithReader, WithHandler, Waits
  <2> QED
    BY <2>1, <2>2, <2>3, <2>4 DEF OnceAt
<1>6. Kept'
  <2> SUFFICES ASSUME \A g \in End : state'[g] = "Active", NEW d \in Caller, Waits(d)'
               PROVE  Somewhere(d)'
    BY DEF Kept
  <2>1. Somewhere(d)
    BY <1>2 DEF Kept
  <2>2. CASE WithHandler(d)
    BY <1>2, <2>2 DEF Somewhere
  <2>3. ASSUME NEW g \in End, WithReader(d, g) PROVE Somewhere(d)'
    BY <1>1, <2>3 DEF Somewhere
  <2>4. ASSUME NEW g \in End, NEW i, OnStream(d, g, i) PROVE Somewhere(d)'
    <3>1. CASE g # e
      <4>1. OnStream(d, g, i)'
        BY <1>1, <2>4, <3>1
      <4> QED
        BY ONLY <1>3, <2>4, <4>1, d \in Caller DEF Somewhere
    <3>2. CASE g = e /\ i # 1
      <4>1. PICK j : OnStream(d, e, j)'
        BY <1>1, <2>4, <3>2
      <4> QED
        BY ONLY <1>3, <4>1, d \in Caller, e \in End DEF Somewhere
    <3>3. CASE g = e /\ i = 1
      <4>1. WithReader(d, e)'
        BY <1>1, <2>4, <3>3
      <4> QED
        BY <4>1 DEF Somewhere
    <3> QED
      BY <3>1, <3>2, <3>3
  <2> QED
    BY <2>1, <2>2, <2>3, <2>4 DEF Somewhere
<1> QED
  BY <1>5, <1>6 DEF Once

\* What a reader takes is the first message of its stream.
LEMMA TakesIt ==
    ASSUME StubsInv, NEW e \in End, NEW n \in DOMAIN stream[e], ReadPart(e, n),
           NEW bytes, bytes = got[e] \o SubSeq(stream[e], 1, n),
           4 <= Len(bytes), Missing(bytes) = 0
    PROVE  /\ TakesFirst(e, CallerOf(sent[e][1])) /\ CallerOf(sent[e][1]) \in Caller
           /\ IsMessage(sent[e][1], e)
           /\ sent[e][1] = Head(sent[e]) /\ After(sent[e], 1) = Tail(sent[e])
           /\ reader' = [reader EXCEPT ![e] = "deliver"]
<1>1. /\ TypeOKFraming /\ Stages /\ Writing /\ Genuine /\ Readers /\ InStep
  BY DEF StubsInv
<1>2. Len(bytes) >= 4
  <2>1. bytes \in Seq(Byte)
    BY <1>1, ReadIs
  <2> QED
    BY <2>1
<1>3. /\ inbox[e] = None
      /\ inbox' = [inbox EXCEPT ![e] = Content(bytes)]
      /\ sent' = [sent EXCEPT ![e] = After(@, 1)]
      /\ reader' = [reader EXCEPT ![e] = "deliver"]
  BY <1>2, ReadPartTypes
<1>4. sent[e] \in Seq(Messages)
  BY <1>1, SentAre
<1>5. \A t \in Thread : written[t] > 0 => MessageOf(t) \in Messages
  BY <1>1, WritersAre
<1>6. sent[e] # <<>> /\ Content(bytes) = sent[e][1]
  BY <1>1, <1>4, <1>5, Received
<1>7. sent[e][1] = Head(sent[e]) /\ After(sent[e], 1) = Tail(sent[e]) /\ 1 \in DOMAIN sent[e]
  BY <1>4, <1>6, AfterOne
<1>8. PICK m : m = sent[e][1]
  OBVIOUS
<1>9. IsMessage(m, e)
  BY <1>1, <1>7, <1>8, SentAre
<1>10. /\ m # None /\ CallerOf(m) \in Caller
       /\ \A d \in Caller : Of(m, d) <=> d = CallerOf(m)
  BY <1>1, <1>9, IsMessageIs
<1>11. TakesFirst(e, CallerOf(m))
  BY <1>3, <1>6, <1>8, <1>10 DEF TakesFirst
<1> QED
  BY <1>3, <1>7, <1>8, <1>9, <1>10, <1>11

LEMMA ReadTakesKeeps ==
    ASSUME StubsInv, NEW e \in End, NEW n \in DOMAIN stream[e], ReadPart(e, n),
           UNCHANGED <<caller, handler, leaving>>,
           NEW bytes, bytes = got[e] \o SubSeq(stream[e], 1, n),
           4 <= Len(bytes), Missing(bytes) = 0
    PROVE  StubsInv'
<1>1. /\ TypeOKFraming /\ Shapes /\ Stages /\ Writing /\ Genuine /\ Once /\ Kept /\ Readers
      /\ Tears /\ SpoiltOnlyIf /\ InStep
  BY DEF StubsInv
<1>2. PICK m, c : m = sent[e][1] /\ c = CallerOf(m)
  OBVIOUS
<1>3. /\ TakesFirst(e, c) /\ c \in Caller /\ IsMessage(m, e)
      /\ reader' = [reader EXCEPT ![e] = "deliver"]
  BY <1>2, TakesIt
<1>4. /\ UNCHANGED <<whole, state, out, written, torn, spoilt>>
      /\ stream' \in [End -> Seq(Byte)]
      /\ got' \in [End -> Seq(Byte)]
      /\ \A g \in End : IsPart(got'[g])
  BY ReadPartTypes
<1>5. /\ sent[e] # <<>> /\ m # None /\ inbox' = [inbox EXCEPT ![e] = m]
      /\ sent' = [sent EXCEPT ![e] = After(@, 1)]
  BY <1>2, <1>3 DEF TakesFirst
<1>6. /\ sent' \in [End -> Seq(Seq(Byte))]
      /\ \A i : i \in DOMAIN sent'[e] <=> i \in 1 .. Len(sent[e]) - 1
      /\ \A i \in 1 .. Len(sent[e]) - 1 : sent'[e][i] = sent[e][i + 1]
      /\ \A g \in End : g # e => sent'[g] = sent[g]
  BY <1>1, <1>5, FirstGone
<1>7. m \in Seq(Byte)
  <2>1. m \in Messages
    BY <1>1, <1>3, IsMessageIs
  <2> QED
    BY <2>1, MessagesAre
<1>8. /\ inbox' \in [End -> Seq(Byte) \cup {None}]
      /\ reader' \in [End -> {"check", "read", "deliver", "gone", "done"}]
      /\ inbox'[e] = m /\ reader'[e] = "deliver"
      /\ \A g \in End : g # e => inbox'[g] = inbox[g] /\ reader'[g] = reader[g]
  BY <1>1, <1>3, <1>5, <1>7 DEF TypeOKFraming
<1>9. TypeOKFraming'
  BY <1>1, <1>4, <1>6, <1>8 DEF TypeOKFraming
<1>10. Readers'
  <2> SUFFICES ASSUME NEW g \in End
               PROVE  /\ reader'[g] = "deliver" <=> inbox'[g] # None
                      /\ reader'[g] \in {"gone", "done"} => state'[g] # "Active"
                      /\ IsPart(got'[g])
    BY DEF Readers, IsPart, Missing, Number
  <2> QED
    BY <1>1, <1>4, <1>5, <1>8 DEF Readers
<1>11. /\ \A t \in Thread : MessageOf(t)' = MessageOf(t)
       /\ \A g \in End : \A x : IsMessage(x, g) => IsMessage(x, g)'
  BY SameMessages
<1>12. InStep'
  <2>1. sent[e] \in Seq(Messages)
    BY <1>1, SentAre
  <2>2. \A t \in Thread : written[t] > 0 => MessageOf(t) \in Messages
    BY <1>1, WritersAre
  <2> QED
    BY <1>1, <1>11, <2>1, <2>2, ReadInStep
<1>13. Shapes' /\ Stages'
  BY <1>1, <1>4 DEF Shapes, Stages
<1>14. Writing'
  BY <1>1, <1>4, <1>11 DEF Writing
<1>15. Once' /\ Kept'
  BY <1>1, <1>3, <1>4, TakenPlaces
<1>16. Tears' /\ SpoiltOnlyIf'
  BY <1>1, <1>4, TearsKept
<1>17. Genuine'
  <2>1. ASSUME NEW g \in End, NEW i \in DOMAIN sent'[g], NEW x, x = sent'[g][i] PROVE IsMessage(x, g)'
    <3>1. PICK j \in DOMAIN sent[g] : x = sent[g][j]
      <4>1. CASE g = e
        <5>1. sent[e] \in Seq(Seq(Byte))
          BY <1>1 DEF TypeOKFraming
        <5>2. i \in 1 .. Len(sent[e]) - 1
          BY <1>6, <2>1, <4>1
        <5>3. i + 1 \in DOMAIN sent[e]
          BY <5>1, <5>2
        <5>4. x = sent[e][i + 1]
          BY <1>6, <2>1, <4>1, <5>2
        <5> QED
          BY <4>1, <5>3, <5>4
      <4>2. CASE g # e
        BY <1>6, <2>1, <4>2
      <4> QED
        BY <4>1, <4>2
    <3> QED
      BY <1>1, <1>11, <3>1 DEF Genuine
  <2>2. ASSUME NEW g \in End, NEW x, x = inbox'[g], x # None PROVE IsMessage(x, g)'
    <3>1. CASE g = e
      BY <1>3, <1>8, <1>11, <2>2, <3>1
    <3>2. CASE g # e
      BY <1>1, <1>8, <1>11, <2>2, <3>2 DEF Genuine
    <3> QED
      BY <3>1, <3>2
  <2> QED
    BY ONLY <2>1, <2>2 DEF Genuine, IsMessage
<1> QED
  BY <1>9, <1>10, <1>12, <1>13, <1>14, <1>15, <1>16, <1>17 DEF StubsInv

-----------------------------------------------------------------------------
(* The invariant.                                                          *)

LEMMA ReadPartKeeps ==
    ASSUME StubsInv, NEW e \in End, NEW n \in DOMAIN stream[e], ReadPart(e, n),
           UNCHANGED <<caller, handler, leaving>>
    PROVE  StubsInv'
<1>1. PICK bytes : bytes = got[e] \o SubSeq(stream[e], 1, n)
  OBVIOUS
<1>2. bytes \in Seq(Byte)
  BY <1>1, ReadPartTypes
<1>3. CASE 4 <= Len(bytes) /\ Missing(bytes) = 0
  BY <1>1, <1>3, ReadTakesKeeps
<1>4. CASE ~(4 <= Len(bytes) /\ Missing(bytes) = 0)
  <2>1. ~(Len(bytes) >= 4 /\ Missing(bytes) = 0)
    BY <1>2, <1>4
  <2>2. UNCHANGED <<inbox, sent, reader>>
    BY <1>1, <2>1, ReadPartTypes
  <2> QED
    BY <2>2, ReadOnKeeps
<1> QED
  BY <1>3, <1>4

LEMMA StutterKeeps ==
    ASSUME StubsInv, UNCHANGED vars
    PROVE  StubsInv'
<1>1. /\ TypeOKFraming /\ Shapes /\ Stages /\ Writing /\ Readers /\ InStep /\ Tears /\ SpoiltOnlyIf
  BY DEF StubsInv
<1>2. UNCHANGED framing /\ UNCHANGED <<caller, handler, leaving>>
  BY DEF vars
<1>3. \A t \in Thread : MessageOf(t)' = MessageOf(t)
  BY <1>2, SameMessages
<1>4. TypeOKFraming' /\ Readers' /\ InStep'
  BY <1>1, <1>2, <1>3, FramingSame
<1>5. UNCHANGED <<whole, out, written, torn, spoilt, sent, inbox, state>>
  BY <1>2 DEF framing
<1>6. leaving' \in Nat
  BY <1>1, <1>2 DEF Shapes
<1> QED
  BY <1>2, <1>4, <1>5, <1>6, QuietKeeps

LEMMA Inductive == StubsInv /\ [Next]_vars => StubsInv'
<1> SUFFICES ASSUME StubsInv, [Next]_vars PROVE StubsInv'
  OBVIOUS
<1>1. ASSUME NEW c \in Caller, Calls(c) PROVE StubsInv'
  BY <1>1, CallKeeps, WriteCallKeeps, CallFailsKeeps DEF Calls
<1>2. ASSUME NEW c \in Caller, Serves(c) PROVE StubsInv'
  BY <1>2, FunctionFailsKeeps, AnswerKeeps, AnswerRefusedKeeps, WriteReturnKeeps,
     ReturnFailsKeeps DEF Serves
<1>3. ASSUME NEW e \in End, Reads(e) PROVE StubsInv'
  BY <1>3, ReaderCheckKeeps, ReadPartKeeps, TakeCallKeeps, TakeReturnKeeps, ReadFailsKeeps,
     ReaderExitKeeps DEF Reads
<1> QED
  BY <1>1, <1>2, <1>3, CallOutKeeps, StutterKeeps DEF Next

LEMMA NothingArrives == ASSUME NEW S PROVE <<>> \o <<>> = <<>> /\ <<>> \in Seq(S) /\ Len(<<>>) = 0
  OBVIOUS

LEMMA InitInStep ==
    ASSUME Init PROVE InStep
<1> SUFFICES ASSUME NEW e \in End PROVE InStepAt(e)
  BY DEF InStep
<1>1. /\ sent[e] = <<>> /\ Arriving(e) = <<>> /\ torn = {}
      /\ \A t \in Thread : written[t] = 0
  BY NothingArrives DEF Init, InitFraming, Arriving
<1>2. PICK cut : cut = [i \in 0 .. 0 |-> 0]
  OBVIOUS
<1>3. /\ cut \in [0 .. Len(sent[e]) -> 0 .. Len(Arriving(e))]
      /\ cut[0] = 0 /\ Len(sent[e]) = 0 /\ Len(Arriving(e)) = 0
  BY <1>1, <1>2, NothingArrives
<1>4. InFrames(Arriving(e), sent[e], cut)
  BY <1>3 DEF InFrames
<1>5. Rest(e, cut)
  BY <1>1, <1>3 DEF Rest
<1> QED
  BY <1>3, <1>4, <1>5 DEF InStepAt

LEMMA InitInv == Init => StubsInv
<1> SUFFICES ASSUME Init PROVE StubsInv
  OBVIOUS
<1>1. InitFraming /\ leaving = 0
      /\ caller = [c \in Caller |-> Nobody]
      /\ handler = [c \in Caller |-> [pc |-> "idle", res |-> "Success", args |-> <<>>, outs |-> <<>>]]
  BY DEF Init
<1>2. TypeOKFraming
  BY <1>1 DEF InitFraming, TypeOKFraming
<1>3. Shapes
  BY <1>1 DEF Shapes, CallerShape, HandlerShape, Nobody, CallerPC, HandlerPC
<1>4. \A t \in Thread : out[t] = <<>> /\ written[t] = 0
  BY <1>1 DEF InitFraming
<1>5. \A c \in Caller : /\ caller[c].pc = "idle" /\ caller[c].n = 0
                        /\ handler[c].pc = "idle" /\ handler[c].res = "Success"
                        /\ AtClient(c) \in Thread /\ AtServer(c) \in Thread
  BY <1>1, ThreadsAre DEF Nobody
<1>6. Stages
  BY <1>4, <1>5 DEF Stages
<1>7. Writing
  BY <1>4 DEF Writing
<1>8. \A e \in End : sent[e] = <<>> /\ inbox[e] = None
  BY <1>1 DEF InitFraming
<1>9. Genuine
  BY <1>8 DEF Genuine
<1>10. Once /\ Kept
  <2>1. ASSUME NEW c \in Caller
        PROVE  /\ \A e \in End : ~WithReader(c, e)
               /\ \A e \in End : \A i \in DOMAIN sent[e] : ~OnStream(c, e, i)
               /\ ~WithHandler(c) /\ ~Waits(c)
    BY <1>5, <1>8 DEF WithReader, OnStream, WithHandler, Waits
  <2> QED
    BY <1>5, <2>1 DEF Once, OnceAt, Kept
<1>11. Readers
  BY <1>1 DEF InitFraming, Readers, IsPart
<1>12. Tears /\ SpoiltOnlyIf
  BY <1>1 DEF InitFraming, Tears, SpoiltOnlyIf
<1>13. InStep
  BY InitInStep
<1> QED
  BY <1>2, <1>3, <1>6, <1>7, <1>9, <1>10, <1>11, <1>12, <1>13 DEF StubsInv

\* After every step: what arrives at either end are the frames of the messages
\* sent there, in order, then what has been written of the next, until a frame
\* begins amidst another; each message is that of a caller who waits, or of his
\* handler, and each such caller has it in one place (sendMessage, recvMessage,
\* handleCall, the stubs).
THEOREM AlwaysInStep == Spec => []StubsInv
  BY InitInv, Inductive, PTL DEF Spec

-----------------------------------------------------------------------------
(* What follows from it.                                                   *)

\* A frame begins amidst another only where two threads write, or where a
\* connection takes messages after its cleanup (sendMessage, write_all).
THEOREM SpoiltOnlyThen == Spec => []SpoiltOnlyIf
<1>1. StubsInv => SpoiltOnlyIf
  BY DEF StubsInv
<1> QED
  BY <1>1, AlwaysInStep, PTL

LEMMA SendIsSend ==
    ASSUME StubsInv, NEW t \in Thread, NEW n \in DOMAIN out[t], WritePart(t, n),
           IF out'[t] = <<>> THEN Sends(t, MessageOf(t)) ELSE SendsNothing
    PROVE  UNCHANGED <<sent, inbox>> \/ Channel!Next
<1>1. /\ TypeOKFraming /\ Stages
  BY DEF StubsInv
<1>2. inbox' = inbox
  BY DEF WritePart
<1>3. CASE out'[t] # <<>>
  BY <1>2, <1>3 DEF SendsNothing
<1>4. CASE out'[t] = <<>>
  <2>1. out[t] # <<>>
    BY <1>1
  <2>2. PICK e, m : e = Peer(EndOf(t)) /\ m = MessageOf(t)
    OBVIOUS
  <2>3. m \in Messages
    BY <1>1, <2>1, <2>2, WriterIs
  <2>4. e \in End
    BY <2>2 DEF Peer, End
  <2>5. sent' = [sent EXCEPT ![e] = Append(@, m)]
    BY <1>4, <2>2 DEF Sends
  <2> QED
    BY <1>2, <2>3, <2>4, <2>5 DEF Channel!Next, Channel!Send
<1> QED
  BY <1>3, <1>4

LEMMA ReceiveIsReceive ==
    ASSUME StubsInv, NEW e \in End, NEW n \in DOMAIN stream[e], ReadPart(e, n)
    PROVE  UNCHANGED <<sent, inbox>> \/ Channel!Next
<1>1. PICK bytes : bytes = got[e] \o SubSeq(stream[e], 1, n)
  OBVIOUS
<1>2. bytes \in Seq(Byte)
  BY <1>1, ReadPartTypes
<1>3. CASE 4 <= Len(bytes) /\ Missing(bytes) = 0
  <2>1. PICK c : c = CallerOf(sent[e][1])
    OBVIOUS
  <2>2. TakesFirst(e, c) /\ sent[e][1] = Head(sent[e]) /\ After(sent[e], 1) = Tail(sent[e])
    BY <1>1, <1>3, <2>1, TakesIt
  <2>3. /\ sent[e] # <<>> /\ inbox[e] = None
        /\ inbox' = [inbox EXCEPT ![e] = Head(sent[e])]
        /\ sent' = [sent EXCEPT ![e] = Tail(@)]
    BY <2>2 DEF TakesFirst
  <2> QED
    BY <2>3 DEF Channel!Next, Channel!Receive
<1>4. CASE ~(4 <= Len(bytes) /\ Missing(bytes) = 0)
  <2>1. ~(Len(bytes) >= 4 /\ Missing(bytes) = 0)
    BY <1>2, <1>4
  <2> QED
    BY <1>1, <2>1, ReadPartTypes
<1> QED
  BY <1>3, <1>4

LEMMA DeliverIsDeliver ==
    ASSUME StubsInv, NEW e \in End, Delivered(e)
    PROVE  Channel!Next
<1>1. Readers
  BY DEF StubsInv
<1>2. /\ inbox[e] # None /\ inbox' = [inbox EXCEPT ![e] = None] /\ sent' = sent
  BY <1>1 DEF Readers, Delivered
<1> QED
  BY <1>2 DEF Channel!Next, Channel!Deliver

LEMMA ChannelStep ==
    StubsInv /\ [Next]_vars => [UNCHANGED Channel!vars \/ spoilt' # {} \/ Channel!Next]_vars
<1> SUFFICES ASSUME StubsInv, Next PROVE UNCHANGED <<sent, inbox>> \/ Channel!Next
  BY DEF Channel!vars
<1>1. ASSUME NEW c \in Caller, Call(c) PROVE UNCHANGED <<sent, inbox>>
  BY <1>1 DEF Call, BeginWrite, framing
<1>2. ASSUME NEW c \in Caller, WriteCall(c) PROVE UNCHANGED <<sent, inbox>> \/ Channel!Next
  <2>1. PICK t, n : t = AtClient(c) /\ n \in DOMAIN out[t] /\ WritePart(t, n)
    BY <1>2 DEF WriteCall
  <2>2. MessageOf(t) = CallMessage(c, caller[c].f, caller[c].args) /\ t \in Thread
    BY <2>1, NamesOfThreads DEF MessageOf
  <2>3. IF out'[t] = <<>> THEN Sends(t, MessageOf(t)) ELSE SendsNothing
    BY <1>2, <2>1, <2>2 DEF WriteCall
  <2> QED
    BY <2>1, <2>2, <2>3, SendIsSend
<1>3. ASSUME NEW c \in Caller, CallFails(c) PROVE UNCHANGED <<sent, inbox>>
  BY <1>3 DEF CallFails, WriteFails
<1>4. ASSUME NEW c \in Caller, FunctionFails(c) \/ AnswerRefused(c) PROVE UNCHANGED <<sent, inbox>>
  BY <1>4 DEF FunctionFails, AnswerRefused, framing
<1>5. ASSUME NEW c \in Caller, Answer(c) PROVE UNCHANGED <<sent, inbox>>
  BY <1>5 DEF Answer, BeginWrite
<1>6. ASSUME NEW c \in Caller, WriteReturn(c) PROVE UNCHANGED <<sent, inbox>> \/ Channel!Next
  <2>1. PICK t, n : t = AtServer(c) /\ n \in DOMAIN out[t] /\ WritePart(t, n)
    BY <1>6 DEF WriteReturn
  <2>2. MessageOf(t) = ReturnMessage(c, caller[c].f, handler[c].outs) /\ t \in Thread
    BY <2>1, NamesOfThreads DEF MessageOf
  <2>3. IF out'[t] = <<>> THEN Sends(t, MessageOf(t)) ELSE SendsNothing
    BY <1>6, <2>1, <2>2 DEF WriteReturn
  <2> QED
    BY <2>1, <2>2, <2>3, SendIsSend
<1>7. ASSUME NEW c \in Caller, ReturnFails(c) PROVE UNCHANGED <<sent, inbox>>
  BY <1>7 DEF ReturnFails, WriteFails
<1>8. ASSUME NEW e \in End, Reads(e) PROVE UNCHANGED <<sent, inbox>> \/ Channel!Next
  <2>1. CASE ReaderCheck(e) \/ ReadFails(e) \/ ReaderExit(e, Busy(e, 0))
    BY <2>1 DEF ReaderCheck, ReadFails, ReaderExit
  <2>2. CASE \E n \in DOMAIN stream[e] : ReadPart(e, n)
    BY <2>2, ReceiveIsReceive
  <2>3. CASE TakeCall(e) \/ TakeReturn(e)
    BY <2>3, DeliverIsDeliver DEF TakeCall, TakeReturn
  <2> QED
    BY <1>8, <2>1, <2>2, <2>3 DEF Reads
<1>9. ASSUME CallOut PROVE UNCHANGED <<sent, inbox>>
  BY <1>9 DEF CallOut
<1> QED
  BY <1>1, <1>2, <1>3, <1>4, <1>5, <1>6, <1>7, <1>8, <1>9 DEF Next, Calls, Serves

\* Whole messages arrive, in order, each once and unchanged, in whatever parts
\* sendMessage and recvMessage write and read their frames.
THEOREM StreamsAreChannels == Spec => ChannelsOfMessages
  BY AlwaysInStep, ChannelStep, PTL DEF Spec, ChannelsOfMessages

\* The places, one by one.
LEMMA WhereaboutsAre ==
    ASSUME Shapes, NEW c \in Caller
    PROVE  \A x : x \in Whereabouts(c) <=>
             \/ \E e \in End : \E i : x = <<"sent", e, i>> /\ OnStream(c, e, i)
             \/ \E e \in End : x = <<"inbox", e>> /\ WithReader(c, e)
             \/ x = <<"handler", handler[c].pc>> /\ WithHandler(c)
<1>1. WithHandler(c) <=> handler[c].pc \in {"running", "writing"}
  BY DEF Shapes, HandlerShape, HandlerPC, WithHandler
<1>2. ASSUME NEW x PROVE x \in OnTheWay(c) <=> \E e \in End : \E i : x = <<"sent", e, i>> /\ OnStream(c, e, i)
  <2>1. x \in OnTheWay(c) <=>
          \E e \in End : x \in {<<"sent", e, i>> : i \in {j \in DOMAIN sent[e] : Of(sent[e][j], c)}}
    BY Zenon DEF OnTheWay
  <2>2. ASSUME NEW e
        PROVE  x \in {<<"sent", e, i>> : i \in {j \in DOMAIN sent[e] : Of(sent[e][j], c)}} <=>
                 \E i : x = <<"sent", e, i>> /\ OnStream(c, e, i)
    BY Zenon DEF OnStream
  <2> QED
    BY <2>1, <2>2, Zenon
<1>3. ASSUME NEW x PROVE x \in InHand(c) <=> \E e \in End : x = <<"inbox", e>> /\ WithReader(c, e)
  BY Zenon DEF InHand, WithReader
<1>4. ASSUME NEW x PROVE x \in AtWork(c) <=> x = <<"handler", handler[c].pc>> /\ WithHandler(c)
  BY <1>1, Zenon DEF AtWork
<1> QED
  BY <1>2, <1>3, <1>4 DEF Whereabouts

LEMMA OnePlace ==
    ASSUME Shapes, Once, Kept, \A e \in End : state[e] = "Active", NEW c \in Caller
    PROVE  Cardinality(Whereabouts(c)) = IF Waits(c) THEN 1 ELSE 0
<1>1. \A x : x \in Whereabouts(c) <=>
             \/ \E e \in End : \E i : x = <<"sent", e, i>> /\ OnStream(c, e, i)
             \/ \E e \in End : x = <<"inbox", e>> /\ WithReader(c, e)
             \/ x = <<"handler", handler[c].pc>> /\ WithHandler(c)
  BY WhereaboutsAre
<1>2. CASE ~Waits(c)
  <2>1. Whereabouts(c) = {}
    BY <1>1, <1>2, NowhereIs
  <2> QED
    BY <1>2, <2>1, FS_EmptySet
<1>3. CASE Waits(c)
  <2>1. \A e \in End : \A i : OnStream(c, e, i) => i \in DOMAIN sent[e]
    BY DEF OnStream
  <2>2. OnceAt(c) /\ Somewhere(c)
    BY <1>3 DEF Once, Kept
  <2>3. \E x : Whereabouts(c) = {x}
    <3>1. CASE WithHandler(c)
      <4>1. Whereabouts(c) = {<<"handler", handler[c].pc>>}
        BY <1>1, <2>1, <2>2, <3>1 DEF OnceAt
      <4> QED
        BY <4>1
    <3>2. ASSUME NEW e \in End, WithReader(c, e) PROVE \E x : Whereabouts(c) = {x}
      <4>1. ~WithHandler(c) /\ \A g \in End : WithReader(c, g) => g = e
        BY <2>2, <3>2 DEF OnceAt
      <4>2. \A g \in End : \A i : ~OnStream(c, g, i)
        BY <2>1, <2>2, <3>2 DEF OnceAt
      <4>3. Whereabouts(c) = {<<"inbox", e>>}
        BY <1>1, <3>2, <4>1, <4>2
      <4> QED
        BY <4>3
    <3>3. ASSUME NEW e \in End, NEW i, OnStream(c, e, i) PROVE \E x : Whereabouts(c) = {x}
      <4>1. ~WithHandler(c) /\ \A g \in End : ~WithReader(c, g)
        BY <2>1, <2>2, <3>3 DEF OnceAt
      <4>2. \A g \in End : \A j : OnStream(c, g, j) => g = e /\ j = i
        BY <2>1, <2>2, <3>3 DEF OnceAt
      <4>3. Whereabouts(c) = {<<"sent", e, i>>}
        BY <1>1, <3>3, <4>1, <4>2
      <4> QED
        BY <4>3
    <3> QED
      BY <2>2, <3>1, <3>2, <3>3 DEF Somewhere
  <2> QED
    BY <1>3, <2>3, FS_Singleton
<1> QED
  BY <1>2, <1>3

LEMMA EnoughArrives ==
    ASSUME TypeOKFraming, Stages, Genuine, Readers, InStep, NEW e \in End,
           e \notin spoilt, reader[e] \notin {"gone", "done"}, sent[e] # <<>>
    PROVE  Missing(got[e]) <= Len(stream[e])
<1>1. /\ Arriving(e) \in Seq(Byte) /\ got[e] \in Seq(Byte) /\ stream[e] \in Seq(Byte)
      /\ Len(got[e]) \in Nat /\ Len(stream[e]) \in Nat
      /\ Len(Arriving(e)) = Len(got[e]) + Len(stream[e])
      /\ \A k \in 1 .. Len(got[e]) : Arriving(e)[k] = got[e][k]
  BY ArrivingIs
<1>2. reader[e] \in {"check", "read", "deliver"}
  BY DEF TypeOKFraming
<1>3. PICK cut \in [0 .. Len(sent[e]) -> 0 .. Len(Arriving(e))] : InFrames(Arriving(e), sent[e], cut)
  BY <1>2 DEF InStep, InStepAt
<1>4. sent[e] \in Seq(Messages)
  BY SentAre
<1>5. sent[e][1] \in Messages /\ Len(sent[e]) > 0
  BY <1>4, AfterOne
<1>6. PICK m, l : m = sent[e][1] /\ l = Len(sent[e])
  OBVIOUS
<1>7. l \in Nat /\ l > 0
  BY <1>4, <1>5, <1>6
<1>8. /\ Len(m) \in Nat /\ Len(Frame(m)) = Len(m) + 4
      /\ \A b : (\A k \in 1 .. 4 : b[k] = Frame(m)[k]) => Number(b) = Len(m)
  BY <1>5, <1>6, FramesAre
<1>9. 1 \in 0 .. l /\ 1 \in 1 .. l /\ 1 - 1 = 0
  BY <1>7
<1>10. cut[1] \in 0 .. Len(Arriving(e)) /\ cut[0] = 0
  BY <1>3, <1>6, <1>9 DEF InFrames
<1>11. cut[1] = cut[1 - 1] + Len(Frame(m)) /\ HasAt(Arriving(e), cut[1 - 1], Frame(m), Len(Frame(m)))
  BY <1>3, <1>6, <1>9 DEF InFrames
<1>12. cut[1] = Len(m) + 4 /\ HasAt(Arriving(e), 0, Frame(m), Len(m) + 4)
  BY <1>8, <1>9, <1>10, <1>11
<1>13. PICK g, r, q, p : g = Len(got[e]) /\ r = Len(stream[e]) /\ q = Len(m) /\ p = cut[1]
  OBVIOUS
<1>14. g \in Nat /\ r \in Nat /\ q \in Nat /\ p \in 0 .. g + r /\ p = q + 4
  BY <1>1, <1>8, <1>10, <1>12, <1>13
<1>15. q + 4 <= g + r
  BY <1>14
<1>16. CASE g < 4
  <2>1. Missing(got[e]) = 4 - g
    BY <1>13, <1>16 DEF Missing
  <2>2. 4 - g <= r
    BY <1>14, <1>15
  <2> QED
    BY <1>13, <2>1, <2>2
<1>17. CASE ~(g < 4)
  <2>1. \A k \in 1 .. 4 : k \in 1 .. g /\ k \in 1 .. q + 4
    BY <1>14, <1>17
  <2>2. ASSUME NEW k \in 1 .. 4 PROVE got[e][k] = Frame(m)[k]
    <3>1. Arriving(e)[0 + k] = Frame(m)[k]
      BY <1>12, <1>13, <2>1 DEF HasAt
    <3>2. 0 + k = k
      OBVIOUS
    <3> QED
      BY <1>1, <1>13, <2>1, <3>1, <3>2
  <2>3. Number(got[e]) = q
    BY <1>8, <1>13, <2>2
  <2>4. Missing(got[e]) = 4 + q - g
    BY <1>13, <1>17, <2>3 DEF Missing
  <2>5. 4 + q - g <= r
    BY <1>14, <1>15
  <2> QED
    BY <1>13, <2>4, <2>5
<1> QED
  BY <1>16, <1>17

\* While both connections are Active and no frame has begun amidst another, a
\* caller that waits for a return waits for one thing that goes on, and no
\* reader asks for bytes that are not there (sendMessage, recvMessage).
THEOREM SomethingGoesOn == Spec => []WaitsForSomething
<1>1. StubsInv => WaitsForSomething
  <2> SUFFICES ASSUME StubsInv, spoilt = {}, \A e \in End : state[e] = "Active"
               PROVE  /\ \A c \in Caller : Cardinality(Whereabouts(c)) = IF Waits(c) THEN 1 ELSE 0
                      /\ \A e \in End : /\ reader[e] \notin {"gone", "done"}
                                        /\ sent[e] # <<>> => Missing(got[e]) <= Len(stream[e])
    BY DEF WaitsForSomething, Waits
  <2>1. TypeOKFraming /\ Shapes /\ Stages /\ Genuine /\ Once /\ Kept /\ Readers /\ InStep
    BY DEF StubsInv
  <2>2. \A c \in Caller : Cardinality(Whereabouts(c)) = IF Waits(c) THEN 1 ELSE 0
    BY <2>1, OnePlace
  <2>3. \A e \in End : reader[e] \notin {"gone", "done"}
    BY <2>1 DEF Readers
  <2>4. \A e \in End : sent[e] # <<>> => Missing(got[e]) <= Len(stream[e])
    BY <2>1, <2>3, EnoughArrives
  <2> QED
    BY <2>2, <2>3, <2>4
<1> QED
  BY <1>1, AlwaysInStep, PTL

=============================================================================
