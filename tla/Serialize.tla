------------------------------ MODULE Serialize ------------------------------
(***************************************************************************)
(* What the arguments of a remote call become in a message                 *)
(* (serialize.cpp), and what the other end makes of it.                    *)
(*                                                                         *)
(* A byte is a digit to the base Base, 256 in the program: nothing here    *)
(* depends on more than its being even, so that a small Base shows on few  *)
(* values what happens at the edges of all.                                *)
(***************************************************************************)
EXTENDS Integers, Sequences, SequencesExt

CONSTANT Base  \* values of a byte

ASSUME BaseAssumption == Base \in Nat \ {0} /\ Base % 2 = 0

Byte == 0 .. Base - 1

\* How many numbers there are of 16 bits, and of 32.
Short == Base * Base
Long == Short * Short

Type == {"uint16_t", "uint32_t", "int", "bool", "string", "vector_of_string"}

\* The values of a type.
ValueOf(type) ==
    CASE type = "uint16_t" -> 0 .. Short - 1
      [] type = "uint32_t" -> 0 .. Long - 1
      [] type = "int" -> -(Long \div 2) .. Long \div 2 - 1
      [] type = "bool" -> BOOLEAN
      [] type = "string" -> Seq(Byte)
      [] type = "vector_of_string" -> Seq(Seq(Byte))

\* The lower two or four bytes of a number, the highest first: (x>>24)&0xff
\* and so on.
Bytes2(x) == <<(x \div Base) % Base, x % Base>>
Bytes4(x) == Bytes2(x \div Short) \o Bytes2(x)

\* The number that the first four bytes make up.
Number(b) == ((b[1] * Base + b[2]) * Base + b[3]) * Base + b[4]

\* A byte taken for a char, which has a sign.
Signed(d) == IF 2 * d >= Base THEN d - Base ELSE d

\* The value of a 32-bit pattern as an int.
AsInt(x) == IF 2 * x >= Long THEN x - Long ELSE x

-----------------------------------------------------------------------------
\* serialize<T>: what is appended to the data.
serialize_int(x) == Bytes4(x)
serialize_string(s) == serialize_int(Len(s)) \o s
serialize(type, x) ==
    CASE type = "uint16_t" -> Bytes2(x)
      [] type \in {"uint32_t", "int"} -> serialize_int(x)
      [] type = "bool" -> <<IF x THEN 1 ELSE 0>>
      [] type = "string" -> serialize_string(x)
      [] type = "vector_of_string" ->
           FoldLeft(LAMBDA data, s : data \o serialize_string(s), serialize_int(Len(x)), x)

-----------------------------------------------------------------------------
\* deserialize<T>: the result, the value, and what is left of the data.  None
\* of them looks at the value if the result is not Success.
Taken(x, data) == [res |-> "Success", val |-> x, data |-> data]
Refused(res, data) == [res |-> res, val |-> <<>>, data |-> data]
After(data, n) == SubSeq(data, n + 1, Len(data))

\* What is read goes on with what was read before, if that was not refused.
Then(x, Rest(_, _)) == IF x.res = "Success" THEN Rest(x.val, x.data) ELSE x

\* x was read behind the values of r, which stay if x is refused.
Behind(r, x) ==
    IF r.res # "Success" THEN r
    ELSE IF x.res = "Success" THEN Taken(Append(r.val, x.val), x.data)
    ELSE [r EXCEPT !.res = x.res]

deserialize_uint32(data) ==
    IF Len(data) < 4 THEN Refused("CannotResolve", data)
    ELSE Taken(Number(data), After(data, 4))

deserialize_int(data) ==
    Then(deserialize_uint32(data), LAMBDA x, rest : Taken(AsInt(x), rest))

deserialize_string_Left(data) ==
    Then(deserialize_int(data), LAMBDA count, rest :
        IF count \in 0 .. Len(rest)
        THEN Taken(SubSeq(rest, 1, count), rest)
        ELSE Refused("InternalError", rest))

\* The count is compared as a size_t: a negative one is larger than any data.
deserialize_string(data) ==
    Then(deserialize_int(data), LAMBDA count, rest :
        IF count \in 0 .. Len(rest)
        THEN Taken(SubSeq(rest, 1, count), After(rest, count))
        ELSE Refused("InternalError", rest))

\* A negative count is taken for a huge one here too: the loop goes on until
\* the data are used up, at the latest after one round for each byte.
Rounds(count, data) == IF count \in 0 .. Len(data) THEN count ELSE Len(data)
deserialize_vector(data) ==
    Then(deserialize_int(data), LAMBDA count, rest :
        FoldLeft(LAMBDA v, i : Behind(v, deserialize_string(v.data)),
                 Taken(<<>>, rest), [i \in 1 .. Rounds(count, data) |-> i]))

deserialize_uint16_AsShort(data) ==
    IF Len(data) < 2 THEN Refused("CannotResolve", data)
    ELSE Taken(Signed(data[1]) * Base + data[2], After(data, 2))

\* The bytes are added as chars: a lower one with its top bit set takes one
\* away from the higher.
deserialize_uint16(data) ==
    IF Len(data) < 2 THEN Refused("CannotResolve", data)
    ELSE Taken((Signed(data[1]) * Base + Signed(data[2])) % Short, After(data, 2))

\* The byte is looked at and stays where it is.
deserialize_bool(data) ==
    IF Len(data) = 0 \/ (Len(data) > 0 /\ data[1] \notin {0, 1})
    THEN Refused("CannotResolve", data)
    ELSE Taken(data[1] = 1, data)

deserialize(type, data) ==
    CASE type = "uint16_t" -> deserialize_uint16(data)
      [] type = "uint32_t" -> deserialize_uint32(data)
      [] type = "int" -> deserialize_int(data)
      [] type = "bool" -> deserialize_bool(data)
      [] type = "string" -> deserialize_string(data)
      [] type = "vector_of_string" -> deserialize_vector(data)

-----------------------------------------------------------------------------
(* A generated stub writes the arguments one after the other, the          *)
(* dispatcher reads them in the same order until one is refused (gen.cpp). *)

\* serialize of each argument after the other, behind what is there already.
SerializeAll(types, xs, data) ==
    FoldLeft(LAMBDA d, i : d \o serialize(types[i], xs[i]), data, [i \in DOMAIN types |-> i])

\* deserialize of each in turn; if one is refused, the value is those before it.
DeserializeAll(types, data) ==
    FoldLeft(LAMBDA r, type : Behind(r, deserialize(type, r.data)), Taken(<<>>, data), types)

=============================================================================
