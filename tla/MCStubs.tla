------------------------------- MODULE MCStubs -------------------------------
(* A service and its callers for Stubs.  Bytes are digits to the base 4.   *)
EXTENDS Stubs, TLC

CONSTANTS a, b  \* callers

\* Functions as the interfaces of the repository have them: validate of
\* service0.idl, Add of the tests, Register of tests/test07; and one whose bool
\* is not the last.
MCFunctions == <<
    [in |-> <<"vector_of_string">>, out |-> <<"uint16_t", "bool">>],
    [in |-> <<"int", "int">>, out |-> <<"int">>],
    [in |-> <<>>, out |-> <<>>],
    [in |-> <<"bool", "string">>, out |-> <<"uint32_t">>] >>
MCValues == [t \in Type |->
    CASE t = "uint16_t" -> {9, 14}
      [] t = "uint32_t" -> {100}
      [] t = "int" -> {-128, 5}
      [] t = "bool" -> BOOLEAN
      [] t = "string" -> {<<>>, <<3, 0>>}
      [] t = "vector_of_string" -> {<<>>, << <<1>>, <<>> >>}]
MCUses == [c \in Caller |-> IF c = a THEN {3} ELSE {1, 2, 4}]
MCTid == [c \in Caller |-> IF c = a THEN 6 ELSE 9]
MCBudget == [c \in Caller |-> IF c = a THEN 2 ELSE 1]
MCThread == Caller \X {"client", "server"}

=============================================================================
