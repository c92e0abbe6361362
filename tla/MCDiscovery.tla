----------------------------- MODULE MCDiscovery -----------------------------
(* Interfaces for Discovery: services X, Y and Z, stubs x and z.           *)
EXTENDS Discovery, TLC

\* X and Z have a function in common, in different places.
MCFunctions == [v \in {"X", "Y", "Z"} |->
    CASE v = "X" -> <<"f", "g">> [] v = "Y" -> <<"h">> [] v = "Z" -> <<"f">>]

\* Stubs generated from the IDL of the service, or from its beginning.
Whole == [c \in {"x", "z"} |-> IF c = "x" THEN <<"f", "g">> ELSE <<"f">>]

\* A stub that was generated with one function of X only.
Part == [c \in {"x"} |-> <<"g">>]

Symmetry == Permutations(Server) \cup Permutations(Caller)

=============================================================================
