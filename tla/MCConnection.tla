---------------------------- MODULE MCConnection ----------------------------
(* Instances of Connection for TLC.  Calls are interchangeable.            *)
EXTENDS Connection, TLC

Symmetry == Permutations(Call)

=============================================================================
