--------------------------- MODULE MCOrderEvents ---------------------------
(* Instances of OrderEvents for TLC. *)
EXTENDS OrderEvents, TLC

CONSTANTS o1, o2, c1, c2

OrderSymmetry == Permutations({o1, o2}) \cup Permutations({c1, c2})
=============================================================================
