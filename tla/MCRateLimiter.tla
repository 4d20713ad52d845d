--------------------------- MODULE MCRateLimiter ---------------------------
(* Instances of RateLimiter for TLC. *)
EXTENDS RateLimiter, TLC

CONSTANTS p1, p2, k1, k2, b1, b2, b3

RequestSymmetry == Permutations({p1, p2}) \cup Permutations({k1, k2}) \cup Permutations({b1, b2, b3})
=============================================================================
