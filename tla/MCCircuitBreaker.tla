--------------------------- MODULE MCCircuitBreaker ---------------------------
(* Instances of CircuitBreaker for TLC. *)
EXTENDS CircuitBreaker, TLC

Symmetric == Permutations(Callers) \cup Permutations(Hashes)
====
