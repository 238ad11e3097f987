--------------------------- MODULE MCOperations ---------------------------
(* Instances of Operations for TLC. *)
EXTENDS OperationsInv, TLC

Symmetry == Permutations(Procs) \cup Permutations(Execs) \cup Permutations(Hashes)

\* Leaves out what happens after the paid commit.
BeforeDelivery == pend \in {"none", "queued"} /\ ~flushing /\ del = "no"
====
