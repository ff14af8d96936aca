--------------------------- MODULE MCWorkRuntime ---------------------------
(* Instances of WorkRuntime for TLC: threads that tick alike are symmetric. *)
EXTENDS WorkRuntime, TLC

CONSTANTS a, b, t1, t2

Threads == {t1, t2}
Symmetry == Permutations(Threads)

=============================================================================
