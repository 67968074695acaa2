---------------------------- MODULE MCDevBackend ----------------------------
(* A few backend processes, one after the other. *)
EXTENDS DevBackend, TLC

CONSTANTS b1, b2, b3

Interchangeable == Permutations(Procs)

=============================================================================
