----------------------------- MODULE MCSignals -----------------------------
(* A graph of two signals and three effects. *)
EXTENDS Signals, TLC

CONSTANTS name, count, e1, e2, e3

Interchangeable == Permutations(Effect) \cup Permutations(Signal)

=============================================================================
