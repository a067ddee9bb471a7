------------------------------ MODULE ForgettingMC -----------------------------
(* Calls and writes are interchangeable: no property orders them.            *)
EXTENDS Forgetting, TLC

Symmetry == Permutations(Calls) \cup Permutations(Writes)
================================================================================
