-------------------------- MODULE SimulationQueueMC --------------------------
(***************************************************************************)
(* Small instances of SimulationQueue for TLC.                             *)
(***************************************************************************)
EXTENDS SimulationQueue, TLC

\* Drains are told apart only by equality, so safety runs may permute them.
DrainSymmetry == Permutations(Drains)
=============================================================================
