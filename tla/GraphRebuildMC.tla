---------------------------- MODULE GraphRebuildMC -----------------------------
(* GraphRebuild with two nodes, one of which may be linked to the other.      *)
EXTENDS GraphRebuild

CONSTANTS a, b

OneEdge == {<<a, b>>}
================================================================================
