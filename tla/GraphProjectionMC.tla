--------------------------- MODULE GraphProjectionMC ---------------------------
(* GraphProjection with two nodes, one of which may be linked to the other.   *)
EXTENDS GraphProjection

CONSTANTS a, b

OneEdge == {<<a, b>>}
================================================================================
