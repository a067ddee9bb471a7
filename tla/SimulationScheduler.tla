------------------------- MODULE SimulationScheduler -------------------------
(***************************************************************************)
(* What the queue of simulations promises to who submits a run, without    *)
(* attempts, heartbeats, owners or outcomes: a run waits, is executed, and *)
(* is over; the engine has MaxConcurrent places; a run is admitted only    *)
(* with room in the queue; a run that is over never comes back, and no run *)
(* is lost on the way.                                                     *)
(*                                                                         *)
(* One step is one transaction: it may first judge runs whose executor is  *)
(* silent (back to the queue, or over), and then admit or start.           *)
(***************************************************************************)
EXTENDS Naturals, FiniteSets

CONSTANTS Runs, Legacy, MaxQueued, MaxConcurrent

VARIABLES
    waiting,   \* runs in the queue
    engaged,   \* runs being executed
    over       \* runs that ended

sched == <<waiting, engaged, over>>

Init == waiting = {} /\ engaged = Legacy /\ over = {}

\* Runs given back to the queue and runs closed because nobody executes them.
Judge(back, dead) ==
    /\ waiting' = waiting \cup back
    /\ engaged' = engaged \ (back \cup dead)
    /\ over' = over \cup dead

Admit(back, dead, new) ==
    /\ new \cap (waiting \cup engaged \cup over) = {}
    /\ Cardinality(waiting \cup back \cup new) <= MaxQueued
    /\ waiting' = waiting \cup back \cup new
    /\ engaged' = engaged \ (back \cup dead)
    /\ over' = over \cup dead

Start(back, dead, r) ==
    /\ r \in waiting \cup back
    /\ waiting' = (waiting \cup back) \ {r}
    /\ engaged' = (engaged \ (back \cup dead)) \cup {r}
    /\ Cardinality(engaged') <= MaxConcurrent
    /\ over' = over \cup dead

\* An outcome arrives.  It may be that of an executor given up for dead, so the
\* run may be waiting again.
End(r) ==
    /\ r \in waiting \cup engaged
    /\ waiting' = waiting \ {r}
    /\ engaged' = engaged \ {r}
    /\ over' = over \cup {r}

Next ==
    \/ \E back \in SUBSET engaged : \E dead \in SUBSET (engaged \ back) :
          \/ Judge(back, dead)
          \/ \E new \in (SUBSET Runs) \ {{}} : Admit(back, dead, new)
          \/ \E r \in Runs : Start(back, dead, r)
    \/ \E r \in Runs : End(r)

Spec == Init /\ [][Next]_sched

\* A run is in one place at a time.
Partition ==
    /\ waiting \cap engaged = {}
    /\ waiting \cap over = {}
    /\ engaged \cap over = {}
=============================================================================
