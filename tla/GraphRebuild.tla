------------------------------ MODULE GraphRebuild ------------------------------
(***************************************************************************)
(* GraphProjection with the script that compares a client's graph with the *)
(* tables and repairs it (scripts/kg_reproject.py, knowledge_graph/        *)
(* reproject.py), and with what readers are told of the graph              *)
(* (memory/projection_health.py, knowledge_graph/projection_state.py).     *)
(*                                                                         *)
(* The script locks nothing.  It reads the tables, then the graph, then    *)
(* the tables again, and repairs the graph one payload at a time, while    *)
(* transactions and workers go on.  A comparison reads the tables in one   *)
(* step and the graph in another; the graph holds one copy of each key.    *)
(***************************************************************************)
EXTENDS GraphProjection

CONSTANT MaxScripts   \* bound: runs of the script

VARIABLES
    script,   \* the run of the script: see Script
    scripts,  \* runs started
    corrupt   \* the state of the projection says the graph is not the tables

rebuildVars == <<vars, script, scripts, corrupt>>

Tables == [Keys -> Values \ {Stub}]

\* want, at: the tables as last read, and the rows queued by then; extra: what a
\* comparison found too much, as of row extraAt; merge: what is left to write.
\* quiet is history: nothing but the script has written since it started.
Script == [pc      : {"idle", "expected", "again", "repair", "record", "resolve"},
           mode    : {"check", "before", "after"},
           want    : Tables,
           at      : 0 .. MaxRows,
           extra   : SUBSET Keys,
           extraAt : 0 .. MaxRows,
           merge   : SUBSET Keys,
           clean   : BOOLEAN,
           quiet   : BOOLEAN]

NoScript == [pc |-> "idle", mode |-> "check", want |-> Nothing, at |-> 0, extra |-> {},
             extraAt |-> 0, merge |-> {}, clean |-> FALSE, quiet |-> FALSE]

At(pc)   == script.pc = pc
ReadTables(pc, mode) == [script EXCEPT !.pc = pc, !.mode = mode, !.want = pg, !.at = last]

Alone == UNCHANGED vars

\* main: "check" compares, "before" is the first comparison of a repair.
StartScript(mode) ==
    /\ At("idle") /\ scripts < MaxScripts
    /\ script' = [ReadTables("expected", mode) EXCEPT !.quiet = TRUE]
    /\ scripts' = scripts + 1
    /\ UNCHANGED corrupt /\ Alone

\* diff: the graph against the tables read before.
Missing == {k \in Keys : Shows(neo, k) # script.want[k]}

\* Seeded fault: a repair only adds.
NothingExtra == {}

Extra   == {k \in Missing : script.want[k] = Absent}

CompareToReport ==
    /\ At("expected") /\ script.mode # "before"
    /\ script' = [script EXCEPT !.pc = "record", !.clean = (Missing = {})]
    /\ UNCHANGED <<scripts, corrupt>> /\ Alone

CompareToRepair ==
    /\ At("expected") /\ script.mode = "before"
    /\ script' = [script EXCEPT !.pc = "again", !.extra = Extra, !.extraAt = script.at]
    /\ UNCHANGED <<scripts, corrupt>> /\ Alone

Wanted == {k \in Keys : pg[k] # Absent}

ReadAgain ==
    /\ At("again")
    /\ script' = [ReadTables("repair", "before") EXCEPT !.merge = Wanted]
    /\ UNCHANGED <<scripts, corrupt>> /\ Alone

\* Nodes before edges.
First(keys, k) == k \in keys /\ (k \in Edges => keys \cap Nodes = {})

Repairs(p, at) == Lands(p, at) /\ UNCHANGED <<pg, last, log, row, pass, scripts, corrupt>>

RemoveExtra(k) ==
    /\ At("repair") /\ First(script.extra, k)
    /\ Repairs([op |-> IF k \in Nodes THEN "node_delete" ELSE "edge_delete",
                key |-> k, content |-> Absent], script.extraAt)
    /\ script' = [script EXCEPT !.extra = @ \ {k}]

MergeWanted(k) ==
    /\ At("repair") /\ script.extra = {} /\ First(script.merge, k)
    /\ Repairs([op |-> IF k \in Nodes THEN "node" ELSE "edge",
                key |-> k, content |-> script.want[k]], script.at)
    /\ script' = [script EXCEPT !.merge = @ \ {k}]

CompareAgain ==
    /\ At("repair") /\ script.extra = {} /\ script.merge = {}
    /\ script' = ReadTables("expected", "after")
    /\ UNCHANGED <<scripts, corrupt>> /\ Alone

\* _record_outcome: mark_verified or mark_corrupt.  What overtook what before a
\* repair nobody disturbed is repaired.
Repaired == script.mode = "after" /\ script.clean /\ script.quiet

RecordOutcome ==
    /\ At("record")
    /\ corrupt' = ~script.clean
    /\ reordered' = (reordered /\ ~Repaired)
    /\ \/ script' = NoScript
       \/ /\ script.mode = "after" /\ script.clean
          /\ script' = [NoScript EXCEPT !.pc = "resolve"]
    /\ UNCHANGED <<pg, last, log, row, neo, pass, scripts>>

\* _resolve_dead_letter: the rows are deleted.
ResolveDeadLetter ==
    /\ At("resolve")
    /\ script' = NoScript
    /\ row' = [r \in 1 .. last |->
                  IF row[r].status = "dead" THEN [row[r] EXCEPT !.status = "resolved"] ELSE row[r]]
    /\ UNCHANGED <<pg, last, log, neo, pass, reordered, scripts, corrupt>>

\* The script is interrupted, or a store fails it.
ScriptDies ==
    /\ ~At("idle")
    /\ script' = NoScript
    /\ UNCHANGED <<scripts, corrupt>> /\ Alone

ScriptNext ==
    \/ \E mode \in {"check", "before"} : StartScript(mode)
    \/ CompareToReport \/ CompareToRepair \/ ReadAgain
    \/ \E k \in Keys : RemoveExtra(k) \/ MergeWanted(k)
    \/ CompareAgain \/ RecordOutcome \/ ResolveDeadLetter \/ ScriptDies

\* A step of the transactions and of the workers, with the script where it is.
Meanwhile ==
    /\ Next
    /\ script' = [script EXCEPT !.quiet = @ /\ pg' = pg /\ neo' = neo]
    /\ UNCHANGED <<scripts, corrupt>>

RebuildInit == Init /\ script = NoScript /\ scripts = 0 /\ corrupt = FALSE
RebuildNext == Meanwhile \/ ScriptNext
RebuildSpec == RebuildInit /\ [][RebuildNext]_rebuildVars

-----------------------------------------------------------------------------
(* Properties                                                              *)

\* A repair during which nobody else changed the tables or the graph ends with
\* the graph of the tables and says so, whatever the graph was before: rows that
\* died, stubs, nodes that came back.
QuietRebuildRepairs ==
    At("record") /\ script.mode = "after" /\ script.quiet => script.clean /\ Agrees
================================================================================
