---------------------------- MODULE GraphProjection ----------------------------
(***************************************************************************)
(* The graph of one client in Neo4j, kept behind Postgres by an outbox     *)
(* (memory/knowledge_graph/canonical.py, erase.py, projector.py,           *)
(* workers/graph_worker.py, scripts/queue_admin.py).                       *)
(*                                                                         *)
(* A canonical transaction changes a row and queues the payload that       *)
(* repeats the change on the graph.  A worker locks the first rows that    *)
(* are due, applies each payload to Neo4j, which commits at once, and      *)
(* commits the outcome of the whole batch at the end: a worker that dies   *)
(* before that has changed the graph and nothing else.  A row that failed  *)
(* waits while later rows go on.                                           *)
(*                                                                         *)
(* Rows are numbered in the order their transactions commit: two           *)
(* transactions on the same node wait for each other in Postgres.  Of a    *)
(* node the properties are one number, its content; rows processed long    *)
(* ago, which prune deletes, stay in the model as processed.               *)
(***************************************************************************)
EXTENDS Retry, Integers, FiniteSets

CONSTANTS
    Nodes,        \* nodes of the client
    Edges,        \* pairs of them that may be linked
    Workers,      \* processes that drain the outbox
    Batch,        \* rows a worker takes at once
    MaxRows,      \* bound: rows of the outbox
    MaxContents,  \* bound: contents of a node
    Start         \* what there is at first: see Init

Keys     == Nodes \cup Edges
Contents == 1 .. MaxContents
RowIds   == 1 .. MaxRows

ASSUME GraphAssumption ==
    /\ Edges \subseteq Nodes \X Nodes
    /\ Nodes \cap Edges = {}
    /\ Batch \in Nat \ {0} /\ MaxRows \in Nat \ {0} /\ MaxContents \in Nat \ {0}
    /\ Start \in {"nothing", "established", "unreadable"}

Absent == 0
Linked == 1
Stub   == -1   \* a node an edge has created, which has an id and no client
Values == {Stub, Absent, Linked} \cup Contents

VARIABLES
    pg,        \* the tables: the content of each node, the edges that are there
    last,      \* the rows queued so far
    log,       \* per row, its payload
    row,       \* per row, where it is in the queue: see Row
    neo,       \* the graph in Neo4j
    pass,      \* per worker, the rows it has locked and what became of each
    reordered  \* history: an older row has overwritten a later one

vars == <<pg, last, log, row, neo, pass, reordered>>

Payload == [op : {"node", "invalid"}, key : Nodes, content : Contents]
      \cup [op : {"node_delete"}, key : Nodes, content : {Absent}]
      \cup [op : {"edge"}, key : Edges, content : {Linked}]
      \cup [op : {"edge_delete"}, key : Edges, content : {Absent}]

\* resolved: a dead letter deleted once the graph has been rebuilt.
Row == [status   : {"queued", "processed", "dead", "resolved"},
        counters : Counters,
        due      : BOOLEAN]
New == [status |-> "queued", counters |-> NoFailures, due |-> TRUE]

Failures == Kinds \ {"permanent"}
Outcomes == {"none", "locked", "applied", "permanent"} \cup Failures

-----------------------------------------------------------------------------
(* What a payload does, to the tables and to the graph                     *)

Incident(n) == {e \in Edges : n \in {e[1], e[2]}}

\* The keys whose visible value a payload decides.
Touches(p, k) == k = p.key \/ (p.op = "node_delete" /\ k \in Incident(p.key))

\* apply: MERGE of a node, DETACH DELETE, MERGE of an edge and of its ends.
Applied(g, p) ==
    [k \in Keys |->
        IF Touches(p, k) THEN p.content
        ELSE IF p.op = "edge" /\ k \in {p.key[1], p.key[2]} /\ g[k] = Absent THEN Stub
        ELSE g[k]]

\* What a reader of the client's graph sees of a key: a stub has no client_id.
Shows(g, k) == IF g[k] = Stub THEN Absent ELSE g[k]
Agrees      == \A k \in Keys : Shows(neo, k) = pg[k]

Conflict(p, q) == \E k \in Keys : Touches(p, k) /\ Touches(q, k) /\ p.content # q.content

Behind(r) == row[r].status \in {"processed", "resolved"}
Landed(r) == Behind(r) \/ \E w \in Workers : pass[w][r] = "applied"

\* A payload reaches Neo4j, as of row number "at" of the outbox.
Lands(p, at) ==
    /\ neo' = Applied(neo, p)
    /\ reordered' = \/ reordered
                    \/ \E s \in 1 .. last : s > at /\ Landed(s) /\ Conflict(p, log[s])

-----------------------------------------------------------------------------
(* Canonical transactions                                                  *)

\* The change and _emit commit together.
Emit(p) ==
    /\ last < MaxRows
    /\ pg' = Applied(pg, p)
    /\ last' = last + 1
    /\ log' = [r \in 1 .. last + 1 |-> IF r = last + 1 THEN p ELSE log[r]]
    /\ row' = [r \in 1 .. last + 1 |-> IF r = last + 1 THEN New ELSE row[r]]
    /\ UNCHANGED <<neo, pass, reordered>>

\* Ids are never used twice: what is deleted and written again is another node.
Erased(n) == \E r \in 1 .. last : log[r].op = "node_delete" /\ log[r].key = n

Upsert(n, c) ==
    /\ ~Erased(n)
    /\ Emit([op |-> "node", key |-> n, content |-> c])

\* The rows an erased node is an end of go with it, in Postgres and in Neo4j.
EraseNode(n) ==
    /\ pg[n] # Absent
    /\ Emit([op |-> "node_delete", key |-> n, content |-> Absent])

Link(e) ==
    /\ pg[e[1]] # Absent /\ pg[e[2]] # Absent
    /\ Emit([op |-> "edge", key |-> e, content |-> Linked])

Unlink(e) ==
    /\ pg[e] = Linked
    /\ Emit([op |-> "edge_delete", key |-> e, content |-> Absent])

-----------------------------------------------------------------------------
(* The worker                                                              *)

Held(r)    == \E w \in Workers : pass[w][r] # "none"
Resting(w) == \A r \in RowIds : pass[w][r] = "none"

\* Seeded fault: the rows another worker has locked are taken too.
ReadyUnlocked(r) == row[r].status = "queued" /\ row[r].due /\ ~Stuck(row[r].counters)

Ready(r) ==
    /\ row[r].status = "queued" /\ row[r].due
    /\ ~Stuck(row[r].counters)
    /\ ~Held(r)

\* The first Batch rows, those another worker has locked skipped.
Batched == LET ready == {r \in 1 .. last : Ready(r)}
           IN  {r \in ready : Cardinality({s \in ready : s < r}) < Batch}

DrainStart(w) ==
    /\ Resting(w)
    /\ Batched # {}
    /\ pass' = [pass EXCEPT ![w] = [r \in RowIds |-> IF r \in Batched THEN "locked" ELSE "none"]]
    /\ UNCHANGED <<pg, last, log, row, neo, reordered>>

\* The row whose turn it is.
Turn(w, r) == pass[w][r] = "locked" /\ \A s \in RowIds : pass[w][s] = "locked" => r <= s

Ends(w, r, outcome) == pass' = [pass EXCEPT ![w][r] = outcome]

ApplyRow(w, r) ==
    /\ Turn(w, r)
    /\ log[r].op # "invalid"
    /\ Lands(log[r], r)
    /\ Ends(w, r, "applied")
    /\ UNCHANGED <<pg, last, log, row>>

\* The store refuses, or its answer is lost: the change may have been made.
FailRow(w, r, kind) ==
    /\ Turn(w, r)
    /\ log[r].op # "invalid"
    /\ Lands(log[r], r) \/ UNCHANGED <<neo, reordered>>
    /\ Ends(w, r, kind)
    /\ UNCHANGED <<pg, last, log, row>>

PoisonRow(w, r) ==
    /\ Turn(w, r)
    /\ log[r].op = "invalid"
    /\ Ends(w, r, "permanent")
    /\ UNCHANGED <<pg, last, log, row, neo, reordered>>

\* Seeded fault: a refusal for bandwidth is taken for an answer.
AfterSwallowed(old, outcome) ==
    CASE outcome \in {"applied", "throttled"} -> [old EXCEPT !.status = "processed"]
      [] outcome = "permanent" -> [old EXCEPT !.status = "dead"]
      [] OTHER -> [old EXCEPT !.counters = Rescheduled(@, outcome), !.due = FALSE]

\* _mark_applied and _handle_failure, as the transaction of the pass commits them.
After(old, outcome) ==
    CASE outcome = "applied"   -> [old EXCEPT !.status = "processed"]
      [] outcome = "permanent" -> [old EXCEPT !.status = "dead"]
      [] OTHER -> [old EXCEPT !.counters = Rescheduled(@, outcome), !.due = FALSE]

Commit(w) ==
    /\ ~Resting(w)
    /\ \A r \in RowIds : pass[w][r] # "locked"
    /\ row' = [r \in 1 .. last |->
                  IF pass[w][r] = "none" THEN row[r] ELSE After(row[r], pass[w][r])]
    /\ pass' = [pass EXCEPT ![w] = [r \in RowIds |-> "none"]]
    /\ UNCHANGED <<pg, last, log, neo, reordered>>

\* The transaction of the pass is lost, what it did to Neo4j is not.
Crash(w) ==
    /\ ~Resting(w)
    /\ pass' = [pass EXCEPT ![w] = [r \in RowIds |-> "none"]]
    /\ UNCHANGED <<pg, last, log, row, neo, reordered>>

BackoffElapses(r) ==
    /\ row[r].status = "queued" /\ ~row[r].due
    /\ row' = [row EXCEPT ![r].due = TRUE]
    /\ UNCHANGED <<pg, last, log, neo, pass, reordered>>

-----------------------------------------------------------------------------
(* Who looks after the queue                                               *)

CanRequeue(r) ==
    row[r].status = "queued" /\ Stuck(row[r].counters) /\ log[r].op # "invalid"

RequeueStuck ==
    /\ \E r \in 1 .. last : CanRequeue(r)
    /\ row' = [r \in 1 .. last |-> IF CanRequeue(r) THEN New ELSE row[r]]
    /\ UNCHANGED <<pg, last, log, neo, pass, reordered>>

PurgeInvalid(r) ==
    /\ row[r].status = "queued" /\ log[r].op = "invalid" /\ ~Held(r)
    /\ row' = [row EXCEPT ![r].status = "dead"]
    /\ UNCHANGED <<pg, last, log, neo, pass, reordered>>

-----------------------------------------------------------------------------
Nothing == [k \in Keys |-> Absent]

\* An established graph: its rows were processed and pruned long ago.
Origin == IF Start = "established" THEN [k \in Keys |-> 1] ELSE Nothing

\* An unreadable row is older than the validation of payloads.
InitLog ==
    IF Start = "unreadable"
    THEN \E n \in Nodes :
            /\ last = 1
            /\ log = [r \in 1 .. 1 |-> [op |-> "invalid", key |-> n, content |-> 1]]
            /\ pg = [Origin EXCEPT ![n] = 1]
    ELSE last = 0 /\ log = [r \in 1 .. 0 |-> New] /\ pg = Origin

Init ==
    /\ InitLog
    /\ row = [r \in 1 .. last |-> New]
    /\ neo = Origin
    /\ pass = [w \in Workers |-> [r \in RowIds |-> "none"]]
    /\ reordered = FALSE

Write ==
    \/ \E n \in Nodes : EraseNode(n) \/ \E c \in Contents : Upsert(n, c)
    \/ \E e \in Edges : Link(e) \/ Unlink(e)

HandleRow(w) ==
    \E r \in 1 .. last :
        ApplyRow(w, r) \/ PoisonRow(w, r) \/ \E kind \in Failures : FailRow(w, r, kind)

Work(w) == DrainStart(w) \/ HandleRow(w) \/ Commit(w)

Tend ==
    \/ RequeueStuck
    \/ \E r \in 1 .. last : BackoffElapses(r) \/ PurgeInvalid(r)

Next == Write \/ Tend \/ \E w \in Workers : Work(w) \/ Crash(w)

Spec == Init /\ [][Next]_vars

-----------------------------------------------------------------------------
(* A worker keeps working, and waits run out.  Stores may fail for ever.   *)
Fairness ==
    /\ \A w \in Workers : WF_vars(Work(w))
    /\ \A r \in RowIds : WF_vars(r <= last /\ BackoffElapses(r))

FairSpec == Spec /\ Fairness

-----------------------------------------------------------------------------
(* Properties                                                              *)

\* Two passes never have the same row, and a row in a pass is not out of
\* attempts: what a pass writes back is about the row it read.
HeldOnce ==
    \A r \in RowIds, w \in Workers : pass[w][r] # "none" =>
        /\ r <= last /\ row[r].status = "queued" /\ ~Stuck(row[r].counters)
        /\ \A v \in Workers \ {w} : pass[v][r] = "none"

TypeOK ==
    /\ pg \in [Keys -> Values \ {Stub}] /\ neo \in [Keys -> Values]
    /\ last \in 0 .. MaxRows
    /\ log \in [1 .. last -> Payload]
    /\ row \in [1 .. last -> Row]
    /\ \A r \in 1 .. last : CountersOK(row[r].counters)
    /\ pass \in [Workers -> [RowIds -> Outcomes]]
    /\ reordered \in BOOLEAN
    /\ HeldOnce

\* A graph whose queue is drained is the graph of the tables, through crashes of
\* a worker, payloads applied twice and answers that were lost, as long as no
\* older row has overwritten a later one.
DrainedGraphIsCanonical ==
    (\A r \in 1 .. last : Behind(r)) /\ ~reordered => Agrees

\* A row leaves the queue or runs out of attempts, once workers stop dying, no
\* quota is exhausted for ever and nobody puts stuck rows back.
Settled(r) == row[r].status # "queued" \/ Stuck(row[r].counters)

Undisturbed ==
    [][/\ \A w \in Workers : ~Resting(w) /\ Resting(w)' => row' # row
       /\ \A r \in 1 .. last : Stuck(row[r].counters) => row'[r] = row[r]
       /\ \A w \in Workers, r \in RowIds : pass'[w][r] # "exhausted"]_vars

EveryRowSettles ==
    <>Undisturbed => \A r \in RowIds : (r <= last) ~> (r <= last /\ Settled(r))
================================================================================
