---------------------------- MODULE SourcePipeline ----------------------------
(***************************************************************************)
(* A file on its way to the graph (workspace_database/sources.py and       *)
(* evidence.py, workers/source_worker.py,                                  *)
(* memory/knowledge_graph/canonical.py): it is read, confirmed, its claims *)
(* are extracted, compared with those of the other files and written to    *)
(* the canonical tables, with a contradiction for each divergence.         *)
(*                                                                         *)
(* Four queues on one row, each with its status, its attempts and the time *)
(* of its next attempt, which is also the lease of whoever has the job: a  *)
(* worker that takes longer goes on, and so does the one that takes the    *)
(* job after it.  Outcomes are recorded by the id of the file.             *)
(*                                                                         *)
(* The files belong together, each makes one claim, and every two of them  *)
(* diverge.  The transactions of the workspace are atomic, but for the one *)
(* of a chat message that confirms a file; a canonical transaction looks   *)
(* for the claims of other files before it commits.  Plain text files,     *)
(* read in the request as well, are read as by a second worker.            *)
(***************************************************************************)
EXTENDS Naturals, FiniteSets

CONSTANTS
    Sources,      \* files uploaded for one process
    Earlier,      \* those of them read and confirmed before
    Workers,
    MaxAttempts,  \* per stage, attempts before the job is given up
    MaxUploads,   \* bound: times a file is uploaded
    MaxMishaps    \* bound: failures, deaths and leases that run out too early

Stages == {"read", "claims", "reconcile", "graph"}

ASSUME SourceAssumption ==
    /\ Sources # {}
    /\ MaxAttempts \in [Stages -> Nat \ {0}]
    /\ Earlier \subseteq Sources
    /\ MaxUploads \in Nat
    /\ MaxMishaps \in Nat

VARIABLES
    job,            \* per file and stage, its queue: see Job
    uploads,        \* per file, how often it was uploaded
    approved,       \* files that are evidence
    toConfirm,      \* files to be confirmed when they are read
    loaded,         \* files that an open transaction of a chat found in reading
    claims,         \* per file, which extraction its claims are of
    relations,      \* <<s, t>>: the comparison of s found the divergence from t
    linked,         \* files whose claim has the id of a Claim that is there
    drawn,          \* per file, which extraction its Claim in the graph is of
    contradictions, \* in the canonical tables: see Contradiction
    worker,         \* what each worker is doing: see Worker
    mishaps,        \* bound: so many of them happened
    overrun,        \* history: a lease ran out under a worker that was alive
    crossed,        \* history: two files were written to the graph at once
    overtaken       \* history: files read while a chat was confirming them

files  == <<uploads, approved, toConfirm, loaded>>
texts  == <<claims, relations, linked>>
graph  == <<drawn, contradictions>>
past   == <<mishaps, overrun, crossed, overtaken>>
vars   == <<job, files, texts, graph, worker, past>>

\* due: next_attempt_at has passed.  gone: the row of the file was deleted.
Job == [status   : {"none", "pending", "done", "failed", "gone"},
        attempts : Nat,
        due      : BOOLEAN]
Queued == [status |-> "pending", attempts |-> 0, due |-> TRUE]

Versions == 0 .. MaxAttempts["claims"]

\* alive: the Claim of file "to" it was written against is still there.
Contradiction == [by : Sources, to : Sources, alive : BOOLEAN]

\* found: the other files it has seen claims of.  lost: files whose claims were
\* replaced since it looked.  version: the extraction it is writing to the graph.
Worker == [stage   : Stages \cup {"none"},
           source  : Sources,
           step    : {"taken", "seen", "writing", "written", "recorded"},
           found   : SUBSET Sources,
           lost    : SUBSET Sources,
           version : Versions]

Idle(w)       == worker[w].stage = "none"
On(w, s, q)   == worker[w].stage = q /\ worker[w].source = s
At(w, s, q, step) == On(w, s, q) /\ worker[w].step = step
Others(w, q)  == {v \in Workers \ {w} : worker[v].stage = q}

\* A worker that has nothing to do; "done with" a job.
Rest == [stage |-> "none", source |-> CHOOSE s \in Sources : TRUE, step |-> "taken",
         found |-> {}, lost |-> {}, version |-> 0]
Leaves(w) == worker' = [worker EXCEPT ![w] = Rest]

\* The claims of file s are replaced: whoever works from them has lost them.
Lose(ws, s) == [v \in Workers |->
                   IF v \in ws THEN [worker[v] EXCEPT !.lost = @ \cup {s}] ELSE worker[v]]

Mishap == mishaps < MaxMishaps /\ mishaps' = mishaps + 1

-----------------------------------------------------------------------------
(* The queues                                                              *)

Gone(s)      == job[s]["read"].status = "gone"
Sets(s, q, status) == [job[s] EXCEPT ![q].status = IF @ = "gone" THEN @ ELSE status]

\* A job that died in its last attempt is closed by the next who looks.
GivesUp(s, q) == job[s][q].attempts >= MaxAttempts[q]

\* Seeded fault: a comparison that is given up stops the file.
ClosedThere(s, q, status) ==
    IF q = "reconcile" /\ status = "done"
    THEN [job[s] EXCEPT !["reconcile"].status = status, !["graph"] = Queued]
    ELSE [job[s] EXCEPT ![q].status = status]

\* A comparison that is given up does not keep the claims from the graph.
Closed(s, q, status) ==
    IF q = "reconcile"
    THEN [job[s] EXCEPT !["reconcile"].status = status, !["graph"] = Queued]
    ELSE [job[s] EXCEPT ![q].status = status]

Due(s, q) == job[s][q].status = "pending" /\ job[s][q].due

\* due_source_*: the attempt is counted when the job is taken.
Take(w, s, q) ==
    /\ Idle(w) /\ Due(s, q) /\ ~GivesUp(s, q)
    /\ job' = [job EXCEPT ![s][q].attempts = @ + 1, ![s][q].due = FALSE]
    /\ worker' = [worker EXCEPT ![w] = [Rest EXCEPT !.stage = q, !.source = s]]
    /\ UNCHANGED <<files, texts, graph, past>>

GiveUp(s, q) ==
    /\ Due(s, q) /\ GivesUp(s, q)
    /\ job' = [job EXCEPT ![s] = Closed(s, q, "failed")]
    /\ UNCHANGED <<files, texts, graph, worker, past>>

\* The lease or the wait is over.
TimePasses(s, q) ==
    /\ job[s][q].status = "pending" /\ ~job[s][q].due
    /\ job' = [job EXCEPT ![s][q].due = TRUE]
    /\ IF \E w \in Workers : On(w, s, q)
       THEN Mishap /\ overrun' = (overrun \/ q # "read")
       ELSE UNCHANGED <<mishaps, overrun>>
    /\ UNCHANGED <<files, texts, graph, worker, crossed, overtaken>>

\* fail_source_*: retried after a wait, or given up.  Once the graph is written
\* the outcome is not in doubt.
Fail(w, s, q, permanent) ==
    /\ On(w, s, q) /\ worker[w].step \in {"taken", "seen", "writing"}
    /\ permanent => q \in {"read", "graph"}
    /\ job' = IF Gone(s) THEN job
              ELSE IF permanent \/ GivesUp(s, q) THEN [job EXCEPT ![s] = Closed(s, q, "failed")]
              ELSE [job EXCEPT ![s][q].due = FALSE]
    /\ Leaves(w) /\ Mishap
    /\ UNCHANGED <<files, texts, graph, overrun, crossed, overtaken>>

\* The worker dies, or the pass ends with an error nobody catches.
Abandon(w) ==
    /\ ~Idle(w)
    /\ Leaves(w) /\ Mishap
    /\ UNCHANGED <<job, files, texts, graph, overrun, crossed, overtaken>>

-----------------------------------------------------------------------------
(* Files: uploaded, read, confirmed                                        *)

\* A file that could not be read is uploaded again to try once more.
Upload(s) ==
    /\ uploads[s] < MaxUploads
    /\ job[s]["read"].status \in {"none", "failed"}
    /\ uploads' = [uploads EXCEPT ![s] = @ + 1]
    /\ job' = [job EXCEPT ![s]["read"] = Queued]
    /\ UNCHANGED <<approved, toConfirm, loaded, texts, graph, worker, past>>

\* _approve_source: the claims are extracted from now on, unless they are there.
Approved(jobs) == IF jobs["claims"].status = "done" THEN jobs ELSE [jobs EXCEPT !["claims"] = Queued]

\* complete_source_acquisition loads without a lock; its load and flush, with nothing
\* between them, are one step here.
FinishRead(w, s) ==
    /\ On(w, s, "read")
    /\ LET read    == Sets(s, "read", "done")
           confirm == s \in toConfirm /\ s \notin approved /\ ~Gone(s)
       IN  /\ job' = [job EXCEPT ![s] = IF confirm THEN Approved(read) ELSE read]
           /\ approved' = IF confirm THEN approved \cup {s} ELSE approved
           /\ toConfirm' = IF confirm THEN toConfirm \ {s} ELSE toConfirm
    /\ overtaken' = IF s \in loaded THEN overtaken \cup {s} ELSE overtaken
    /\ Leaves(w)
    /\ UNCHANGED <<uploads, loaded, texts, graph, mishaps, overrun, crossed>>

\* verify_project_source, or a message in chat with a file that is read.
Confirm(s) ==
    /\ job[s]["read"].status = "done"
    /\ s \notin approved
    /\ approved' = approved \cup {s}
    /\ toConfirm' = toConfirm \ {s}
    /\ job' = [job EXCEPT ![s] = Approved(@)]
    /\ UNCHANGED <<uploads, loaded, texts, graph, worker, past>>

\* confirm_sources_sent_in_chat finds the file in reading, then says so.
ChatLoads(s) ==
    /\ job[s]["read"].status = "pending" /\ s \notin approved /\ s \notin loaded
    /\ loaded' = loaded \cup {s}
    /\ UNCHANGED <<job, uploads, approved, toConfirm, texts, graph, worker, past>>

ChatCommits(s) ==
    /\ s \in loaded
    /\ loaded' = loaded \ {s}
    /\ toConfirm' = IF Gone(s) THEN toConfirm ELSE toConfirm \cup {s}
    /\ UNCHANGED <<job, uploads, approved, texts, graph, worker, past>>

\* Files nobody has confirmed can be dropped, also while they are read.
Discard(s) ==
    /\ uploads[s] > 0 /\ ~Gone(s) /\ s \notin approved
    /\ job' = [job EXCEPT ![s]["read"].status = "gone"]
    /\ toConfirm' = toConfirm \ {s}
    /\ UNCHANGED <<uploads, approved, loaded, texts, graph, worker, past>>

-----------------------------------------------------------------------------
(* Claims and their comparison                                             *)

\* The claims are written in place of those before; with these go what was
\* known of them, relations and ids of the graph.
FinishClaims(w, s) ==
    /\ On(w, s, "claims")
    /\ claims' = [claims EXCEPT ![s] = @ + 1]
    /\ relations' = {r \in relations : s \notin {r[1], r[2]}}
    /\ linked' = linked \ {s}
    /\ job' = [job EXCEPT ![s]["claims"].status = "done", ![s]["reconcile"] = Queued]
    /\ worker' = [Lose(Others(w, "reconcile"), s) EXCEPT ![w] = Rest]
    /\ UNCHANGED <<files, graph, past>>

\* Seeded fault: only files whose comparison is over are compared with.
ComparableLate(s, t) == t \in approved /\ job[t]["reconcile"].status = "done"

\* The other files that are evidence and have their claims.
Comparable(s, t) == t \in approved /\ job[t]["claims"].status = "done"

ReadInputs(w, s) ==
    /\ At(w, s, "reconcile", "taken")
    /\ worker' = [worker EXCEPT ![w].step = "seen",
                                ![w].found = {t \in Sources \ {s} : Comparable(s, t)},
                                ![w].lost = {}]
    /\ UNCHANGED <<job, files, texts, graph, past>>

\* Relations name claims by id: of the claims it read none may be gone.
Stands(w, s) == worker[w].found = {} \/ ({s} \cup worker[w].found) \cap worker[w].lost = {}

FinishReconcile(w, s) ==
    /\ At(w, s, "reconcile", "seen") /\ Stands(w, s)
    /\ relations' = {r \in relations : r[1] # s} \cup {<<s, t>> : t \in worker[w].found}
    /\ job' = [job EXCEPT ![s] = Closed(s, "reconcile", "done")]
    /\ Leaves(w)
    /\ UNCHANGED <<files, claims, linked, graph, past>>

\* Otherwise the transaction is refused; nobody catches the error.
RefuseReconcile(w, s) ==
    /\ At(w, s, "reconcile", "seen") /\ ~Stands(w, s)
    /\ Leaves(w)
    /\ UNCHANGED <<job, files, texts, graph, past>>

-----------------------------------------------------------------------------
(* The graph                                                               *)

\* Seeded fault: a file only looks at the divergences its own comparison found.
DivergesFrom(s, t) == <<s, t>> \in relations

Diverge(s, t) == <<s, t>> \in relations \/ <<t, s>> \in relations

\* graph_divergences: those whose other side is in the graph.
ReadDivergences(w, s) ==
    /\ At(w, s, "graph", "taken")
    /\ worker' = [worker EXCEPT ![w].step = "seen", ![w].version = claims[s],
                                ![w].found = {t \in linked : Diverge(s, t)}, ![w].lost = {}]
    /\ crossed' = (crossed \/ \E v \in Others(w, "graph") :
                       worker[v].source # s /\ worker[v].step \notin {"taken", "recorded"})
    /\ UNCHANGED <<job, files, texts, graph, mishaps, overrun, overtaken>>

\* write_source_claims looks which of the other Claims are there.
CheckOthers(w, s) ==
    /\ At(w, s, "graph", "seen")
    /\ worker' = [worker EXCEPT ![w].step = "writing",
                                ![w].found = @ \ worker[w].lost, ![w].lost = {}]
    /\ UNCHANGED <<job, files, texts, graph, past>>

\* Seeded fault: the contradictions of other files are left.
KeptOfOthers(s) == {c \in contradictions : c.by # s}

\* _drop_source_claims: a contradiction goes with either of its sides.
Kept(s) == {c \in contradictions : c.by # s /\ (c.to = s => ~c.alive)}

\* ... and commits: what the file had in the graph is replaced.
WriteGraph(w, s) ==
    /\ At(w, s, "graph", "writing")
    /\ contradictions' =
           {[c EXCEPT !.alive = @ /\ c.to # s] : c \in Kept(s)} \cup
           {[by |-> s, to |-> t, alive |-> t \notin worker[w].lost] : t \in worker[w].found}
    /\ drawn' = [drawn EXCEPT ![s] = worker[w].version]
    /\ linked' = linked \ {s}
    /\ worker' = [Lose(Others(w, "graph"), s) EXCEPT ![w].step = "written", ![w].lost = {}]
    /\ UNCHANGED <<job, files, claims, relations, past>>

\* record_graph_ids, onto whatever claims the file has by now.
RecordIds(w, s) ==
    /\ At(w, s, "graph", "written")
    /\ linked' = IF s \in worker[w].lost THEN linked \ {s} ELSE linked \cup {s}
    /\ worker' = [worker EXCEPT ![w].step = "recorded"]
    /\ UNCHANGED <<job, files, claims, relations, graph, past>>

FinishGraph(w, s) ==
    /\ At(w, s, "graph", "recorded")
    /\ job' = [job EXCEPT ![s]["graph"].status = "done"]
    /\ Leaves(w)
    /\ UNCHANGED <<files, texts, graph, past>>

-----------------------------------------------------------------------------
Init ==
    /\ job = [s \in Sources |-> [q \in Stages |->
                 IF s \in Earlier /\ q = "claims" THEN Queued
                 ELSE [status   |-> IF s \in Earlier /\ q = "read" THEN "done" ELSE "none",
                       attempts |-> 0, due |-> FALSE]]]
    /\ uploads = [s \in Sources |-> 0]
    /\ approved = Earlier /\ toConfirm = {} /\ loaded = {}
    /\ claims = [s \in Sources |-> 0] /\ relations = {} /\ linked = {}
    /\ drawn = [s \in Sources |-> 0] /\ contradictions = {}
    /\ worker = [w \in Workers |-> Rest]
    /\ mishaps = 0 /\ overrun = FALSE /\ crossed = FALSE /\ overtaken = {}

Step(w, s) ==
    \/ FinishRead(w, s) \/ FinishClaims(w, s)
    \/ ReadInputs(w, s) \/ FinishReconcile(w, s) \/ RefuseReconcile(w, s)
    \/ ReadDivergences(w, s) \/ CheckOthers(w, s) \/ WriteGraph(w, s)
    \/ RecordIds(w, s) \/ FinishGraph(w, s)

Work(w) == \E s \in Sources : Step(w, s) \/ \E q \in Stages :
               Take(w, s, q) \/ \E permanent \in BOOLEAN : Fail(w, s, q, permanent)

User(s) == Upload(s) \/ Confirm(s) \/ ChatLoads(s) \/ Discard(s)

Queue(s) == \E q \in Stages : GiveUp(s, q) \/ TimePasses(s, q)

Next ==
    \/ \E s \in Sources : User(s) \/ ChatCommits(s) \/ Queue(s)
    \/ \E w \in Workers : Work(w) \/ Abandon(w)

Spec == Init /\ [][Next]_vars

-----------------------------------------------------------------------------
(* Workers go on, waits and leases run out, transactions end.              *)
Fairness ==
    /\ \A w \in Workers : WF_vars(Work(w) \/ Abandon(w))
    /\ \A s \in Sources : WF_vars(ChatCommits(s)) /\ WF_vars(Queue(s))

FairSpec == Spec /\ Fairness

-----------------------------------------------------------------------------
(* Properties                                                              *)

Is(s, q, status) == job[s][q].status = status

TypeOK ==
    /\ job \in [Sources -> [Stages -> Job]]
    /\ \A s \in Sources, q \in Stages : job[s][q].attempts <= MaxAttempts[q]
    /\ uploads \in [Sources -> 0 .. MaxUploads]
    /\ approved \subseteq Sources /\ toConfirm \subseteq Sources
    /\ loaded \subseteq Sources /\ linked \subseteq Sources
    /\ claims \in [Sources -> Versions] /\ drawn \in [Sources -> Versions]
    /\ relations \subseteq Sources \X Sources
    /\ contradictions \subseteq Contradiction
    /\ worker \in [Workers -> Worker]
    /\ mishaps \in 0 .. MaxMishaps /\ overrun \in BOOLEAN /\ crossed \in BOOLEAN /\ overtaken \subseteq Sources

\* Of two files that have been compared one has found the divergence, whichever
\* was read first and whatever had to be retried, unless a lease ran out under
\* a worker.
DivergencesFound == ~overrun =>
    \A s, t \in Sources : s # t /\ Is(s, "reconcile", "done") /\ Is(t, "reconcile", "done")
                              => Diverge(s, t)

\* Of two files that are in the graph the divergence is there, between the claims
\* they make now, unless their writes crossed or a lease ran out under a worker.
DivergencesDrawn == ~overrun /\ ~crossed =>
    \A s, t \in Sources : s # t /\ Is(s, "graph", "done") /\ Is(t, "graph", "done") /\ Diverge(s, t) =>
        /\ drawn[s] = claims[s] /\ drawn[t] = claims[t]
        /\ \E c \in contradictions : {c.by, c.to} = {s, t} /\ c.alive

\* No contradiction has lost a side, unless the writes of two files crossed.
NoOneSided == ~crossed => \A c \in contradictions : c.alive

\* A file somebody confirmed comes to an end: in the graph, or given up at a
\* stage; unless it was read while a chat was confirming it.
Confirmed(s) == s \in approved \/ (s \in toConfirm /\ s \notin overtaken)
Settled(s)   == \/ Is(s, "read", "gone")
                \/ \E q \in Stages \ {"reconcile"} : Is(s, q, "failed")
                \/ Is(s, "graph", "done")

EveryFileSettles == \A s \in Sources : Confirmed(s) ~> Settled(s)
================================================================================
