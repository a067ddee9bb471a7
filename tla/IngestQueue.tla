------------------------------ MODULE IngestQueue ------------------------------
(***************************************************************************)
(* Packages of evidence on their way to the tables of the knowledge graph  *)
(* (memory/knowledge_graph/canonical.py, workers/ingest_worker.py), while  *)
(* the process they are about is being deleted                             *)
(* (memory/knowledge_graph/erase.py).                                      *)
(*                                                                         *)
(* A worker claims jobs in one transaction, writes the package of each in  *)
(* another, which is not idempotent, and records the outcome by the job's  *)
(* id in a third.  A claim carries no token: what a worker records may be  *)
(* about a job that somebody else has claimed since, or that is deleted.   *)
(*                                                                         *)
(* All packages are about one process.  The ids in a package are resolved  *)
(* before it is queued and never again: of a process created later with    *)
(* the same name these packages know nothing.                              *)
(***************************************************************************)
EXTENDS Naturals, FiniteSets

CONSTANTS
    Jobs,         \* packages, by the id of their job
    Workers,      \* processes that drain the queue
    Batch,        \* jobs a worker claims at once
    MAX_ATTEMPTS

ASSUME IngestAssumption ==
    /\ Jobs \subseteq Nat
    /\ IsFiniteSet(Workers)
    /\ Batch \in Nat \ {0} /\ MAX_ATTEMPTS \in Nat \ {0}

VARIABLES
    status,     \* per job, the status of its row: see Statuses
    attempts,   \* per job, how often it was claimed
    held,       \* per worker and job, what the worker is doing with it: see Steps
    evidence,   \* per job, how many copies of its package are in the tables
    process,    \* whether the row of the process is there
    erasure,    \* where the deletion of the process is
    swept,      \* jobs whose rows the open transaction of the deletion has deleted
    late,       \* history, per job: copies written since the deletion began
    removed,    \* history: jobs queued and written during a deletion that took copies of them
    excused     \* history, per job: times it was taken for stuck, answers lost

eraseVars == <<process, erasure, swept, removed>>
vars == <<status, attempts, held, evidence, eraseVars, late, excused>>

\* gone: no such row.
Active   == {"pending", "processing"}
Statuses == {"new", "done", "failed", "gone"} \cup Active
Steps    == {"none", "claimed", "failing", "written"}

Is(j, s)   == status' = [status EXCEPT ![j] = IF @ = "gone" THEN @ ELSE s]
Put(w, j, s) == held' = [held EXCEPT ![w][j] = s]
Copied(j)  == evidence' = [evidence EXCEPT ![j] = @ + 1]
Locked(j)  == j \in swept

-----------------------------------------------------------------------------
(* The queue                                                               *)

\* A process that is gone is refused by the foreign key of the row.
Enqueue(j) ==
    /\ status[j] = "new"
    /\ process
    /\ Is(j, "pending")
    /\ UNCHANGED <<attempts, held, evidence, eraseVars, late, excused>>

\* Rows of jobs that were done two weeks ago.
Prune(j) ==
    /\ status[j] = "done"
    /\ \A w \in Workers : held[w][j] = "none"
    /\ ~Locked(j)
    /\ Is(j, "gone")
    /\ UNCHANGED <<attempts, held, evidence, eraseVars, late, excused>>

-----------------------------------------------------------------------------
(* The worker                                                              *)

Resting(w) == \A j \in Jobs : held[w][j] = "none"

\* Seeded fault: a job is put back only while it has attempts left.
LooksStuckAndRetried(j) == status[j] = "processing" /\ attempts[j] < MAX_ATTEMPTS

\* Any job in processing may be so since _STUCK_MINUTES, whoever holds it.
LooksStuck(j) == status[j] = "processing"

\* A pass begins with it.  One statement, which waits while a row it needs is
\* deleted by somebody who has not committed.
RequeueStuck(stuck) ==
    /\ \E w \in Workers : Resting(w)
    /\ stuck # {}
    /\ \A j \in stuck : LooksStuck(j) /\ ~Locked(j)
    /\ status' = [j \in Jobs |-> IF j \in stuck THEN "pending" ELSE status[j]]
    /\ excused' = [j \in Jobs |-> excused[j] + IF j \in stuck THEN 1 ELSE 0]
    /\ UNCHANGED <<attempts, held, evidence, eraseVars, late>>

\* Seeded fault: a job that is being processed is claimed again.
ClaimableTwice(j) ==
    status[j] \in {"pending", "processing"} /\ attempts[j] < MAX_ATTEMPTS /\ ~Locked(j)

\* FOR UPDATE SKIP LOCKED.
Claimable(j) == status[j] = "pending" /\ attempts[j] < MAX_ATTEMPTS /\ ~Locked(j)

Batched == {j \in Jobs :
               /\ Claimable(j)
               /\ Cardinality({i \in Jobs : Claimable(i) /\ i < j}) < Batch}

Claim(w) ==
    /\ Resting(w)
    /\ Batched # {}
    /\ status'   = [j \in Jobs |-> IF j \in Batched THEN "processing" ELSE status[j]]
    /\ attempts' = [j \in Jobs |-> attempts[j] + IF j \in Batched THEN 1 ELSE 0]
    /\ held'     = [held EXCEPT ![w] = [j \in Jobs |-> IF j \in Batched THEN "claimed" ELSE "none"]]
    /\ UNCHANGED <<evidence, eraseVars, late, excused>>

\* The jobs of a batch are taken one after the other.
Takes(w, j) == held[w][j] = "claimed" /\ \A i \in Jobs : held[w][i] \in {"none", "claimed"}

\* The transaction of write_evidence, which the process has to be there for and
\* which does not touch the row of the job.
Writes(j) ==
    /\ process
    /\ Copied(j)
    /\ late' = [late EXCEPT ![j] = @ + IF erasure = "idle" THEN 0 ELSE 1]

WriteEvidence(w, j) ==
    /\ Takes(w, j)
    /\ Writes(j)
    /\ Put(w, j, "written")
    /\ UNCHANGED <<status, attempts, eraseVars, excused>>

WriteFails(w, j) ==
    /\ Takes(w, j)
    /\ Put(w, j, "failing")
    /\ UNCHANGED <<status, attempts, evidence, eraseVars, late, excused>>

\* Committed, and the connection is gone before the worker hears of it.
AnswerLost(w, j) ==
    /\ Takes(w, j)
    /\ Writes(j)
    /\ Put(w, j, "failing")
    /\ excused' = [excused EXCEPT ![j] = @ + 1]
    /\ UNCHANGED <<status, attempts, eraseVars>>

Finish(w, j) ==
    /\ held[w][j] = "written" /\ ~Locked(j)
    /\ Is(j, "done")
    /\ Put(w, j, "none")
    /\ UNCHANGED <<attempts, evidence, eraseVars, late, excused>>

\* _mark_done gives up: the row stays in processing.
FinishFails(w, j) ==
    /\ held[w][j] = "written"
    /\ Put(w, j, "none")
    /\ UNCHANGED <<status, attempts, evidence, eraseVars, late, excused>>

\* Seeded fault: a job that is out of attempts is closed.
AfterFailureClosed(j) == IF attempts[j] >= MAX_ATTEMPTS THEN "done" ELSE "pending"

AfterFailure(j) == IF attempts[j] >= MAX_ATTEMPTS THEN "failed" ELSE "pending"

Fail(w, j) ==
    /\ held[w][j] = "failing" /\ ~Locked(j)
    /\ Is(j, AfterFailure(j))
    /\ Put(w, j, "none")
    /\ UNCHANGED <<attempts, evidence, eraseVars, late, excused>>

\* The process dies, or the outcome of a failure cannot be recorded and the
\* pass is abandoned with the jobs it has left.
Abandon(w) ==
    /\ ~Resting(w)
    /\ held' = [held EXCEPT ![w] = [j \in Jobs |-> "none"]]
    /\ UNCHANGED <<status, attempts, evidence, eraseVars, late, excused>>

-----------------------------------------------------------------------------
(* Deleting the process                                                    *)

\* _erase_process_kg is one transaction of many statements that locks nothing
\* before it needs it.  It deletes the rows of the jobs first: until it ends they
\* are there for everybody else, who waits for them or skips them.
BeginErase ==
    /\ process /\ erasure = "idle"
    /\ erasure' = "erasing"
    /\ swept' = {j \in Jobs : status[j] \notin {"new", "gone"}}
    /\ UNCHANGED <<status, attempts, held, evidence, process, removed, late, excused>>

\* The statements that follow delete the evidence table by table and see what is
\* committed when each of them starts: nothing stays of a copy that was there at
\* the beginning, nothing, a part or all of one that was written since.
Remainders == {left \in [Jobs -> UNION {0 .. late[j] : j \in Jobs}] :
                   \A j \in Jobs : left[j] <= late[j]}

CommitErase ==
    /\ erasure = "erasing"
    /\ erasure' = "purged"
    /\ status' = [j \in Jobs |-> IF j \in swept THEN "gone" ELSE status[j]]
    /\ \E left \in Remainders :
          /\ evidence' = left
          /\ removed' = removed \cup {j \in Jobs \ swept : left[j] < evidence[j]}
    /\ swept' = {}
    /\ UNCHANGED <<attempts, held, process, late, excused>>

\* Seeded fault: the process goes before its evidence.
DeleteProcessFirst ==
    /\ process
    /\ process' = FALSE
    /\ erasure' = "idle"
    /\ swept' = {}
    /\ UNCHANGED <<status, attempts, held, evidence, removed, late, excused>>

\* The second transaction.  The foreign keys set what still names the process to
\* NULL: evidence that is there now is read as evidence of the whole project.
DeleteProcess ==
    /\ process /\ erasure = "purged"
    /\ process' = FALSE
    /\ erasure' = "idle"
    /\ UNCHANGED <<status, attempts, held, evidence, swept, removed, late, excused>>

\* A statement fails or the request dies: an open transaction is rolled back, and
\* the deletion may be asked for again from the start.
ErasureFails ==
    /\ erasure \in {"erasing", "purged"}
    /\ erasure' = "idle"
    /\ swept' = {}
    /\ late' = [j \in Jobs |-> 0]
    /\ UNCHANGED <<status, attempts, held, evidence, process, removed, excused>>

-----------------------------------------------------------------------------
Init ==
    /\ status = [j \in Jobs |-> "new"]
    /\ attempts = [j \in Jobs |-> 0]
    /\ held = [w \in Workers |-> [j \in Jobs |-> "none"]]
    /\ evidence = [j \in Jobs |-> 0]
    /\ process = TRUE /\ erasure = "idle" /\ swept = {}
    /\ late = [j \in Jobs |-> 0] /\ removed = {}
    /\ excused = [j \in Jobs |-> 0]

HandleJob(w, j) ==
    \/ WriteEvidence(w, j) \/ WriteFails(w, j) \/ AnswerLost(w, j)
    \/ Finish(w, j) \/ FinishFails(w, j) \/ Fail(w, j)

Work(w) == Claim(w) \/ \E j \in Jobs : HandleJob(w, j)

Erase == BeginErase \/ CommitErase \/ DeleteProcess \/ ErasureFails

Next ==
    \/ \E j \in Jobs : Enqueue(j) \/ Prune(j)
    \/ \E stuck \in SUBSET Jobs : RequeueStuck(stuck)
    \/ \E w \in Workers : Work(w) \/ Abandon(w)
    \/ Erase

Spec == Init /\ [][Next]_vars

-----------------------------------------------------------------------------
(* A worker keeps working and looks for stuck jobs, and time passes, so    *)
(* that whatever stays in processing gets stuck.  Nobody has to delete     *)
(* anything, but a deletion that is tried again and again does not fail    *)
(* each time, and its transaction ends.  Writes may fail for ever.         *)
Fairness ==
    /\ \A w \in Workers : WF_vars(Work(w))
    /\ WF_vars(RequeueStuck({j \in Jobs : LooksStuck(j)}))
    /\ SF_vars(CommitErase)

FairSpec == Spec /\ Fairness

-----------------------------------------------------------------------------
(* Properties                                                              *)

TypeOK ==
    /\ status \in [Jobs -> Statuses]
    /\ attempts \in [Jobs -> 0 .. MAX_ATTEMPTS]
    /\ held \in [Workers -> [Jobs -> Steps]]
    /\ evidence \in [Jobs -> Nat]
    /\ process \in BOOLEAN /\ erasure \in {"idle", "erasing", "purged"}
    /\ swept \subseteq Jobs /\ removed \subseteq Jobs
    /\ late \in [Jobs -> Nat]
    /\ excused \in [Jobs -> Nat]

\* A package is in the tables once, plus once for each time its job was taken
\* for stuck or the answer to a write was lost: failures, deaths and two workers
\* alone never write it twice.
WrittenOnce == \A j \in Jobs : evidence[j] <= 1 + excused[j]

\* A job that is done has its evidence in the tables, whoever of the workers that
\* had it recorded what, unless a deletion took it; and a deletion takes the jobs
\* with their evidence, but for one that was queued while it was running.
DoneIsWritten == \A j \in Jobs : status[j] = "done" => evidence[j] > 0 \/ j \in removed

\* Once the process is deleted the rest of the project reads of its evidence no
\* copy but those that were written after the deletion had begun: of each package
\* at most as many, whatever was written before by workers that still hold it,
\* by a deletion that was rolled back or by one that stopped half way.
ErasureIsComplete == ~process => \A j \in Jobs : evidence[j] <= late[j]

\* No job stays in the queue for ever without an end; one whose last worker died
\* ends as a row that is pending and that nobody will claim.
Stranded(j) == status[j] = "pending" /\ attempts[j] >= MAX_ATTEMPTS
Ended(j)    == status[j] \in {"done", "failed", "gone"} \/ Stranded(j)

EveryJobEnds == \A j \in Jobs : []<>(status[j] \in Active => Ended(j))
================================================================================
