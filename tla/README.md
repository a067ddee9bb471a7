# DeliR: formal models of the workspace backend

DeliR (this repository) is a workbench for process consultants: a FastAPI
backend (`backend/`), a React frontend (`frontend/`), a Postgres database that
the request threads and a handful of background workers read and write, a Neo4j
graph and a Mem0 index that follow it. Consultants collect sources (interviews,
files), the backend builds a plan of the process from them with language models,
draws it as BPMN, checks the drawing against the sources, simulates it, and
remembers what was said.

What is hard in this program is not any single function: request threads, chat
turns and workers run READ COMMITTED transactions on the same rows, model calls
of minutes sit between reading a row and writing it, every long job is a row in
a queue with a lease, retries and a sweep, and two stores outside the database
are kept behind it by outboxes. These modules model that layer, and the one pure
algorithm whose passes undo each other's work: the compiler from plans to
drawings.

Contents: [database](#how-the-backend-uses-the-database),
[components](#components), [modules](#modules), [runs](#runs),
[fairness](#fairness), [proofs](#proofs),
[divergences](#where-the-code-departs-from-what-it-says),
[not modelled](#not-modelled), [plan](#plan).

## How the backend uses the database

Three facts of the code decide the granularity of the modules of the queues.

- A transaction is `with workspace_connection() as session` (one commit at the
  end, `workspace_storage.py:826`), or `kg_transaction` for the canonical
  tables. An action of a module is one transaction, or a part of one.
- `session.get` and `select` without `with_for_update` read a row without a
  lock. The ORM then sends, at the flush, an UPDATE of the columns whose value
  *differs from the loaded one*. Such a read-modify-write is **two actions**, a
  load and a write, and the row as it was loaded is part of the state (`seen`,
  `was`, `read`). A column set to the value it was loaded with is not written:
  that is what makes several of the races below possible, and others harmless.
- Transactions that begin with `FOR UPDATE`, or with the advisory lock of a
  queue, are **one action** when nothing else they read can change meanwhile.
  A row skipped by `SKIP LOCKED` is treated as if the two transactions had run
  in the other order; where a lock is held for the whole of a pass
  (`graph_worker.py`), the rows a worker has locked are part of the state.

Time is abstract everywhere: a lease or a backoff may run out at any moment,
because the leases (300 s for a plan, 900 s for a check, 1200 s for a file, 30
minutes for a package, 120 s of missed heartbeats) can be shorter than the work
they cover.

## Components

| Part of the system | Code | State | Operations | What makes it correct | Modelled by |
|---|---|---|---|---|---|
| Simulation queue | `simulation/queue.py`, `storage.py`, `service.py`, `workers/simulation_worker.py` | `workspace_simulation_runs`, artifact and log rows | submit one run or a group, claim, beat, reap, deliver an outcome | places of the engine, bounded backlog, one owner per claim, every run ends | `SimulationQueue`, `SimulationScheduler` |
| Plan queue and synthesis | `workspace_database/plans.py`, `workers/plan_worker.py`, `agents/process_synthesis.py`, `graphs/process/nodes.py` | `workspace_plan_materializations`, the registry of sources, the plan of each process | save, approve, discard a source; request; claim a batch; build; close; sweep; purge | plans catch up with the evidence, the queue comes to rest | `PlanQueue` |
| Drawing, plan and conformance check of a BPMN model | `workspace_database/bpmn.py`, `reviews.py`, `conformance.py`, `workers/conformance_worker.py`, `agents/conformance_audit.py` | model row and its versions, review row and its snapshots, check columns | save, restore, redraw; prepare, revise, answer, edit, approve; queue, claim, compare, record, release, sweep | nobody's work is overwritten unseen, history is complete, every drawing gets checked | `BpmnReview`, `SerialReview` |
| BPMN compiler and soundness analysis | `bpmn/compiler.py`, `flow_registry.py`, `soundness.py` | the nodes, flows and maps of one compilation | draw the main path, branches, loops, transitions, exceptions; add joins, catches, merges; analyse | nothing lost in silence, the transitions of the plan, joins where tokens need them | `BpmnCompiler`, `BpmnExecution` |
| Source acquisition | `workspace_database/sources.py`, `evidence.py`, `workers/source_worker.py`, `memory/knowledge_graph/canonical.py` | `acquisition_*` columns of a file, evidence segments, divergences, canonical claims and contradictions | upload, read, confirm, extract claims, compare, write to the graph, discard | a divergence between two files is found and drawn, a confirmed file comes to an end | `SourcePipeline` |
| Knowledge-graph ingestion and erasure | `workers/ingest_worker.py`, `memory/knowledge_graph/canonical.py`, `erase.py` | `kg_ingest_queue`, evidence tables | enqueue, claim, write, mark, fail, requeue stuck, prune; erase a process | evidence written once, every job ends, a deleted process leaves nothing | `IngestQueue` |
| Projection to Neo4j and its repair | `workers/graph_worker.py`, `retry.py`, `projector.py`, `reproject.py`, `scripts/queue_admin.py`, `scripts/kg_reproject.py` | `graph_outbox`, the graph, the state of the projection | emit, lock a batch, apply, retry, dead-letter, requeue, purge; compare, repair, record | a drained graph is the graph of the tables, rows settle, a repair repairs | `Retry`, `GraphProjection`, `GraphRebuild` |
| Pending actions | `memory/pending_actions.py`, `toolsets/memory.py`, `toolsets/workspace.py` | `pending_action`, one open row per thread | ask, add to a proposal, propose, refuse, answer, claim, cancel, expire, execute | executed once, the one that was shown | `PendingAction`, `Consent` |
| Semantic memory and forgetting | `memory/semantic/semantic_store.py`, `canonical_memory.py`, `forget.py`, `gateway/memory.py`, `workers/mem0_worker.py` | memory rows, projection log, documents of Mem0, tombstones | save, project, recall, bury, reject, delete | a text that was forgotten is not recalled | `Forgetting`, `Consent` |
| Archive and deletion | `workspace_database/lifecycle.py` | every row of a process | archive, restore, delete | deletion does not come back through a worker | the purge in `PlanQueue`, the erasure in `IngestQueue` |
| Supervisor | `workers/supervisor.py` | none | loops | | as fairness |
| Simulation scenarios and translation | `simulation/scenarios.py`, `simulation/ir/`, `bpmn_normalizer.py`, `log_processor.py` | scenario rows | save with an expected revision; translate | | not modelled |
| Chat graphs, toolsets, model gateway | `graphs/`, `services/agent_runtime.py`, `toolsets/`, `llm/` | a turn's memory, a ledger of calls | route a message, call tools | | only where they write the state above |
| Event log mining | `eventlog/` | none | parse, discover, compare | | not modelled: numeric, one log at a time |
| HTTP API, schemas, settings; frontend, operations | `api/`, `schemas/`; `frontend/`, `ops/` | none | validate and forward | | inputs of the actions |

Paths of the table are under `backend/`, but for `scripts/`.

Interactions. Saving a source requests a plan *in the same transaction*
(`sources.py:164`); a file that was read and confirmed becomes evidence and goes
on to its claims; a plan that is built becomes a version of the review and asks
for a conformance check, as a drawing does; a plan is compiled into a drawing; a
drawing is what a simulation executes (the run stores its own copy of the BPMN).
Packages of evidence, claims of files and deletions change the canonical tables,
and each of these transactions queues rows for Neo4j. What an agent wants to
write or delete waits for the consultant's confirmation, and a confirmed
deletion changes canonical rows, tombstones and Mem0. The workers are
independent loops of `workers/supervisor.py` and may also run as separate
processes, so every queue is modelled with any number of workers.

Compositions. `GraphRebuild` runs the repair script beside `GraphProjection`,
`Forgetting` the memory beside `PendingAction`, `BpmnExecution` a token game
behind `BpmnCompiler`, by extending the module and conjoining steps. The other
modules meet in single transactions, in which no guard of one looks at what the
other keeps (a plan of `PlanQueue` is a `prepare` of `BpmnReview`, a written
package of `IngestQueue` is an `Emit` of `GraphProjection`): they are not
composed.

Three modules are promises without the code that keeps them, each implemented by
a module beside it, in a run and by a proof: `SimulationScheduler` by
`SimulationQueue`, `SerialReview` by `BpmnReview`, `Consent` by `Forgetting`.

## Modules

Definitions under "Seeded fault" are variants of the operator that follows them
with one plausible mistake (a guard dropped, a bound one off, a reset missing):
each property of a run has one that breaks it. They are not part of any
specification.

### SimulationQueue

The variables are the rows (`run`, `lastRun`, the id sequence), the artifact and
the log stored for a run (which attempt's they are), what each executor is doing
(`drain`) and what each submitting thread found (`asking`).

| Action | Code |
|---|---|
| `FindActiveRun`, `CreateRun` | the two transactions of `service._register_run`: look for an active run with the same key, then insert |
| `CreateRunGroup` | `storage.create_simulation_run_group`, one transaction under the queue's advisory lock |
| `ReadRuns` | any read of a run: it reaps first |
| `ClaimNextRun` | `queue.claim_next_run`: reap, count the running ones, take the oldest |
| `Beat` | `queue.beat`, a conditional UPDATE |
| `EngineAnswers` | the engine returns, fails or times out |
| `LoadRun`, `WriteOutcome` | the unlocked load and the flush of `storage._update_simulation_run` |
| `WriteSummary`, `WriteLog` | the two transactions after it in `complete_simulation_run` |
| `Crash`, `Tick` | the executor dies; a heartbeat interval goes by |

`Reaped` is the effect of `reap_stale_runs`, part of every action that calls it.
A run's `silence` counts heartbeat intervals; runs from before the queue
(`LegacyRuns`, migration 0034) have no heartbeat and no stored BPMN, are judged
from their start and closed instead of given back.

`SimulationScheduler` is the promise to whoever submits a run: it waits, is
executed, is over; the engine has so many places; no run is lost, none comes
back. `SimulationQueue!ImplementsScheduler` maps the three sets to it.
`SimulationQueueMC` adds the symmetry of the drains.

### PlanQueue

Variables: the registry of `source`s, the `plan` of each process and what it was
read from, the `request` rows, the processes still `alive`, what each `builder`
(worker or chat turn) and each writer (`saving`) has in progress, `todo` (a
worker's batch or sweep), and `left`, the bound on mishaps.

| Action | Code |
|---|---|
| `Upload` | `sources.create_ingested_source` |
| `LoadToSave`, `LoadToDiscard`, `LoadToDraft`, `Commit` | transactions that register, approve, rewrite or discard a source, or find a stale plan while drawing, with the requests they enqueue |
| `Purge` | `lifecycle._purge_process` |
| `StartTurn`, `Decide`, `Read`, `Extract`, `SynthesisFails`, `Write` | `ensure_process_plan`: decide, read the ledger again, call the models, write the next version of the review |
| `ClaimBatch`, `WorkOne`, `LoadClose`, `Close` | `due_plan_materializations`, `_work_one` and the unlocked complete or fail |
| `StartSweep`, `SweepReads`, `SweepLoads`, `SweepRequests` | `sweep_stale_plans` |
| `TimePasses`, `Crash` | lease or backoff runs out; a process dies |

`Ledger(p)` is the evidence a plan is read from (reference and approved sources);
`SweptSources(p)` is what the sweep compares (sources of every status). They
differ in the code, and the difference is the subject of `SweepMissesNoPlan`.
`Requested`, `Failed` and `Completed` are what the ORM writes given the loaded
row and the current one. `PlanQueueMC` says which source belongs to which
process, and how many mishaps a run has.

### BpmnReview

One BPMN model. `drawing` is the number of the last version, `lock` the writers
that hold the row of the model (a set, so that its exclusivity is a fact and not
a type), `review` the row of `workspace_bpmn_reviews` with its check columns,
`snap` the snapshots of its versions, `writer` what each window or turn has
loaded, `auditor` what each check has read so far.

| Action | Code |
|---|---|
| `Open` | a window loads the canvas; a turn starts with the base version the window sent (`_canvas_base_versions`) |
| `LockToDraw`, `Draw` | `update_bpmn_model` and `restore_bpmn_version`: `FOR UPDATE`, precondition on the base, load of the review; then the new version, the queued check and the commit |
| `LoadToApprove`, `LockToApprove`, `Draw` | `approve_bpmn_review`, which loads the review *before* it locks the model |
| `LoadToRewrite`, `Rewrite` | `prepare_bpmn_review`, `revise_bpmn_review`, `answer_bpmn_review_question`, `update_bpmn_review_brief`: load; then the next version with its snapshot, refused by `uq_bpmn_review_version` if that version exists (`Collides`) |
| `Abandon` | any of them rolled back |
| `Claim`, `TimePasses`, `Fail`, `Unreadable` | `due_conformance_checks`, the lease, a check that fails or dies, `release_conformance_check` |
| `StartCompare`, `ReadPlan`, `ReadCanvas`, `Record` | a comparison on request or by a worker: plan, drawing, model calls, `record_conformance_report` |
| `SweepLoads`, `SweepWrites` | `enqueue_unchecked_conformance` |

`text` is the version in which the plan was last rewritten and stands for what
it says. `Queued(seen, row)` is `_queue_conformance` on a row that was loaded as
`seen`: with a check already pending, it writes nothing.

`SerialReview` is what the writers may believe: each looks, draws, proposes,
answers and edits as if it had drawing and plan to itself, and each rewriting is
of the plan as it stands. It has no locks, loads, flushes or collisions.
`BpmnReview!ImplementsSerial` reads its `history` off the snapshots and forgets
what writers have loaded. It says nothing of approvals and of checks, because of
those the code does not keep it (see the divergences); an approval shows only in
`Completed`, the snapshot it gives to a plan that is older than the snapshots.

### BpmnCompiler and BpmnExecution

`BpmnCompiler` is the part of `build_bpmn_semantic_model` that decides which
node follows which: `FlowRegistry` as a sequence of pairs (`flows`), the maps
from items of the plan to nodes (`compiled`, `gates`), and the passes in the
order of the code, one action per item of a pass. A plan is a record:

| Field | Meaning in `ProcessUnderstanding` |
|---|---|
| `main` | the ids of the main path, in order |
| `type` | for every step, what `_task_type` makes of it |
| `decisions` | `id`, kind of `gateway`, `refs`: the targets its outcomes name |
| `paths` | alternative paths: `id`, `of` (the decision that names it), `steps`, `rejoins`, `ends` |
| `loops` | lists of steps |
| `exceptions` | `id`, `host`, `interrupting`, `handled` (it has a handling) |
| `edges` | `flow_edges` of kind sequence, each with a label |
| `declared` | the declared ends besides the primary one: end events, and the labels of `boundaries` |
| `events` | the ends, the primary one (`done`) included, that are end events, which transitions can name |

| Action | Code |
|---|---|
| `DrawMain` | start, steps of the main path each with the gateway of its decision, and every declared end (`_build_end_events`), of which the primary one closes the main path |
| `SkipBranch`, `DrawBranch`, `BranchDecides` | `_add_alternative_paths` for one path: skipped with a warning, drawn to where it rejoins or ends, or cut at a step that has a decision of its own |
| `DrawLoop` | `_add_loop_flows` for one loop |
| `DrawEdge` | `_complete_flow_graph` for one transition |
| `Rejoin`, `Recover`, `Handle`, `GiveUp`, `SkipException` | `_add_boundary_events` for one exception |
| `AddJoin` | `_add_synchronizing_joins` for one split |
| `AddCatches`, `AddMerges` | `_normalize_event_gateways`, `_add_exclusive_merges` |
| `NextPass` | the end of a pass; after the branches, the warnings about decisions and paths no gateway leads to |

`said` are the items the warnings name, `asked` the transitions the passes over
the plan asked for (history). `Errors` is `soundness.analyze_control_flow`.
`BpmnExecution` executes what was drawn by the rules of BPMN 2.0, which the
compiler refers to and this repository does not contain (external in
`PROJECT.json`). Only plans that are `Structured` are executed: branches of a
synchronizing split, and the parallel splits inside them, go forward to one
step; nothing else leads in; no loop or exception leaves them or goes around
them; each decision is entered once. For other plans the property is false of
the code (see the divergences), which is why the condition is stated. Taken for
granted of a plan: a path is named by one decision, the steps of a path and of a
loop are distinct, a loop repeats activities without a marker, exceptions are of
kinds that can be drawn, transitions name items of the plan, none of them a loop.

`NothingIsLost` speaks of decisions, paths, exceptions, loops and transitions. A
loop counts as drawn when it has its gateway or shrinks to one marked step; steps
are not counted one by one. `DrawingIsSound` says which errors a drawing without
warnings has: exactly the declared ends that nothing leads to. `drawn` are the
flows as a pass found them; a flow has its name before the joins, and keeps it
when a join moves it (`retarget`), so what decides whether a branch of an
event-based gateway gets a catch event (`Labelled`) are the flows before the joins.

### SourcePipeline

Files of one process, each with four queues on its row: `job[s][q]` for reading,
claims, comparison (`reconcile`) and graph. `claims`, `relations` and `linked`
are the evidence segments; `drawn` and `contradictions` the canonical tables.

| Action | Code |
|---|---|
| `Upload`, `Confirm`, `Discard` | `create_ingested_source`, `verify_project_source`, `discard_uploaded_source` |
| `ChatLoads`, `ChatCommits` | `confirm_sources_sent_in_chat`, whose load and commit are apart |
| `Take`, `GiveUp`, `TimePasses`, `Fail` | `due_source_*` of each stage, the lease, `fail_source_*` |
| `FinishRead`, `FinishClaims` | `complete_source_acquisition`, `complete_source_claims` |
| `ReadInputs`, `FinishReconcile`, `RefuseReconcile` | the comparison: inputs, model call, relations, refused when a claim it names is gone |
| `ReadDivergences`, `CheckOthers`, `WriteGraph`, `RecordIds`, `FinishGraph` | the drawing of a file: divergences to draw, claims of other files looked up, the canonical transaction, ids back on the segments, outcome |
| `Abandon` | the worker dies |

### IngestQueue

`status` and `attempts` of each job, what each worker does with each job of its
batch (`held`), how many copies of a package are in the tables (`evidence`), the
row of the `process` and how far its deletion is (`erasure`). A claim carries no
token: outcomes are recorded by the id of the job. `late` counts the copies
written since a deletion began: what is left of them when it commits is any part.

| Action | Code |
|---|---|
| `Enqueue`, `Prune`, `RequeueStuck` | `enqueue_evidence`, deletion of old done rows, `_requeue_stuck` of any jobs in processing (for 30 minutes) |
| `Claim` | `_claim_batch` with SKIP LOCKED |
| `WriteEvidence`, `WriteFails`, `AnswerLost` | `write_evidence` in a transaction of its own; its commit may succeed without the worker hearing of it |
| `Finish`, `FinishFails`, `Fail` | `_mark_done`, which may give up, and `_mark_failed` |
| `BeginErase`, `CommitErase` | `_erase_process_kg`: the rows of the queue are deleted first (`swept`: until the commit others wait for them or skip them), then the evidence table by table, of which each statement sees what is committed when it starts |
| `DeleteProcess`, `ErasureFails` | the second transaction of the deletion of a process; an open one rolled back, or a request that died after the first |

### Retry, GraphProjection, GraphRebuild

`Retry` is `workers/retry.py`: what a failure costs a job. `GraphProjection` has
the tables (`pg`), the outbox (`log`, `row`), the graph (`neo`) and the passes of
the workers (`pass`: rows locked, with the outcome of each).

| Action | Code |
|---|---|
| `Upsert`, `Link`, `EraseNode`, `Unlink` | a canonical transaction with its `_emit` |
| `DrainStart`, `ApplyRow`, `FailRow`, `PoisonRow`, `Commit` | `drain_once`: lock a batch, apply each payload (Neo4j commits at once), and one commit of all outcomes |
| `Crash`, `BackoffElapses` | the worker dies with its locks; the wait of a row is over |
| `RequeueStuck`, `PurgeInvalid` | `scripts/queue_admin.py` |

`Applied` is what `projector.apply` does to the graph, the stub an edge leaves
for a node that is not there included. `Start` chooses what there is at first:
nothing, an established graph, or a row older than the validation of payloads.
`GraphRebuild` adds the script: read the tables, read the graph, read the tables
again, then delete what was too much and write what is wanted, one payload at a
time while everything else goes on, compare again, record the outcome, and
delete the dead letters when it was clean.

### PendingAction and Forgetting

`PendingAction` is one thread: its proposals (`rows`), and what each call of a
tool is doing (`call`). `Ask`, `Propose`, `Insert`, `Refused` are the gate of a
write, which reads the open proposal, adds to it and proposes the sum; `Answer`,
`Claim`, `ClaimedAlready`, `Cancel`, `Write`, `Finish` are the tools that confirm
or cancel; `Expire` and `Die` what goes wrong.

`Forgetting` extends it with Mem0 (`docs`), canonical rows, the projection log
and tombstones. `Save` is `save_structured_consultant_memory` with its mirror,
`Project` a row of the log added to Mem0 by the worker (its batch may not be
committed, so the document is added again), `Resolve` a proposal to forget,
`Bury`, `Reject`, `Delete` the three parts of a confirmed deletion. `Recalled` is
what a search returns after the filter of tombstones.

`Consent` is what the thread promises: one open proposal, granted at most once;
only what a granted proposal holds is due, what is due is tried once, memories
are hidden before they are deleted. It has no calls: `Forgetting!Thread` maps
the rows to its `proposals` (`Shown`), and what the calls still carry of a
confirmed row to `due` (`Mine`, while a call is `Busy` with it). A call that dies
drops what was due.

## Runs

| Run | Question | Bounds and why they are enough |
|---|---|---|
| `simulation_safety` | Places of the engine, backlog, exclusivity and ownership of a claim, runs that beat are kept, KPIs only beside a result, implementation of the scheduler | two drains, three rows (one of them legacy) with two keys, two attempts, one place, a backlog of one: a run given up for dead is claimed again while its first executor works, and given back while another waits |
| `simulation_progress` | Does every run end | a group of two and a legacy run; crashes at every point, unbounded in number: attempts bound the work |
| `plan_sweep` | Does the sweep see every plan that is behind | a source of the project with two processes and an uploaded file of one of them, each rewritten once, one worker with a batch of two, one unreadable registry |
| `plan_progress` | Do plans catch up, does the queue settle | one process, one source rewritten once (no uploaded file: see the divergences), a worker and a chat turn; one crash, one unreadable registry, one draft on an old plan, one purge, at every point |
| `review_safety` | Do history, answers and drawings survive the interleaving of a window and a turn, as if they took turns | three versions of each, so that a writer can be two versions behind; new and legacy reviews; one window and one turn, as every property relates two writers |
| `review_progress` | Does every check end, does a late worker go back | two drawings and a new plan, two workers, one comparing request, two attempts: a check renewed, lost, claimed by the other worker, recorded late |
| `graph_drain` | Is a drained graph the graph of the tables, does every row settle | two workers, an established graph of two nodes and an edge, two rows with batches of two, one attempt, one refusal for free: one row fails while the other goes on, both are applied twice, stuck rows are put back |
| `graph_repair` | Does an undisturbed repair end with the graph of the tables | a queue that starts with a row nobody can apply, two more rows, a worker and one run of the script: stubs, dead letters, writes between every two steps of the script |
| `ingest_erase` | How often is a package written, what does done mean, what does a deletion leave, does every job end | two jobs, two workers with batches of two, two attempts: a job taken for stuck while its first worker has it further down its batch |
| `source_files` | Is the divergence of two files found and drawn, does every confirmed file end | two files, one confirmed before, two workers, one mishap at any step, one upload: crossings of the two files at every stage |
| `memory_confirm` | Is what is confirmed done once and nothing else done, a text that is forgotten gone | two calls, two writes, one fact, two proposals, three documents, one mishap: two calls that race for the thread, the same text under three ids |
| `bpmn_compile` | Is anything of a plan lost in silence, does the drawing have its transitions, do the joins fit | 7,584 plans: a main path of four steps with two decisions of every kind beside or inside one another, or one decision with loops, or one with an exception, or a declared end reached by paths, transitions, an exception or nothing; a join, a merge or a loop at every place relative to the split. 2,512 of them have drawings without errors and are structured, and are executed with every choice; two tokens on a flow are enough to see a node run twice |

Deadlock is checked where the system can always go on (the simulation, plan and
review runs); the other systems stop when their bounded rows, files, documents
or plans are finished.
`DrainSymmetry` permutes the drains in the run without liveness, `Symmetry` the
calls and the writes of `memory_confirm`, which has no liveness either.

Exceptions that properties make, and why. Several properties except a race that
the code has and that a run without the exception refutes; each exception is a
history variable set by the one step that is the race, so the property says that
nothing else breaks it: `excused` (a job taken for stuck, an answer lost) in
`WrittenOnce`, `late` (copies written while a deletion was running, package by
package) in `ErasureIsComplete`, `removed` (a job queued while a deletion was
running that took its evidence) in `DoneIsWritten`, `overrun` and `crossed` in
the properties of divergences, `overtaken` in `EveryFileSettles` and in the
writes of proposals, `blind` for tombstones written
without a text, `reordered` in `DrainedGraphIsCanonical`. The divergences below
name the code behind each.

## Fairness

- The loops of `supervisor._drain_loop`, `run_simulation_queue` and
  `run_forever` run for ever and survive every exception: weak fairness of
  claiming, building, checking, closing, applying and of the steps of a pass.
- Model calls and the engine return within their timeouts, an open transaction
  of a source or of a chat ends, time passes (leases, backoffs, the age of a
  job): weak fairness.
- `CommitErase` has strong fairness: the transaction of a deletion ends, and a
  deletion that is asked for again and again does not fail each time. Without it
  the rows it has locked keep every worker waiting.
- `StartSweep` and `SweepWrites` have strong fairness: a pass that finds work
  does not sweep, but the interval since the last sweep, once elapsed, stays
  elapsed; and a sweep begun again and again does not fail each time before its
  one statement.
- Submitting, reading, saving, drawing, approving, comparing, beating, uploading,
  answering, deleting and crashing get none: a heartbeat the database refuses is
  logged and skipped, so nothing makes a drain beat in time, and a window is
  never obliged to commit. That a write or a model call *succeeds* is never
  assumed: jobs end as failed, rows as stuck.

Crashes are unbounded in `SimulationQueue`, `BpmnReview` and `IngestQueue`
(attempts bound the work) and in `GraphProjection`, whose `EveryRowSettles` says
of itself that from some time on (`Undisturbed`) workers do not die in a pass,
no credit is exhausted for ever and nobody puts stuck rows back: each of the
three can be repeated for ever in the code without costing an attempt. They are
bounded by `Mishaps` in `PlanQueue` and by `MaxMishaps` in `SourcePipeline` and
`Forgetting`.

## Proofs

All theorems are for every value of the constants allowed by the ASSUME of their
module: any number of drains, workers, windows, processes, sources, nodes, jobs,
calls, attempts.

`SimulationQueue_proofs`: `TypeCorrect`, `CapacityRespected`, `BacklogRespected`
and `QueueImplementsScheduler`. The induction is on the types, the order of the
ids, and the two bounds on cardinalities. Neither bound is obvious: reaping moves
runs from running to queued, so that the queued ones exceed the limit of
admission; but the *sum* of the two sets grows only by an admission, which counts
the queued ones, while the running ones stay within the places because a claim
counts them after reaping (`ReapedSets`, `PendingSplit`). The refinement uses
capacity: a step of the queue maps to a step of the scheduler that claims only
with a free place. `CapacityRespected` has no run of its own, as
`ImplementsScheduler` contains it. `ClaimsExclusive`, `LatestClaimNamed` and the
action property `BeatingKept` say who has a run: no executor has a claim of an
attempt its row has not counted yet (`TakesCounted`), whatever reaping, late
answers and crashes did in between, so the next claim is of an attempt nobody
has. `OwnInv` is that and the two properties. `KpisFollowResults` is about the
two transactions after an outcome, which an executor makes although it may have
lost the run: `StoringInv` has the result of the run in place from before the
first of them until after the second: an outcome that is accepted writes it, one
that is discarded goes on only where the row it loaded is completed, and a failure
that was loaded before writes its status over the result and leaves it there.

`PlanQueue_proofs`: `TypeCorrect` and `SweepSound`. `SweepMissesNoPlan` alone is
not inductive. The invariant `SweepInv` adds: `SaversKnow` (what a writer loaded
is what the source still is, or it has been removed), `SaversAlone` (one saver
per source), `ReadsEvidence` (a plan, or one being built, was read only from
texts of sources that were evidence). If the sweep took a plan for current,
every source in scope would be one the plan was read from, and as no step takes
a source back from evidence to extracted, the two sets of sources would
coincide and the plan would be current.

`BpmnReview_proofs`: `TypeCorrect`, `HeadRecorded`, `AnswersKept`,
`BaseReplaced`, `WorkersGoForward` and `ReviewImplementsSerial`, from one
invariant `IInv`. Its heart is
`SeenIsOld`: what a writer loaded is the review or an older version of it, and if
older, the version it is about to write has a snapshot already, so it collides.
That is why unlocked rewriters lose nothing although no lock stands between
them, and why the approval, which raises no version, is not protected.
`LockIsExclusive` and `LockersKnowTheirBase` carry the precondition of a save
from the lock to the commit; `ReportIsOld`, `ReadingIsOld` and `ClaimIsAhead`
order what the last report, a check in progress and the last claim have read.
The refinement is where these parts meet: a rewriting that does not collide has
loaded the plan as it is (`RewriteFacts`), so it is the one step `Propose`,
`Answer` or `Edit` of `SerialReview`; a turn that draws holds the lock and knows
its base; everything else, checks included, is a stutter. An approval that
completes the history can only complete its first version, as `HeadIsRecorded`
has the others and `TextInv` says that what it loaded has a text.

`GraphProjection_proofs`: `TypeCorrect` and `DrainedSound`. That a drained graph
is the graph of the tables says nothing of a graph that is not drained yet; the
invariant says it key by key. `LogIsCanonical`: the tables hold what the last row
that decides a key says of it, or what they held at first (`Origin`).
`GraphFollows`: unless an older row has overwritten a later one, the graph holds
it too from the moment that row lands, however often it lands. A crash only
forgets outcomes, so it lets rows land once more and never takes one back.

`GraphRebuild_proofs` builds on the lemmas of the module before: `QuietRepair`
and `DrainedBesideScript`. The script writes what it read, and what it read may
be old. `Snapshots` says what old means: each key of its reading has the value
the tables had as of some row of the queue (`AsOf`), so that what it merges or
deletes is a row of the queue landing once more, and spoils a later row exactly
when that row would. `OnlyUnreadableDie` and `Resolvable` are for the last step,
which marks dead letters as resolved: only the row nobody can apply is one, and
the script has just found in the graph what that row says of the tables.
`OnlyTheScript` follows an undisturbed repair: between any two of its writes a
key in which the graph and the tables differ is one it is going to write.

`SourcePipeline_proofs`: `TypeCorrect`, `NoDivergenceMissed`, `SidesKept` and
`NoDivergenceUndrawn`, for any number of files and workers. Types need a count:
the claims of a file are extracted once per attempt, those being extracted
included (`AttemptsCover`). For `DivergencesFound` the invariant is that of two
files at most one is compared, or has read the inputs of its comparison, without
the other (`SeenByOne`); where no lease ran out each stage of a file has
one worker (`Solo`) and starts after the one before is over (`InOrder`), so a file
that is being compared has its claims complete, and a comparison that reads its
inputs later finds it there. `DivergencesDrawn` needs what a worker in the middle
of drawing can count on (`OneDrawn`, `BothDrawn`): a contradiction with a file
that is in the graph is among those it has found, or there already. `NoOneSided`
does not except leases: of several workers who draw without crossing, all draw
one file, and what they know to be gone is of that file (`OneFileDrawn`).

`IngestQueue_proofs`: `TypeCorrect`, `WrittenAtMostOnce`, `DoneWritten`,
`ErasureComplete`. `WrittenOnce` is counted: copies in the tables plus the writes
that may still come (`Budget`: one if the row is pending, one per worker that
holds the job unwritten) are never more than one plus what was excused, since a
claim only passes a write from the row to a worker and a failure passes it back.
`ErasureComplete` rests on what is counted as late being there while the first
transaction is open (`LateIsThere`), so that what it leaves is late (`Purged`).

`Forgetting_proofs` covers `PendingAction` and `Forgetting`: `TypeCorrect`,
`ConfirmedAtMostOnce`, `WrittenAtMostOnce`, `DeletedStaysGone`,
`RejectedStaysGone`, `ThreadImplementsConsent`. The unique index makes the open row the last one
(`LastWaits`); from there what a call carries is either still to come for a row
nobody has confirmed or is being done by the one call that has it. The two
properties of forgetting speak of equal texts, tombstones without a text excepted
(the same fact under its header, bare and reworded is three texts), and rest on the order of the deletion: a document is deleted
and a row rejected only by a call whose tombstones are all there, and tombstones
are never taken back. The refinement of `Consent` needs one thing more,
`GrantInv`: a call that does something does what a confirmed row says, and no two
calls have the same row. So a write or a deletion takes its item from what is due
once and for all, and what is due grows by a confirmation only.

Where `TypeOK` is proved for every instance and not also an invariant of a run
(all that have one but `GraphProjection`), the theorem is the stronger
check.

Only model-checked: liveness (`EveryRunEnds`, `PlanCatchesUp`, `QueueSettles`,
`EveryCheckEnds`, `EveryJobEnds`, `EveryRowSettles`, `EveryFileSettles`), because
the prover does not reason on ENABLED and fairness; and the five properties of
the compiler and of its drawings (`NothingIsLost`, `FollowsThePlan`,
`DrawingIsSound`, `NeverStuck`, `RunsOnce`). The module declares reachability as
a recursive operator, which the prover does not take; written otherwise, what the
drawing of an arbitrary plan reaches would still be an induction over its flows,
and what a pass draws of it (all that `NothingIsLost` speaks of) one over the
lists that it filters and folds.

## Where the code departs from what it says

Met while modelling, grouped by the module whose actions show the steps. Where a
property makes an exception or a run leaves something out because of one of
these, the name in parentheses is that exception: without it the property is
violated. The runs keep to what holds, so none of these has a run of its own.

Simulation (`SimulationQueue`):

- `storage.py:357` calls an outcome stolen only when `started_at` is set. A run
  that was given back has none, so the late outcome of an executor given up for
  dead closes it while it waits in the queue (comment 354-355). The same unlocked
  load and flush can reopen a run another executor has closed.
- `storage.py:208` looks at the row *after* a discarded outcome: when another
  executor completed it, the KPIs and the log of the discarded execution replace
  the accepted ones (comment 206-207). `KpisFollowAResult` says what is left:
  KPIs are never there without an accepted result.
- Two requests with the same key execute the same simulation twice
  (`service.py:533`, against `docs/simulation-prosimos.md:140-142`).

Plans and sources (`PlanQueue`, `SourcePipeline`):

- `sources.py:675` checks that a file is no evidence on an unlocked row; an
  approval in between is deleted with it (662-663).
- `plans.py:510` compares the sources a plan was read from with sources of every
  status, while a plan is read from reference and approved ones
  (`nodes.py:95-100`): a file that is never approved makes every sweep ask for
  the plan again. `QueueSettles` is therefore checked without uploaded files.
- A renewed request can be closed by the worker of the old one, and only the
  sweep brings it back (`plans.py:397`); an unreadable registry is a settled
  outcome and closes the request (`process_synthesis.py:993`); a request that is
  renewed never exhausts its attempts (`plans.py:424`); the lease of 300 s does
  not cover a batch (`plans.py:23`, against 333-336).
- `docs/process-canvas-boundary.md:327-330` says that the drawing command draws a
  stale plan and declares it; `workspace_services/bpmn_draft.py` refuses it with
  `plan_stale`.
- A message in chat that finds a file in reading (`sources.py:649`) and commits
  after the reading ended leaves it to be confirmed for ever, though the docstring
  (632) says it becomes evidence when the reading ends (`overtaken`).
- `evidence.py:374`: two files written to the graph at the same time each read
  the divergences before the other has its Claim; neither writes the
  contradiction that the docstring (357-359) gives to the second (`crossed`).
- A claim of a file is not fenced: a worker whose lease ran out records its
  outcome by the id of the file (`sources.py:515`, `overrun`).

Reviews (`BpmnReview`):

- `reviews.py:793`: the approval does not raise the version, so it can be
  committed before a revision that did not see it, and the revised plan is
  approved (754-755).
- `bpmn.py:235`: the review is loaded before the new drawing is committed; a
  worker that ends the check of the old one in between leaves a new drawing whose
  check is done (comment 233-234).

Ingestion and erasure (`IngestQueue`):

- A job whose worker dies in the fifth attempt is put back as pending and never
  claimed again (`Stranded`), though `ingest_worker.py:10-12` says it ends done or
  failed.
- A job that was written and could not be marked is put back by `_requeue_stuck`
  and written again, though the comment (`ingest_worker.py:149-153`) says it will
  not be reprocessed (`excused`).
- A package committed while a process is being deleted becomes evidence of the
  whole project: between the two transactions (`erase.py:272`), or within the first,
  whose statements (285-400) take no lock and sweep one table after the other, so
  that a package committed after `DELETE FROM kg_claim` (301-309) keeps its claims
  (against the docstring 10-15 and 25-29; `late`). Deleting the rows of the queue
  first (295-298) does not help: a worker that has claimed a job does not look at
  its row again before it writes.
- A package queued while that transaction is open keeps its row; when it is also
  written before its tables are swept, its job is done and nothing of it is there
  (`removed`).

Graph (`GraphProjection`, `GraphRebuild`):

- `graph_worker.py:103`: a row that failed waits while later rows go on, so a
  retried MERGE of a node can land after the row that deletes it. The node is
  back, the queue is empty, nothing is dead, and `projection_health._measure`
  answers FRESH (`projection_health.py:11`; "ordine globale per `id`",
  `graph_worker.py:8`; `reordered`).

Pending actions and memory (`PendingAction`, `Forgetting`):

- Two gates of one round read the same open proposal, or none; each adds its own
  write and proposes the sum, and the second replaces the proposal of the first
  without having read it (`toolsets/workspace.py:356-365`, `pending_actions.py:142-150`). The
  write of the first is lost without a word, though the comments say that writes
  of one round add up (363-364) and that a proposal does not cancel another one
  silently (352-353). No property is checked that says so; the refinement of
  `Consent` allows a proposal to be closed by another one.
- A proposal that is confirmed while another call is adding to it is proposed
  again with the new write, and its writes are done twice
  (`toolsets/workspace.py:356-365`; `overtaken`). A proposal to forget replaces
  pending writes without reading them (`toolsets/memory.py:347`), and cancelling
  closes whatever is open by then (`memory.py:397`, `workspace.py:1371`).
- Mem0 keeps a saved fact under a header (`models.py:130`), the canonical row its
  bare statement, so `_reject_canonical_rows` (`forget.py:308`) does not match
  what a search returned, though the docstring (20-22) says the canonical row is
  rejected.
- A tombstone that was written without a text is never completed
  (`ON CONFLICT DO NOTHING`), so the same text may be recalled under another id
  (`blind`); a copy in other words is not matched, though the docstring (16-18)
  says the filter holds when Mem0 rewrites the fact.
- When tombstones cannot be read the filter lets everything through
  (`forget.py:106-108`); this outage is not in the model. A fact saved again
  after being forgotten is announced as saved and never recalled.

Compiler (`BpmnCompiler`, `BpmnExecution`), with the condition of the model that
excludes each:

- `_add_synchronizing_joins` (`compiler.py:1487-1496`) takes for branches of a
  parallel split the exclusive alternatives of a choice inside it: the join waits
  for all of them and never passes (against 68-73). The same when a step of a
  branch is left by an interrupting exception that comes back behind the join.
  `analyze_control_flow` reports neither (`Structured`).
- A split of three branches that rejoin at two places is closed by one join only,
  and the steps behind the second run twice (`Structured`).
- A loop that goes around a parallel block removes its join: everything is
  downstream of the meeting point, so nothing is a branch. The step behind runs
  once per token, against the docstring (1465-1470) (`~Repeated`).
- A second transition into a decision becomes a second flow into its gateway,
  which then both splits and joins; a parallel one with a single exit waits for
  both for ever. No warning, although transitions are added "only when safe"
  (1653) (`DecisionEnteredTwice`).
- A step that recovers from an exception and has a transition of its own gets no
  exit: transitions are completed before exceptions are drawn
  (`RecoveryGoesOn`).
- Every declared end is drawn at once (`compiler.py:251-256`), and one that no path
  and no transition leads to is an error of the analysis
  (`soundness.py:144-147`) that no warning announces. So is the end of a path that
  names one but rejoins, or whose step has a decision of its own: the branch goes
  on there and its `ends_at` is dropped (870-892). The same for a transition to an
  end that is only a label of `boundaries` (`LeftAlone`).
- Of several transitions out of an exception only the first is drawn, without a
  word (`compiler.py:1339-1344`); a transition into an exception that is attached
  elsewhere is not drawn either (`DroppedInSilence`).
- A loop over a step of a branch silently shrinks to its steps on the main path.
- A transition out of the last step of a loop has been moved to the gateway of
  the loop; `_complete_flow_graph` does not find it there and warns that it was
  not drawn. The model has it in `said`, where it counts as announced.
- `coverage.losses` is always empty (`compilation_plan.py:89`), so the documented
  ValueError (`compiler.py:124`) cannot be raised, and a step that is on no path
  is not drawn and not named.

## Not modelled

- Payloads: BPMN XML, plans in `BpmnReview`, briefs, KPIs, logs, packages and
  texts are identified by the version or the attempt they come from. What a merge
  keeps of a plan (`agents/process_plan.py:513`), and the text of the brief as an
  input of a check (`reviews.py:551`), are therefore not followed.
- Wall-clock comparisons: a turn without a base version compares `created_at`
  with its start in whole seconds (`bpmn.py:92`), a claim of a check is
  identified by its second (`conformance.py:294`). Turns of the model always
  have a base, and a claim is identified by its worker.
- The decisions of a consultant on single elements (`conformance.py:112`), and the
  marks of provenance drawn without a precondition (`element_review.py:92`), which
  are the `redraw` of a window.
- The caches of extractions and of audits: they change how long a build takes,
  not what it is built from.
- Of the compiler: lanes, layout, XML, collaborations, data flow, links, detached
  activities, events on the main path, and gateways that start the process;
  complex gateways are drawn and not executed.
- Of ingestion, the synchronous path of `kg_ingest_async=False`, one write without
  a queue; of the graph worker, an outcome of `_handle_failure` that cannot be
  recorded (the pass is rolled back as by a crash); of the graph, properties of
  edges and the embedding of nodes; of a source, two writes of one file to the
  graph are serialized. `complete_source_acquisition` reads its file without a lock
  (`sources.py:453-511`) and is one step all the same: nothing is awaited between its
  load and its flush, and an approval that commits in between is left out.
- Of the plans, claims of a process without a source: `ensure_process_plan` settles
  only when there are neither (`agents/process_synthesis.py:996`), the model when there
  is no source. Two transactions that save one source at a time: they write the
  columns they changed, and what they request is the same.
- Of memory, classification, ranking, provenance and the store in memory that
  replaces `pending_action` without a database.
- The rest of the table, for the reasons given there: what a chat turn does is
  decided by a language model and reaches the shared state only through
  operations that are modelled; scenarios are saved in one locked transaction;
  event logs, layouts and simulation inputs are numbers computed by one thread;
  routes and schemas validate and forward. These parts are most of the code by
  lines and have no state of their own to get wrong.

## Plan

Done: the queues a consultant waits for (simulation, plan, drawing and its
check), the way of a file to the graph, the ingestion queue and the erasure that
races it, both projections, confirmations and forgetting, and the compiler.

Next, in this order:

1. The decisions on elements, as columns of the review in `BpmnReview`, and the
   merge of a plan as a pure operator checked against a reference definition.
2. An abstract queue of jobs that `IngestQueue` and the stages of
   `SourcePipeline` both implement, in place of the properties they repeat.
3. The routing of a turn (`graphs/routing_contracts.py`) as a pure operator, if
   its contracts come to be stated without the text of a message.
