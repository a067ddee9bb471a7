------------------------------ MODULE PlanQueue ------------------------------
(***************************************************************************)
(* The queue that rebuilds the plan of a process when its evidence changes *)
(* (backend/workspace_database/plans.py, workers/plan_worker.py,           *)
(* agents/process_synthesis.py, and the writes of sources.py that feed it).*)
(*                                                                         *)
(* A source is saved and the processes it informs are requested in the     *)
(* same transaction.  A worker claims requests (a lease, no owner), builds *)
(* the plan and closes the request; when nothing is due it sweeps for      *)
(* plans that describe another set of sources.  Chat turns build plans     *)
(* with the same function, outside the queue.                              *)
(*                                                                         *)
(* The claim locks its rows.  Every other write to a request loads the row *)
(* without a lock and writes at the flush only the columns whose value     *)
(* differs from the loaded one: it is two actions, and "seen" is the row   *)
(* as it was loaded.  Time is abstract: a request is due or not, and what  *)
(* is not due may become due at any moment, as leases of five minutes are  *)
(* shorter than a batch of model calls can be.                             *)
(***************************************************************************)
EXTENDS Naturals, FiniteSets

CONSTANTS
    Processes,
    Sources,
    Uploads,       \* the sources that are uploaded files, read before approval
    Scope,         \* per source, the processes it is evidence for
    MaxText,       \* bound: how often the text of a source changes
    Workers,       \* plan workers
    Turns,         \* chat turns and drawing commands that build a plan
    Writers,       \* request threads that save sources
    Batch,         \* plan_worker._BATCH
    MATERIALIZATION_MAX_ATTEMPTS,
    Mishaps,       \* bound: how many crashes, unreadable registries, drafts on
                   \* an old plan and purges of processes happen
    NoProcess,
    NoSource

Texts    == 0 .. MaxText
Attempts == 0 .. MATERIALIZATION_MAX_ATTEMPTS
Builders == Workers \cup Turns
Mishap   == {"crash", "unreadable", "draft", "purge"}

ASSUME PlanAssumption ==
    /\ MaxText \in Nat
    /\ {Batch, MATERIALIZATION_MAX_ATTEMPTS} \subseteq Nat \ {0}
    /\ Uploads \subseteq Sources
    /\ Scope \in [Sources -> SUBSET Processes]
    /\ Mishaps \in [Mishap -> Nat]
    /\ Workers \cap Turns = {}
    /\ NoProcess \notin Processes /\ NoSource \notin Sources

VARIABLES
    source,   \* the registry: see Registered
    plan,     \* per process, the review: is there a plan, and what it was read from
    request,  \* the rows of workspace_plan_materializations: see Row
    alive,    \* the processes that exist
    builder,  \* workers and turns: see Builder
    todo,     \* per worker, the processes of its batch or its sweep still to do
    saving,   \* per writer, the transaction it has open: see Saving
    left      \* bounds left: see Mishaps

vars == <<source, plan, request, alive, builder, todo, saving, left>>

\* An uploaded file is "extracted" until the consultant approves it; "evidence"
\* stands for reference and approved, the two statuses the ledger reads.
Registered == [status : {"absent", "extracted", "evidence", "removed"}, text : Texts]

Evidence == Sources \X Texts

Row == [status   : {"none", "pending", "done", "failed"},
        due      : BOOLEAN,
        attempts : Attempts]

NoRow == [status |-> "none", due |-> FALSE, attempts |-> 0]

Plan   == [built : BOOLEAN, read : SUBSET Evidence]
NoPlan == [built |-> FALSE, read |-> {}]

\* job: the process; corpus: the ledger the plan is being built from; latest:
\* the version of the review it loaded is still the last one; outcome and seen:
\* how the request is to be closed, and its row as loaded for that.
Builder == [pc      : {"idle", "decide", "read", "extract", "write", "close", "closing",
                       "sweep", "request", "requesting"},
            job     : Processes \cup {NoProcess},
            corpus  : SUBSET Evidence,
            latest  : BOOLEAN,
            outcome : {"none", "settled", "failed", "gone"},
            seen    : Row]

Idle == [pc |-> "idle", job |-> NoProcess, corpus |-> {}, latest |-> FALSE,
         outcome |-> "none", seen |-> NoRow]

\* what: the source being written, if any, and was: as it was loaded; for: the
\* processes being requested, and seen: their rows as loaded.
Saving    == [op : {"none", "save", "draft", "discard"}, what : Sources \cup {NoSource},
              was : Registered, for : SUBSET Processes, seen : [Processes -> Row]]
NotSaving == [op |-> "none", what |-> NoSource, was |-> [status |-> "absent", text |-> 0],
              for |-> {}, seen |-> [p \in Processes |-> NoRow]]

-----------------------------------------------------------------------------
(* Evidence                                                                *)

In(p, statuses) == {s \in Sources : p \in Scope[s] /\ source[s].status \in statuses}
Said(ss)        == {<<s, source[s].text>> : s \in ss}

\* load_evidence_ledger: what a plan of p is read from.
Ledger(p) == Said(In(p, {"evidence"}))

\* The sources enqueue_stale_plan_materializations compares: of every status.
SweptSources(p) == Said(In(p, {"evidence", "extracted"}))

\* Seeded fault: the fingerprint of the text does not enter the identity.
IdentityOfNames(sources) == {<<e[1], 0>> : e \in sources}

\* source_set_identity: a hash of who the sources are and what they say.
Identity(sources) == sources

BuiltOn(p, sources) == plan[p].built /\ Identity(plan[p].read) = Identity(sources)

-----------------------------------------------------------------------------
(* Requests                                                                *)

\* enqueue_plan_materialization on a row loaded as "seen".
Requested(seen, row) ==
    [status   |-> IF seen.status = "pending" THEN row.status ELSE "pending",
     due      |-> TRUE,
     attempts |-> IF seen.attempts = 0 THEN row.attempts ELSE 0]

\* A row that did not exist when it was loaded is inserted, and
\* uq_plan_materialization_process admits one.
Conflicts(seen, row) == seen.status = "none" /\ row.status # "none"

\* Seeded fault: the attempt is not counted.
FailedUncounted(seen, row, max) ==
    IF seen.attempts + 1 >= max
    THEN [row EXCEPT !.status = IF seen.status = "failed" THEN @ ELSE "failed"]
    ELSE [row EXCEPT !.due = FALSE]

\* fail_plan_materialization; the count saturates where it stops mattering.
Failed(seen, row, max) ==
    LET count == IF seen.attempts < MATERIALIZATION_MAX_ATTEMPTS
                 THEN seen.attempts + 1 ELSE seen.attempts
    IN  IF seen.attempts + 1 >= max
        THEN [row EXCEPT !.attempts = count,
                         !.status = IF seen.status = "failed" THEN @ ELSE "failed"]
        ELSE [row EXCEPT !.attempts = count, !.due = FALSE]

\* complete_plan_materialization.
Completed(seen, row) == [row EXCEPT !.status = IF seen.status = "done" THEN @ ELSE "done"]

Due(p) == request[p].status = "pending" /\ request[p].due

Spend(m) == left[m] > 0 /\ left' = [left EXCEPT ![m] = @ - 1]

-----------------------------------------------------------------------------
(* Saving a source                                                         *)

\* create_ingested_source: an uploaded file asks for nothing until it is approved.
Upload(s) ==
    /\ s \in Uploads
    /\ source[s].status = "absent"
    /\ Scope[s] \cap alive # {}
    /\ source' = [source EXCEPT ![s].status = "extracted"]
    /\ UNCHANGED <<plan, request, alive, builder, todo, saving, left>>

Loaded(ps) == [p \in Processes |-> IF p \in ps THEN request[p] ELSE NoRow]

\* The transaction that registers, approves or rewrites a source loads it and the
\* requests of the processes it informs.  Bound: one such writer per source, which
\* the code does not enforce; it writes columns, so a second one adds nothing.
LoadToSave(c, s) ==
    /\ saving[c].op = "none"
    /\ \A d \in Writers : saving[d].op = "save" => saving[d].what # s
    /\ Scope[s] \cap alive # {}
    /\ \/ source[s].status = "absent" /\ s \notin Uploads
       \/ source[s].status = "extracted"
       \/ source[s].status = "evidence" /\ source[s].text < MaxText
    /\ saving' = [saving EXCEPT ![c] =
         [op |-> "save", what |-> s, was |-> source[s],
          for |-> Scope[s] \cap alive, seen |-> Loaded(Scope[s] \cap alive)]]
    /\ UNCHANGED <<source, plan, request, alive, builder, todo, left>>

\* generate_bpmn_draft without synthesis finds the plan behind the evidence and
\* asks for it.
LoadToDraft(c, p) ==
    /\ saving[c].op = "none"
    /\ p \in alive
    /\ Ledger(p) # {} /\ ~BuiltOn(p, Ledger(p))
    /\ Spend("draft")
    /\ saving' = [saving EXCEPT ![c] =
         [NotSaving EXCEPT !.op = "draft", !.for = {p}, !.seen = Loaded({p})]]
    /\ UNCHANGED <<source, plan, request, alive, builder, todo>>

\* discard_uploaded_source loads the file, which must not be evidence yet.
LoadToDiscard(c, s) ==
    /\ saving[c].op = "none"
    /\ source[s].status = "extracted"
    /\ saving' = [saving EXCEPT ![c] =
         [NotSaving EXCEPT !.op = "discard", !.what = s, !.was = source[s]]]
    /\ UNCHANGED <<source, plan, request, alive, builder, todo, left>>

\* What a source loaded as "was" is saved as: a new one is registered, an
\* extracted one is approved or rewritten, evidence is rewritten
\* (create_project_source, verify_project_source, ensure_project_source).
SavedAs(was) ==
    {r \in Registered :
        \/ was.status \in {"absent", "extracted"} /\ r = [was EXCEPT !.status = "evidence"]
        \/ was.status \in {"extracted", "evidence"} /\ r = [was EXCEPT !.text = @ + 1]}

\* A row inserted twice, a source deleted or a process purged meanwhile: the
\* source and its requests are rolled back together.
Refused(c) ==
    LET s == saving[c].what IN
    \/ \E p \in saving[c].for : Conflicts(saving[c].seen[p], request[p])
    \/ s # NoSource /\ (source[s].status = "removed" \/ Scope[s] \cap alive = {})

Commit(c) ==
    /\ saving[c].op # "none"
    /\ \/ /\ Refused(c)
          /\ UNCHANGED <<source, request>>
       \/ /\ ~Refused(c)
          /\ CASE saving[c].op = "draft"   -> UNCHANGED source
               [] saving[c].op = "discard" ->
                    source' = [source EXCEPT ![saving[c].what].status = "removed"]
               [] saving[c].op = "save"    ->
                    \E r \in SavedAs(saving[c].was) :
                        source' = [source EXCEPT ![saving[c].what] = r]
          /\ request' = [p \in Processes |->
               IF p \in saving[c].for THEN Requested(saving[c].seen[p], request[p])
               ELSE request[p]]
    /\ saving' = [saving EXCEPT ![c] = NotSaving]
    /\ UNCHANGED <<plan, alive, builder, todo, left>>

\* _purge_process: the process, its plan and its sources go; the request stays.
Purge(p) ==
    /\ p \in alive
    /\ Spend("purge")
    /\ alive' = alive \ {p}
    /\ plan' = [plan EXCEPT ![p] = NoPlan]
    /\ source' = [s \in Sources |->
                    IF Scope[s] = {p} THEN [source[s] EXCEPT !.status = "removed"] ELSE source[s]]
    /\ UNCHANGED <<request, builder, todo, saving>>

-----------------------------------------------------------------------------
(* Building a plan: ensure_process_plan                                    *)

At(b, pc)     == builder[b].pc = pc
Job(b)        == builder[b].job
Move(b, new)  == builder' = [builder EXCEPT ![b] = new]

\* A worker goes on to close its request, a turn is over.
Ends(b, outcome) ==
    Move(b, IF b \in Workers
            THEN [Idle EXCEPT !.pc = "close", !.job = Job(b), !.outcome = outcome]
            ELSE Idle)

\* A chat turn or a drawing command.
StartTurn(b, p) ==
    /\ b \in Turns /\ p \in alive
    /\ At(b, "idle")
    /\ Move(b, [Idle EXCEPT !.pc = "decide", !.job = p])
    /\ UNCHANGED <<source, plan, request, alive, todo, saving, left>>

\* ensure_process_plan up to its decision.  With an unreadable registry the
\* sources are an empty list: no claims, or claims and a plan, is a settled
\* outcome all the same.  An empty ledger has no claims either: claims that outlive
\* the sources they were read from are left out.
Decide(b) ==
    /\ At(b, "decide")
    /\ \/ /\ Job(b) \notin alive
          /\ Ends(b, "gone")
          /\ UNCHANGED left
       \/ /\ Job(b) \in alive
          /\ IF Ledger(Job(b)) = {} \/ BuiltOn(Job(b), Ledger(Job(b)))
             THEN Ends(b, "settled")
             ELSE Move(b, [builder[b] EXCEPT !.pc = "read"])
          /\ UNCHANGED left
       \/ /\ Job(b) \in alive
          /\ Spend("unreadable")
          /\ \/ Ends(b, "settled")
             \/ ~plan[Job(b)].built /\ Move(b, [builder[b] EXCEPT !.pc = "read"])
    /\ UNCHANGED <<source, plan, request, alive, todo, saving>>

\* synthesize_process_plan reads the ledger again.  Unreadable, it goes on with
\* no source when there are claims, and settles when there are none.
Read(b) ==
    /\ At(b, "read")
    /\ \/ /\ Job(b) \notin alive
          /\ Ends(b, "gone")
          /\ UNCHANGED left
       \/ /\ Job(b) \in alive
          /\ IF Ledger(Job(b)) = {} THEN Ends(b, "settled")
             ELSE Move(b, [builder[b] EXCEPT !.pc = "extract", !.corpus = Ledger(Job(b))])
          /\ UNCHANGED left
       \/ /\ Job(b) \in alive
          /\ Spend("unreadable")
          /\ Ends(b, "settled") \/ Move(b, [builder[b] EXCEPT !.pc = "extract"])
    /\ UNCHANGED <<source, plan, request, alive, todo, saving>>

\* The model calls; then prepare_bpmn_review loads the review it will replace.
Extract(b) ==
    /\ At(b, "extract")
    /\ IF Job(b) \in alive
       THEN Move(b, [builder[b] EXCEPT !.pc = "write", !.latest = TRUE])
       ELSE Ends(b, "failed")
    /\ UNCHANGED <<source, plan, request, alive, todo, saving, left>>

\* A source is not read, the plan ignores the evidence, the model is down.
SynthesisFails(b) ==
    /\ At(b, "extract") \/ At(b, "write")
    /\ Ends(b, "failed")
    /\ UNCHANGED <<source, plan, request, alive, todo, saving, left>>

\* prepare_bpmn_review writes the next version.  Two builds that loaded the same
\* version write the same next one, and uq_bpmn_review_version refuses it.
Write(b) ==
    /\ At(b, "write")
    /\ LET p == Job(b)
           closed == [Idle EXCEPT !.pc = "close", !.job = p, !.outcome = "settled"]
       IN  IF p \in alive /\ builder[b].latest
           THEN /\ plan' = [plan EXCEPT ![p] = [built |-> TRUE, read |-> builder[b].corpus]]
                /\ builder' = [d \in Builders |->
                     IF d = b THEN IF b \in Workers THEN closed ELSE Idle
                     ELSE IF At(d, "write") /\ Job(d) = p
                     THEN [builder[d] EXCEPT !.latest = FALSE]
                     ELSE builder[d]]
           ELSE /\ Ends(b, "failed")
                /\ UNCHANGED plan
    /\ UNCHANGED <<source, request, alive, todo, saving, left>>

-----------------------------------------------------------------------------
(* The worker                                                              *)

\* due_plan_materializations: a batch of due requests, leased.
ClaimBatch(w) ==
    /\ At(w, "idle") /\ todo[w] = {}
    /\ \E batch \in SUBSET {p \in Processes : Due(p)} :
         /\ batch # {}
         /\ \/ Cardinality(batch) = Batch
            \/ Cardinality(batch) < Batch /\ \A p \in Processes : Due(p) => p \in batch
         /\ todo' = [todo EXCEPT ![w] = batch]
         /\ request' = [p \in Processes |->
                          IF p \in batch THEN [request[p] EXCEPT !.due = FALSE] ELSE request[p]]
    /\ UNCHANGED <<source, plan, alive, builder, saving, left>>

\* drain_once goes on to the next row of its batch.
WorkOne(w) ==
    /\ At(w, "idle")
    /\ \E p \in todo[w] :
         /\ Move(w, [Idle EXCEPT !.pc = "decide", !.job = p])
         /\ todo' = [todo EXCEPT ![w] = @ \ {p}]
    /\ UNCHANGED <<source, plan, request, alive, saving, left>>

\* The row is loaded to be closed, and is not checked against the claim.
LoadClose(w) ==
    /\ At(w, "close")
    /\ Move(w, [builder[w] EXCEPT !.pc = "closing", !.seen = request[Job(w)]])
    /\ UNCHANGED <<source, plan, request, alive, todo, saving, left>>

\* complete_plan_materialization or fail_plan_materialization.
Close(w) ==
    LET p == Job(w)
        b == builder[w]
    IN
    /\ At(w, "closing")
    /\ \/ /\ b.outcome = "settled"
          /\ request' = [request EXCEPT ![p] = Completed(b.seen, @)]
       \/ /\ b.outcome \in {"failed", "gone"}
          /\ request' = [request EXCEPT ![p] =
               Failed(b.seen, @, IF b.outcome = "gone" THEN 1 ELSE MATERIALIZATION_MAX_ATTEMPTS)]
    /\ Move(w, Idle)
    /\ UNCHANGED <<source, plan, alive, todo, saving, left>>

\* drain_and_sweep: nothing was due, and the sweep interval has gone by.
StartSweep(w) ==
    /\ At(w, "idle") /\ todo[w] = {}
    /\ \A p \in Processes : ~Due(p)
    /\ Move(w, [Idle EXCEPT !.pc = "sweep"])
    /\ UNCHANGED <<source, plan, request, alive, todo, saving, left>>

\* Seeded fault: a plan that was built is never behind.
BehindNeverBuilt(p) ==
    /\ p \in alive
    /\ request[p].status \notin {"pending", "failed"}
    /\ SweptSources(p) # {}
    /\ ~plan[p].built

\* What the sweep takes for a plan behind its sources.
SweepWants(p) ==
    /\ p \in alive
    /\ request[p].status \notin {"pending", "failed"}
    /\ SweptSources(p) # {}
    /\ ~BuiltOn(p, SweptSources(p))

\* enqueue_stale_plan_materializations, the transaction that reads.
SweepReads(w) ==
    /\ At(w, "sweep")
    /\ todo' = [todo EXCEPT ![w] = {p \in Processes : SweepWants(p)}]
    /\ Move(w, [Idle EXCEPT !.pc = "request"])
    /\ UNCHANGED <<source, plan, request, alive, saving, left>>

\* Then one enqueue_plan_materialization per process, each its own transaction.
SweepLoads(w) ==
    /\ At(w, "request")
    /\ \/ \E p \in todo[w] :
             /\ Move(w, [Idle EXCEPT !.pc = "requesting", !.job = p, !.seen = request[p]])
             /\ todo' = [todo EXCEPT ![w] = @ \ {p}]
       \/ /\ todo[w] = {}
          /\ Move(w, Idle)
          /\ UNCHANGED todo
    /\ UNCHANGED <<source, plan, request, alive, saving, left>>

\* A row inserted twice raises, which ends the sweep.
SweepRequests(w) ==
    LET p == Job(w) IN
    /\ At(w, "requesting")
    /\ \/ /\ ~Conflicts(builder[w].seen, request[p])
          /\ request' = [request EXCEPT ![p] = Requested(builder[w].seen, @)]
          /\ Move(w, [Idle EXCEPT !.pc = "request"])
          /\ UNCHANGED todo
       \/ /\ Conflicts(builder[w].seen, request[p])
          /\ Move(w, Idle)
          /\ todo' = [todo EXCEPT ![w] = {}]
          /\ UNCHANGED request
    /\ UNCHANGED <<source, plan, alive, saving, left>>

-----------------------------------------------------------------------------
\* A lease or a backoff runs out.
TimePasses(p) ==
    /\ request[p].status = "pending" /\ ~request[p].due
    /\ request' = [request EXCEPT ![p].due = TRUE]
    /\ UNCHANGED <<source, plan, alive, builder, todo, saving, left>>

\* The process of a worker or of a turn dies, or its database does.
Crash(b) ==
    /\ ~At(b, "idle")
    /\ Spend("crash")
    /\ Move(b, Idle)
    /\ todo' = [w \in Workers |-> IF w = b THEN {} ELSE todo[w]]
    /\ UNCHANGED <<source, plan, request, alive, saving>>

Init ==
    /\ source = [s \in Sources |-> [status |-> "absent", text |-> 0]]
    /\ plan = [p \in Processes |-> NoPlan]
    /\ request = [p \in Processes |-> NoRow]
    /\ alive = Processes
    /\ builder = [b \in Builders |-> Idle]
    /\ todo = [w \in Workers |-> {}]
    /\ saving = [c \in Writers |-> NotSaving]
    /\ left = Mishaps

Builds(b) == Decide(b) \/ Read(b) \/ Extract(b) \/ SynthesisFails(b) \/ Write(b)
Closes(w) == LoadClose(w) \/ Close(w)
Sweeps(w) == SweepReads(w) \/ SweepLoads(w) \/ SweepRequests(w)

Next ==
    \/ \E s \in Sources : Upload(s)
    \/ \E c \in Writers, s \in Sources : LoadToSave(c, s) \/ LoadToDiscard(c, s)
    \/ \E c \in Writers, p \in Processes : LoadToDraft(c, p)
    \/ \E c \in Writers : Commit(c)
    \/ \E p \in Processes : Purge(p) \/ TimePasses(p)
    \/ \E b \in Turns, p \in Processes : StartTurn(b, p)
    \/ \E b \in Builders : Builds(b) \/ Crash(b)
    \/ \E w \in Workers : ClaimBatch(w) \/ WorkOne(w) \/ Closes(w) \/ StartSweep(w) \/ Sweeps(w)

Spec == Init /\ [][Next]_vars

\* The worker's loop runs for ever, time passes, and model calls end, well or
\* badly.  A pass that finds nothing due sweeps when five minutes have gone by
\* since the last sweep: hence strong fairness, as other requests come and go.
\* A turn or a transaction that has begun ends too.  Nobody is obliged to save,
\* to ask or to crash.
FairSpec ==
    /\ Spec
    /\ \A c \in Writers : WF_vars(Commit(c))
    /\ \A p \in Processes : WF_vars(TimePasses(p))
    /\ \A b \in Builders : WF_vars(Builds(b))
    /\ \A w \in Workers :
          /\ WF_vars(ClaimBatch(w) \/ WorkOne(w) \/ Closes(w) \/ Sweeps(w))
          /\ SF_vars(StartSweep(w))

-----------------------------------------------------------------------------
(* Properties                                                              *)

TypeOK ==
    /\ source \in [Sources -> Registered]
    /\ plan \in [Processes -> Plan]
    /\ request \in [Processes -> Row]
    /\ alive \subseteq Processes
    /\ builder \in [Builders -> Builder]
    /\ todo \in [Workers -> SUBSET Processes]
    /\ saving \in [Writers -> Saving]
    /\ left \in [Mishap -> Nat]
    /\ \A b \in Builders :
          /\ At(b, "idle") => builder[b] = Idle
          /\ builder[b].pc \notin {"idle", "sweep", "request"} => Job(b) \in Processes

\* The plan of p says what the sources of p say.
Current(p) == plan[p].built /\ plan[p].read = Ledger(p)

\* The sweep compares sources of every status, a plan is built on evidence only:
\* all the same no plan that describes other evidence passes for current in a
\* sweep, so nothing but its request can keep it behind.
SweepMissesNoPlan ==
    \A p \in alive :
        /\ Ledger(p) # {} /\ ~Current(p)
        /\ request[p].status \in {"none", "done"}
        => SweepWants(p)

\* A plan that is behind catches up with the evidence, or its request says that
\* it could not be built: no process keeps a plan of old evidence in silence,
\* although requests are lost to crashes, races and unreadable registries.
PlanCatchesUp ==
    \A p \in Processes :
        []<>(p \notin alive \/ Ledger(p) = {} \/ Current(p) \/ request[p].status = "failed")

\* When the sources come to rest, so does the queue: every request is closed, and
\* no sweep goes on asking for plans that are already built.
QueueSettles == <>[](\A p \in Processes : request[p].status # "pending")
=============================================================================
