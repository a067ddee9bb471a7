--------------------------- MODULE SimulationQueue ---------------------------
(***************************************************************************)
(* The queue of simulation runs (backend/simulation/queue.py, storage.py,  *)
(* service.py, workers/simulation_worker.py).                              *)
(*                                                                         *)
(* A run is a row of workspace_simulation_runs.  It waits for its turn     *)
(* (pending, not started), is executed by a drain that beats while the     *)
(* engine works (pending, started), and ends completed or failed.  A run   *)
(* whose executor is silent for MISSED_BEATS heartbeats is given back to   *)
(* the queue, or closed after MAX_ATTEMPTS claims, by whoever reads or     *)
(* claims runs next.                                                       *)
(*                                                                         *)
(* One action is one database transaction.  The transactions that hold the *)
(* advisory lock or lock the rows they judge are atomic.  The delivery of  *)
(* an outcome is not: it loads the row without a lock and writes it at the *)
(* flush, so it is two actions.  FOR UPDATE SKIP LOCKED needs no action of *)
(* its own: a row skipped because a beat or an outcome is being written is *)
(* treated as the same two transactions in the other order would treat it. *)
(***************************************************************************)
EXTENDS Naturals, FiniteSets

CONSTANTS
    Drains,         \* the executors: one drain_simulation_queue each
    Clients,        \* request threads that submit single runs
    SingleKeys,     \* idempotency keys of single runs
    GroupKeys,      \* idempotency keys of groups of replications
    GroupSize,      \* replications in a group
    MaxRuns,        \* bound: how many runs are ever created
    LegacyCount,    \* runs started before the queue existed (migration 0034)
    MaxQueued,      \* settings.simulation_max_queued_runs
    MaxConcurrent,  \* settings.simulation_max_concurrent_runs
    MAX_ATTEMPTS,   \* queue.MAX_ATTEMPTS
    MISSED_BEATS,   \* queue.MISSED_BEATS, in heartbeat intervals
    LegacyPatience, \* the legacy cutoff, in heartbeat intervals
    NoDrain,        \* worker_id = None
    NoKey           \* the key of a row that does not exist yet

Runs       == 1 .. MaxRuns
LegacyRuns == 1 .. LegacyCount
Keys       == SingleKeys \cup GroupKeys
Patience   == IF LegacyPatience > MISSED_BEATS THEN LegacyPatience ELSE MISSED_BEATS

ASSUME QueueAssumption ==
    /\ {MaxRuns, LegacyCount, MaxQueued, MaxConcurrent} \subseteq Nat
    /\ {GroupSize, MAX_ATTEMPTS, MISSED_BEATS, LegacyPatience} \subseteq Nat \ {0}
    /\ LegacyCount <= MaxRuns /\ LegacyCount <= MaxConcurrent
    /\ NoDrain \notin Drains /\ NoKey \notin Keys
    /\ SingleKeys \cap GroupKeys = {}

VARIABLES
    run,      \* the rows: see Row
    lastRun,  \* the id sequence
    summary,  \* per run, the attempt whose KPIs are in the artifact row (0: none)
    log,      \* per run, the attempt whose event log is stored (0: none)
    drain,    \* per drain, where execute_claimed_run is: see Execution
    asking    \* per client, the key it found no active run for (NoKey: none)

rows   == <<run, lastRun>>
stored == <<summary, log>>
vars   == <<run, lastRun, summary, log, drain, asking>>

Attempts == 0 .. MAX_ATTEMPTS

\* "none" is a row not inserted yet.  silence counts the heartbeat intervals
\* since heartbeat_at (since started_at for a legacy run), result the attempt
\* whose payload result_json holds.
Row == [status   : {"none", "pending", "completed", "failed"},
        started  : BOOLEAN,
        worker   : Drains \cup {NoDrain},
        silence  : 0 .. Patience,
        attempts : Attempts,
        result   : Attempts,
        key      : Keys \cup {NoKey}]

\* The run a drain claimed, which attempt of that run the claim was, and what
\* the engine answered.
Execution == [pc      : {"idle", "engine", "answered", "writing", "summary", "log"},
              job     : Runs \cup {0},
              take    : Attempts,
              outcome : {"none", "completed", "failed"}]

Idle == [pc |-> "idle", job |-> 0, take |-> 0, outcome |-> "none"]

EmptyRow  == [status |-> "none", started |-> FALSE, worker |-> NoDrain, silence |-> 0,
              attempts |-> 0, result |-> 0, key |-> NoKey]
NewRow(k) == [EmptyRow EXCEPT !.status = "pending", !.key = k]
LegacyRow == [EmptyRow EXCEPT !.status = "pending", !.started = TRUE]

Pending(q) == {r \in Runs : q[r].status = "pending"}
Queued(q)  == {r \in Pending(q) : ~q[r].started}
Running(q) == {r \in Pending(q) : q[r].started}
Closed(q)  == {r \in Runs : q[r].status \in {"completed", "failed"}}

-----------------------------------------------------------------------------
(* reap_stale_runs                                                         *)

\* Seeded faults, which the properties must see: a cutoff one beat
\* too early; rows without heartbeat_at never judged.
StaleOneBeatEarly(q, r) == r \in Running(q) /\ q[r].silence + 1 >= MISSED_BEATS
StaleOnlyWithHeartbeat(q, r) ==
    r \in Running(q) \ LegacyRuns /\ q[r].silence >= MISSED_BEATS

Stale(q, r) ==
    /\ r \in Running(q)
    /\ q[r].silence >= IF r \in LegacyRuns THEN LegacyPatience ELSE MISSED_BEATS

\* A legacy run carries no BPMN, so nobody else can execute it.
GivenBack(q, r) == r \notin LegacyRuns /\ q[r].attempts < MAX_ATTEMPTS

Reaped(q) ==
    [r \in Runs |->
        IF ~Stale(q, r) THEN q[r]
        ELSE IF GivenBack(q, r)
        THEN [q[r] EXCEPT !.started = FALSE, !.worker = NoDrain, !.silence = 0]
        ELSE [q[r] EXCEPT !.status = "failed"]]

\* get_simulation_run and list_simulation_runs reap before they answer.
ReadRuns ==
    /\ run' = Reaped(run)
    /\ UNCHANGED <<lastRun, stored, drain, asking>>

-----------------------------------------------------------------------------
(* Submission                                                              *)

\* Seeded fault: the new runs are not counted.
RoomForOneMore(q, n) == Cardinality(Queued(q)) <= MaxQueued

\* admit: there is room in the queue for n more runs.
Room(q, n) == Cardinality(Queued(q)) + n <= MaxQueued

\* The rows after n runs with key k are inserted.
Inserted(q, n, k) ==
    [r \in Runs |-> IF r \in lastRun + 1 .. lastRun + n THEN NewRow(k) ELSE q[r]]

InFlight(q, k) == {r \in Pending(q) : q[r].key = k}

\* _register_run, first transaction: find_active_run_by_key reaps, then looks.
FindActiveRun(c, k) ==
    /\ asking[c] = NoKey
    /\ run' = Reaped(run)
    /\ asking' = IF InFlight(run', k) # {} THEN asking ELSE [asking EXCEPT ![c] = k]
    /\ UNCHANGED <<lastRun, stored, drain>>

\* _register_run, second transaction: create_simulation_run.  The rejection
\* raises, which rolls the reaping back with everything else.
CreateRun(c) ==
    /\ asking[c] # NoKey
    /\ lastRun < MaxRuns
    /\ \/ /\ Room(Reaped(run), 1)
          /\ run' = Inserted(Reaped(run), 1, asking[c])
          /\ lastRun' = lastRun + 1
       \/ /\ ~Room(Reaped(run), 1)
          /\ UNCHANGED rows
    /\ asking' = [asking EXCEPT ![c] = NoKey]
    /\ UNCHANGED <<stored, drain>>

\* create_simulation_run_group, one transaction under the queue lock: the group
\* in flight is returned, or the whole group enters, or (rolled back) nothing.
CreateRunGroup(k) ==
    /\ \/ /\ InFlight(Reaped(run), k) # {}
          /\ run' = Reaped(run)
          /\ UNCHANGED lastRun
       \/ /\ InFlight(Reaped(run), k) = {}
          /\ lastRun + GroupSize <= MaxRuns
          /\ Room(Reaped(run), GroupSize)
          /\ run' = Inserted(Reaped(run), GroupSize, k)
          /\ lastRun' = lastRun + GroupSize
    /\ UNCHANGED <<stored, drain, asking>>

-----------------------------------------------------------------------------
(* Execution                                                               *)

Busy(d) == drain[d].pc # "idle"
Job(d)  == drain[d].job

Oldest(q, r) == r \in Queued(q) /\ \A s \in Queued(q) : r <= s

\* Seeded faults: the claim is not counted; the claim does not name its drain;
\* one place too many.
TakenUncounted(q, r, d) ==
    [q EXCEPT ![r].started = TRUE, ![r].worker = d, ![r].silence = 0]
TakenAnonymously(q, r, d) ==
    [q EXCEPT ![r].started = TRUE, ![r].silence = 0, ![r].attempts = @ + 1]
HasPlaceOffByOne(q) == Cardinality(Running(q)) <= MaxConcurrent

HasPlace(q) == Cardinality(Running(q)) < MaxConcurrent

Taken(q, r, d) ==
    [q EXCEPT ![r].started = TRUE, ![r].worker = d, ![r].silence = 0,
              ![r].attempts = @ + 1]

\* claim_next_run: reap, then the oldest queued run if the engine has a place.
\* The reaping is committed also when there is nothing to take.
ClaimNextRun(d) ==
    /\ drain[d].pc = "idle"
    /\ LET q == Reaped(run) IN
       \/ /\ HasPlace(q)
          /\ \E r \in Queued(q) :
                /\ Oldest(q, r)
                /\ run' = Taken(q, r, d)
                /\ drain' = [drain EXCEPT ![d] =
                     [Idle EXCEPT !.pc = "engine", !.job = r, !.take = q[r].attempts + 1]]
       \/ /\ ~HasPlace(q) \/ Queued(q) = {}
          /\ run' = q
          /\ UNCHANGED drain
    /\ UNCHANGED <<lastRun, stored, asking>>

\* beat: an UPDATE conditioned on the row being running and still this drain's.
Beat(d) ==
    /\ drain[d].pc = "engine"
    /\ Job(d) \in Running(run)
    /\ run[Job(d)].worker = d
    /\ run' = [run EXCEPT ![Job(d)].silence = 0]
    /\ UNCHANGED <<lastRun, stored, drain, asking>>

\* The engine answers, fails or times out; from here on the heart is stopped,
\* while the event log is processed and the outcome is delivered.
EngineAnswers(d, o) ==
    /\ drain[d].pc = "engine"
    /\ drain' = [drain EXCEPT ![d].pc = "answered", ![d].outcome = o]
    /\ UNCHANGED <<rows, stored, asking>>

Stolen(d) == run[Job(d)].started /\ run[Job(d)].worker # d

\* Seeded fault: the artifacts follow from the outcome, not from the row.
LoadRunCareless(d) ==
    /\ drain[d].pc = "answered"
    /\ drain' =
         IF run[Job(d)].status = "pending" /\ ~Stolen(d)
         THEN [drain EXCEPT ![d].pc = "writing"]
         ELSE IF drain[d].outcome = "completed"
         THEN [drain EXCEPT ![d].pc = "summary"]
         ELSE [drain EXCEPT ![d] = Idle]
    /\ UNCHANGED <<rows, stored, asking>>

\* _update_simulation_run up to the assignments: the row is read without a lock.
\* A discarded outcome returns the row as it is, and complete_simulation_run goes
\* on to the artifact whenever that row says completed.
LoadRun(d) ==
    /\ drain[d].pc = "answered"
    /\ drain' =
         IF run[Job(d)].status = "pending" /\ ~Stolen(d)
         THEN [drain EXCEPT ![d].pc = "writing"]
         ELSE IF drain[d].outcome = "completed" /\ run[Job(d)].status = "completed"
         THEN [drain EXCEPT ![d].pc = "summary"]
         ELSE [drain EXCEPT ![d] = Idle]
    /\ UNCHANGED <<rows, stored, asking>>

\* The flush and commit: an UPDATE by id of the columns that changed.  A failure
\* sets result_json to the empty payload it was loaded with, so leaves it out.
WriteOutcome(d) ==
    /\ drain[d].pc = "writing"
    /\ \/ /\ drain[d].outcome = "completed"
          /\ run' = [run EXCEPT ![Job(d)].status = "completed", ![Job(d)].result = drain[d].take]
          /\ drain' = [drain EXCEPT ![d].pc = "summary"]
       \/ /\ drain[d].outcome = "failed"
          /\ run' = [run EXCEPT ![Job(d)].status = "failed"]
          /\ drain' = [drain EXCEPT ![d] = Idle]
    /\ UNCHANGED <<lastRun, stored, asking>>

\* _write_simulation_artifact; skipped when the event log gave no summary.
WriteSummary(d) ==
    /\ drain[d].pc = "summary"
    /\ \/ summary' = [summary EXCEPT ![Job(d)] = drain[d].take]
       \/ UNCHANGED summary
    /\ drain' = [drain EXCEPT ![d].pc = "log"]
    /\ UNCHANGED <<rows, log, asking>>

\* _write_simulation_log; skipped when the engine returned no event log.
WriteLog(d) ==
    /\ drain[d].pc = "log"
    /\ \/ log' = [log EXCEPT ![Job(d)] = drain[d].take]
       \/ UNCHANGED log
    /\ drain' = [drain EXCEPT ![d] = Idle]
    /\ UNCHANGED <<rows, summary, asking>>

\* The process of the drain dies, or a database error ends the drain.
Crash(d) ==
    /\ Busy(d)
    /\ drain' = [drain EXCEPT ![d] = Idle]
    /\ UNCHANGED <<rows, stored, asking>>

-----------------------------------------------------------------------------
\* One heartbeat interval goes by.  Nothing makes a drain beat in it: a beat
\* the database refuses is logged and the next one waits for its interval.
Tick ==
    /\ \E r \in Running(run) : run[r].silence < Patience
    /\ run' = [r \in Runs |->
                 IF r \in Running(run) /\ run[r].silence < Patience
                 THEN [run[r] EXCEPT !.silence = @ + 1] ELSE run[r]]
    /\ UNCHANGED <<lastRun, stored, drain, asking>>

Init ==
    /\ run = [r \in Runs |-> IF r \in LegacyRuns THEN LegacyRow ELSE EmptyRow]
    /\ lastRun = LegacyCount
    /\ summary = [r \in Runs |-> 0]
    /\ log = [r \in Runs |-> 0]
    /\ drain = [d \in Drains |-> Idle]
    /\ asking = [c \in Clients |-> NoKey]

Deliver(d) == LoadRun(d) \/ WriteOutcome(d) \/ WriteSummary(d) \/ WriteLog(d)

Next ==
    \/ Tick
    \/ ReadRuns
    \/ \E c \in Clients, k \in SingleKeys : FindActiveRun(c, k)
    \/ \E c \in Clients : CreateRun(c)
    \/ \E k \in GroupKeys : CreateRunGroup(k)
    \/ \E d \in Drains : ClaimNextRun(d)
    \/ \E d \in Drains : Beat(d)
    \/ \E d \in Drains, o \in {"completed", "failed"} : EngineAnswers(d, o)
    \/ \E d \in Drains : Deliver(d)
    \/ \E d \in Drains : Crash(d)

Spec == Init /\ [][Next]_vars

\* run_simulation_queue starts drains every ten seconds, the engine answers
\* within prosimos_timeout_seconds, and a drain that has an answer delivers it.
\* Nobody is obliged to submit, to read, to beat or to crash.
FairSpec ==
    /\ Spec
    /\ WF_vars(Tick)
    /\ \A d \in Drains :
          /\ WF_vars(ClaimNextRun(d))
          /\ WF_vars(EngineAnswers(d, "completed") \/ EngineAnswers(d, "failed"))
          /\ WF_vars(Deliver(d))

-----------------------------------------------------------------------------
(* Properties                                                              *)

TypeOK ==
    /\ run \in [Runs -> Row]
    /\ lastRun \in 0 .. MaxRuns
    /\ \A r \in Runs : r <= lastRun <=> run[r].status # "none"
    /\ summary \in [Runs -> Attempts]
    /\ log \in [Runs -> Attempts]
    /\ drain \in [Drains -> Execution]
    /\ asking \in [Clients -> SingleKeys \cup {NoKey}]
    /\ \A d \in Drains : Busy(d) => Job(d) \in 1 .. lastRun /\ drain[d].take # 0

\* Runs being executed never exceed the places of the engine, whoever claims
\* and however many runs are given back and claimed again (queue.py:8-11).
WithinCapacity == Cardinality(Running(run)) <= MaxConcurrent

\* Admission counts only the runs that wait, and runs given back re-enter
\* without being admitted: the whole backlog still stays bounded.
BacklogBounded == Cardinality(Pending(run)) <= MaxQueued + MaxConcurrent

\* Two drains never work on the same claim of a run: a second executor exists
\* only because the first was given up for dead (claim_next_run's exclusivity).
ClaimsAreExclusive ==
    \A d, e \in Drains :
        d # e /\ Busy(d) /\ Busy(e) /\ Job(d) = Job(e) => drain[d].take # drain[e].take

\* The row of a run being executed names the drain of its latest claim, so an
\* older executor can be told from the current one by worker_id alone.
RowNamesLatestClaim ==
    \A d \in Drains :
        Busy(d) /\ Job(d) \in Running(run) =>
            (run[Job(d)].worker = d <=> drain[d].take = run[Job(d)].attempts)

\* KPIs and event log are stored two transactions after the outcome, by an executor
\* that may have lost its run meanwhile, and on the strength of a status it may not
\* have written.  They never stand alone: a run that has them, or that says it is
\* completed, has the result of an executor whose outcome was accepted, even when
\* two outcomes were loaded together and the second says failed.
KpisFollowAResult ==
    \A r \in Runs :
        run[r].status = "completed" \/ summary[r] # 0 \/ log[r] # 0 => run[r].result # 0

\* A run whose executor beats is never given back, nor taken by another drain.
BeatingRunIsKept ==
    [][\A r \in Running(run) \ LegacyRuns :
          run[r].silence < MISSED_BEATS =>
              run'[r].started /\ run'[r].attempts = run[r].attempts]_vars

\* Every run that enters the queue ends, completed or failed, whatever crashes:
\* no run stays "in corso" for ever.
EveryRunEnds == \A r \in Runs : r \in Pending(run) ~> r \in Closed(run)

\* The queue implements the scheduler: in particular no run is lost and none
\* that is over is executed again.
Scheduler == INSTANCE SimulationScheduler
    WITH Legacy <- LegacyRuns,
         waiting <- Queued(run), engaged <- Running(run), over <- Closed(run)

ImplementsScheduler == Scheduler!Spec
=============================================================================
