-------------------------- MODULE PlanQueue_proofs --------------------------
(***************************************************************************)
(* Proofs about PlanQueue, for any processes, sources, workers, turns and  *)
(* writers: type correctness, and that the sweep misses no plan that is    *)
(* behind its evidence.                                                    *)
(*                                                                         *)
(* The second rests on what plans are read from.  The sweep compares a     *)
(* plan with sources of every status.  If a plan passes for built on them, *)
(* every source in scope is one the plan was read from; such a source was  *)
(* evidence when it was read and, as no step takes a source back from      *)
(* evidence to extracted, it still is: the two sets of sources coincide    *)
(* and the plan is current.                                                *)
(***************************************************************************)
EXTENDS PlanQueue, TLAPS

\* An idle builder holds nothing, a building one has a process.
WellFormed(r) ==
    /\ r.pc = "idle" => r = Idle
    /\ r.pc \notin {"idle", "sweep", "request"} => r.job \in Processes

\* The parts of TypeOK, so that a step proves the ones it disturbs.
SourceOK  == source \in [Sources -> Registered]
PlanOK    == plan \in [Processes -> Plan]
RequestOK == request \in [Processes -> Row]
AliveOK   == alive \subseteq Processes
BuilderOK == /\ builder \in [Builders -> Builder]
             /\ \A b \in Builders : WellFormed(builder[b])
TodoOK    == todo \in [Workers -> SUBSET Processes]
SavingOK  == saving \in [Writers -> Saving]
LeftOK    == left \in [Mishap -> Nat]

LEMMA TypeParts ==
    TypeOK <=> /\ SourceOK /\ PlanOK /\ RequestOK /\ AliveOK
               /\ BuilderOK /\ TodoOK /\ SavingOK /\ LeftOK
BY DEF TypeOK, SourceOK, PlanOK, RequestOK, AliveOK, BuilderOK, TodoOK, SavingOK, LeftOK,
       WellFormed, At, Job

LEMMA TypePartsNext ==
    SourceOK' /\ PlanOK' /\ RequestOK' /\ AliveOK'
    /\ BuilderOK' /\ TodoOK' /\ SavingOK' /\ LeftOK' => TypeOK'
BY DEF TypeOK, SourceOK, PlanOK, RequestOK, AliveOK, BuilderOK, TodoOK, SavingOK, LeftOK,
       WellFormed, At, Job

-----------------------------------------------------------------------------
(* The operators the actions are built from                                *)

LEMMA AttemptsFacts ==
    /\ 0 \in Attempts
    /\ \A n \in Attempts : n < MATERIALIZATION_MAX_ATTEMPTS => n + 1 \in Attempts
BY PlanAssumption DEF Attempts

LEMMA NoRowType == NoRow \in Row
<1>1. 0 \in Attempts
  BY PlanAssumption DEF Attempts
<1> QED BY <1>1 DEF NoRow, Row

LEMMA RequestedType ==
    ASSUME NEW seen \in Row, NEW row \in Row
    PROVE  Requested(seen, row) \in Row
<1>1. 0 \in Attempts
  BY PlanAssumption DEF Attempts
<1> QED BY <1>1 DEF Requested, Row

LEMMA CompletedType ==
    ASSUME NEW seen \in Row, NEW row \in Row
    PROVE  Completed(seen, row) \in Row
BY DEF Completed, Row

LEMMA FailedType ==
    ASSUME NEW seen \in Row, NEW row \in Row, NEW max
    PROVE  Failed(seen, row, max) \in Row
<1> DEFINE count == IF seen.attempts < MATERIALIZATION_MAX_ATTEMPTS
                    THEN seen.attempts + 1 ELSE seen.attempts
<1>1. count \in Attempts
  BY PlanAssumption DEF Attempts, Row
<1>2. [row EXCEPT !.attempts = count, !.due = FALSE] \in Row
  <2> HIDE DEF count
  <2> QED BY <1>1 DEF Row
<1>3. [row EXCEPT !.attempts = count,
                  !.status = IF seen.status = "failed" THEN @ ELSE "failed"] \in Row
  <2> HIDE DEF count
  <2> QED BY <1>1 DEF Row
<1> QED BY <1>2, <1>3 DEF Failed

LEMMA LedgerType ==
    ASSUME SourceOK, NEW p
    PROVE  Ledger(p) \in SUBSET Evidence
BY DEF SourceOK, Ledger, Said, In, Evidence, Registered

LEMMA IdleType == Idle \in Builder /\ WellFormed(Idle)
BY NoRowType DEF Idle, Builder, WellFormed

\* Replacing one builder keeps the builders well formed.
LEMMA MoveType ==
    ASSUME BuilderOK, NEW b \in Builders, NEW new \in Builder,
           WellFormed(new), Move(b, new)
    PROVE  BuilderOK'
<1>1. \A d \in Builders : builder'[d] \in Builder /\ WellFormed(builder'[d])
  BY DEF BuilderOK, Move
<1> QED BY <1>1 DEF BuilderOK, Move, WellFormed

LEMMA EndsType ==
    ASSUME BuilderOK, NEW b \in Builders,
           builder[b].pc \notin {"idle", "sweep", "request"},
           NEW outcome \in {"none", "settled", "failed", "gone"}, Ends(b, outcome)
    PROVE  BuilderOK'
<1> DEFINE over == [Idle EXCEPT !.pc = "close", !.job = Job(b), !.outcome = outcome]
           new  == IF b \in Workers THEN over ELSE Idle
<1>1. Job(b) \in Processes
  BY DEF BuilderOK, WellFormed, Job
<1>2. over \in Builder /\ WellFormed(over)
  BY <1>1, IdleType DEF Builder, Idle, WellFormed
<1>3. new \in Builder /\ WellFormed(new)
  BY <1>2, IdleType
<1>4. Move(b, new)
  BY DEF Ends
<1> HIDE DEF new, over
<1> QED BY <1>3, <1>4, MoveType

LEMMA SpendType ==
    ASSUME LeftOK, NEW m \in Mishap, Spend(m)
    PROVE  LeftOK'
BY DEF LeftOK, Spend

LEMMA LoadedType ==
    ASSUME RequestOK, NEW ps
    PROVE  Loaded(ps) \in [Processes -> Row]
BY NoRowType DEF RequestOK, Loaded

LEMMA NotSavingType == NotSaving \in Saving
<1>1. 0 \in Texts
  BY PlanAssumption DEF Texts
<1> QED BY <1>1, NoRowType DEF NotSaving, Saving, Registered

-----------------------------------------------------------------------------
(* Type correctness, one lemma per group of actions                        *)

LEMMA InitType == Init => TypeOK
<1>1. 0 \in Texts /\ 0 \in Attempts
  BY PlanAssumption DEF Texts, Attempts
<1> SUFFICES ASSUME Init PROVE TypeOK
  OBVIOUS
<1>2. SourceOK
  BY <1>1 DEF Init, SourceOK, Registered
<1>3. PlanOK /\ AliveOK
  BY DEF Init, PlanOK, Plan, NoPlan, AliveOK
<1>4. RequestOK
  BY <1>1, NoRowType DEF Init, RequestOK
<1>5. BuilderOK
  BY IdleType DEF Init, BuilderOK
<1>6. TodoOK /\ SavingOK /\ LeftOK
  BY NotSavingType, PlanAssumption DEF Init, TodoOK, SavingOK, LeftOK
<1> QED BY <1>2, <1>3, <1>4, <1>5, <1>6, TypeParts

LEMMA SourceStepsType ==
    ASSUME TypeOK, \/ \E s \in Sources : Upload(s)
                   \/ \E p \in Processes : Purge(p) \/ TimePasses(p)
    PROVE  TypeOK'
<1> USE TypeParts, TypePartsNext
<1>1. ASSUME NEW s \in Sources, Upload(s) PROVE TypeOK'
  <2>1. SourceOK'
    BY <1>1 DEF TypeOK, SourceOK, Upload, Registered
  <2> QED BY <1>1, <2>1 DEF Upload, SourceOK, PlanOK, RequestOK, AliveOK,
             BuilderOK, TodoOK, SavingOK, LeftOK
<1>2. ASSUME NEW p \in Processes, Purge(p) PROVE TypeOK'
  <2>1. SourceOK'
    BY <1>2 DEF TypeOK, SourceOK, Purge, Registered
  <2>2. PlanOK' /\ AliveOK'
    BY <1>2 DEF TypeOK, PlanOK, AliveOK, Purge, Plan, NoPlan
  <2>3. LeftOK'
    BY <1>2, SpendType DEF TypeOK, LeftOK, Purge, Mishap
  <2> QED BY <1>2, <2>1, <2>2, <2>3 DEF Purge, SourceOK, PlanOK, RequestOK, AliveOK,
             BuilderOK, TodoOK, SavingOK, LeftOK
<1>3. ASSUME NEW p \in Processes, TimePasses(p) PROVE TypeOK'
  <2>1. [request[p] EXCEPT !.due = TRUE] \in Row
    BY DEF RequestOK, Row
  <2>2. request' = [request EXCEPT ![p] = [request[p] EXCEPT !.due = TRUE]]
    BY <1>3 DEF TimePasses
  <2>3. RequestOK'
    BY <1>3, <2>1, <2>2 DEF RequestOK, TimePasses
  <2> QED BY <1>3, <2>3 DEF TimePasses, SourceOK, PlanOK, RequestOK, AliveOK,
             BuilderOK, TodoOK, SavingOK, LeftOK
<1> QED BY <1>1, <1>2, <1>3

LEMMA SavingStepsType ==
    ASSUME TypeOK, NEW c \in Writers,
           \/ \E s \in Sources : LoadToSave(c, s) \/ LoadToDiscard(c, s)
           \/ \E p \in Processes : LoadToDraft(c, p)
           \/ Commit(c)
    PROVE  TypeOK'
<1> USE TypeParts, TypePartsNext
<1>1. ASSUME NEW s \in Sources, LoadToSave(c, s) PROVE TypeOK'
  <2> DEFINE ps == Scope[s] \cap alive
             new == [op |-> "save", what |-> s, was |-> source[s],
                     for |-> ps, seen |-> Loaded(ps)]
  <2>1. Loaded(ps) \in [Processes -> Row] /\ ps \subseteq Processes
    BY LoadedType DEF AliveOK
  <2>2. new \in Saving
    <3> HIDE DEF ps
    <3> QED BY <2>1 DEF Saving, SourceOK
  <2>3. saving' = [saving EXCEPT ![c] = new]
    BY <1>1 DEF LoadToSave
  <2>4. SavingOK'
    <3> HIDE DEF new
    <3> QED BY <2>2, <2>3 DEF SavingOK
  <2> QED BY <1>1, <2>4 DEF LoadToSave, SourceOK, PlanOK, RequestOK, AliveOK,
             BuilderOK, TodoOK, SavingOK, LeftOK
<1>2. ASSUME NEW s \in Sources, LoadToDiscard(c, s) PROVE TypeOK'
  <2> DEFINE new == [NotSaving EXCEPT !.op = "discard", !.what = s, !.was = source[s]]
  <2>1. new \in Saving
    BY NotSavingType DEF Saving, SourceOK
  <2>2. saving' = [saving EXCEPT ![c] = new]
    BY <1>2 DEF LoadToDiscard
  <2>3. SavingOK'
    <3> HIDE DEF new
    <3> QED BY <2>1, <2>2 DEF SavingOK
  <2> QED BY <1>2, <2>3 DEF LoadToDiscard, SourceOK, PlanOK, RequestOK, AliveOK,
             BuilderOK, TodoOK, SavingOK, LeftOK
<1>3. ASSUME NEW p \in Processes, LoadToDraft(c, p) PROVE TypeOK'
  <2> DEFINE new == [NotSaving EXCEPT !.op = "draft", !.for = {p}, !.seen = Loaded({p})]
  <2>1. Loaded({p}) \in [Processes -> Row]
    BY LoadedType
  <2>2. new \in Saving
    BY <2>1, NotSavingType DEF Saving
  <2>3. saving' = [saving EXCEPT ![c] = new]
    BY <1>3 DEF LoadToDraft
  <2>4. SavingOK'
    <3> HIDE DEF new
    <3> QED BY <2>2, <2>3 DEF SavingOK
  <2>5. LeftOK'
    BY <1>3, SpendType DEF LoadToDraft, Mishap
  <2> QED BY <1>3, <2>4, <2>5 DEF LoadToDraft, SourceOK, PlanOK, RequestOK, AliveOK,
             BuilderOK, TodoOK, SavingOK, LeftOK
<1>4. ASSUME Commit(c) PROVE TypeOK'
  <2>1. SavingOK'
    BY <1>4, NotSavingType DEF Commit, SavingOK
  <2>2. SourceOK'
    <3>1. CASE Refused(c) \/ saving[c].op = "draft"
      BY <1>4, <3>1 DEF Commit, SourceOK
    <3>2. CASE ~Refused(c) /\ saving[c].op = "discard"
      <4>1. source' = [source EXCEPT ![saving[c].what].status = "removed"]
        BY <1>4, <3>2 DEF Commit
      <4> QED BY <4>1 DEF SourceOK, Registered
    <3>3. CASE ~Refused(c) /\ saving[c].op = "save"
      <4>1. PICK r \in SavedAs(saving[c].was) : source' = [source EXCEPT ![saving[c].what] = r]
        BY <1>4, <3>3 DEF Commit
      <4>2. r \in Registered
        BY DEF SavedAs
      <4> QED BY <4>1, <4>2 DEF SourceOK
    <3> QED BY <1>4, <3>1, <3>2, <3>3 DEF Commit, SavingOK, Saving
  <2>3. RequestOK'
    <3>1. CASE Refused(c)
      BY <1>4, <3>1 DEF Commit, RequestOK
    <3>2. CASE ~Refused(c)
      <4>1. /\ request' = [p \in Processes |->
                 IF p \in saving[c].for THEN Requested(saving[c].seen[p], request[p])
                 ELSE request[p]]
        BY <1>4, <3>2 DEF Commit
      <4>2. \A p \in Processes : saving[c].seen[p] \in Row
        BY DEF SavingOK, Saving
      <4>3. \A p \in Processes : Requested(saving[c].seen[p], request[p]) \in Row
        BY <4>2, RequestedType DEF RequestOK
      <4> QED BY <4>1, <4>3 DEF RequestOK
    <3> QED BY <3>1, <3>2
  <2> QED BY <1>4, <2>1, <2>2, <2>3 DEF Commit, SourceOK, PlanOK, RequestOK, AliveOK,
             BuilderOK, TodoOK, SavingOK, LeftOK
<1> QED BY <1>1, <1>2, <1>3, <1>4

LEMMA BuildStepsType ==
    ASSUME TypeOK, NEW b \in Builders,
           \/ \E p \in Processes : StartTurn(b, p)
           \/ Builds(b)
           \/ Crash(b)
    PROVE  TypeOK'
<1> USE TypeParts, TypePartsNext
<1>0. builder[b] \in Builder /\ WellFormed(builder[b])
  BY DEF BuilderOK
<1>1. ASSUME NEW p \in Processes, StartTurn(b, p) PROVE TypeOK'
  <2> DEFINE new == [Idle EXCEPT !.pc = "decide", !.job = p]
  <2>1. new \in Builder /\ WellFormed(new)
    BY IdleType DEF Builder, Idle, WellFormed
  <2>2. Move(b, new)
    BY <1>1 DEF StartTurn
  <2>3. BuilderOK'
    <3> HIDE DEF new
    <3> QED BY <2>1, <2>2, MoveType
  <2> QED BY <1>1, <2>3 DEF StartTurn, SourceOK, PlanOK, RequestOK, AliveOK,
             BuilderOK, TodoOK, SavingOK, LeftOK
<1>2. ASSUME Decide(b) PROVE TypeOK'
  <2> DEFINE new == [builder[b] EXCEPT !.pc = "read"]
  <2>0. builder[b].pc = "decide"
    BY <1>2 DEF Decide, At
  <2>1. new \in Builder /\ WellFormed(new)
    BY <1>0, <2>0 DEF Builder, WellFormed
  <2>2. Ends(b, "gone") \/ Ends(b, "settled") \/ Move(b, new)
    BY <1>2 DEF Decide
  <2>3. BuilderOK'
    <3> HIDE DEF new
    <3> QED BY <2>0, <2>1, <2>2, MoveType, EndsType
  <2>4. LeftOK'
    BY <1>2, SpendType DEF Decide, LeftOK, Mishap
  <2> QED BY <1>2, <2>3, <2>4 DEF Decide, SourceOK, PlanOK, RequestOK, AliveOK,
             BuilderOK, TodoOK, SavingOK, LeftOK
<1>3. ASSUME Read(b) PROVE TypeOK'
  <2> DEFINE full  == [builder[b] EXCEPT !.pc = "extract", !.corpus = Ledger(Job(b))]
             empty == [builder[b] EXCEPT !.pc = "extract"]
  <2>0. builder[b].pc = "read"
    BY <1>3 DEF Read, At
  <2>1. Ledger(Job(b)) \in SUBSET Evidence
    BY LedgerType
  <2>2. full \in Builder /\ WellFormed(full)
    BY <1>0, <2>0, <2>1 DEF Builder, WellFormed
  <2>3. empty \in Builder /\ WellFormed(empty)
    BY <1>0, <2>0 DEF Builder, WellFormed
  <2>4. Ends(b, "gone") \/ Ends(b, "settled") \/ Move(b, full) \/ Move(b, empty)
    BY <1>3 DEF Read
  <2>5. BuilderOK'
    <3> HIDE DEF full, empty
    <3> QED BY <2>0, <2>2, <2>3, <2>4, MoveType, EndsType
  <2>6. LeftOK'
    BY <1>3, SpendType DEF Read, LeftOK, Mishap
  <2> QED BY <1>3, <2>5, <2>6 DEF Read, SourceOK, PlanOK, RequestOK, AliveOK,
             BuilderOK, TodoOK, SavingOK, LeftOK
<1>4. ASSUME Extract(b) PROVE TypeOK'
  <2> DEFINE new == [builder[b] EXCEPT !.pc = "write", !.latest = TRUE]
  <2>0. builder[b].pc = "extract"
    BY <1>4 DEF Extract, At
  <2>1. new \in Builder /\ WellFormed(new)
    BY <1>0, <2>0 DEF Builder, WellFormed
  <2>2. Ends(b, "failed") \/ Move(b, new)
    BY <1>4 DEF Extract
  <2>3. BuilderOK'
    <3> HIDE DEF new
    <3> QED BY <2>0, <2>1, <2>2, MoveType, EndsType
  <2> QED BY <1>4, <2>3 DEF Extract, SourceOK, PlanOK, RequestOK, AliveOK,
             BuilderOK, TodoOK, SavingOK, LeftOK
<1>5. ASSUME SynthesisFails(b) PROVE TypeOK'
  <2>1. BuilderOK'
    BY <1>5, EndsType DEF SynthesisFails, At
  <2> QED BY <1>5, <2>1 DEF SynthesisFails, SourceOK, PlanOK, RequestOK, AliveOK,
             BuilderOK, TodoOK, SavingOK, LeftOK
<1>6. ASSUME Write(b) PROVE TypeOK'
  <2>1. CASE Job(b) \in alive /\ builder[b].latest
    <3> DEFINE closed == [Idle EXCEPT !.pc = "close", !.job = Job(b), !.outcome = "settled"]
               new(d) == IF d = b THEN IF b \in Workers THEN closed ELSE Idle
                         ELSE IF At(d, "write") /\ Job(d) = Job(b)
                         THEN [builder[d] EXCEPT !.latest = FALSE]
                         ELSE builder[d]
    <3>1. /\ plan' = [plan EXCEPT ![Job(b)] = [built |-> TRUE, read |-> builder[b].corpus]]
          /\ builder' = [d \in Builders |-> new(d)]
      BY <1>6, <2>1 DEF Write
    <3>2. [built |-> TRUE, read |-> builder[b].corpus] \in Plan
      BY <1>0 DEF Plan, Builder
    <3>3. PlanOK'
      BY <3>1, <3>2 DEF PlanOK
    <3>4. closed \in Builder /\ WellFormed(closed)
      BY <1>0, <1>6, IdleType DEF Builder, Idle, Job, WellFormed, Write, At
    <3>5. \A d \in Builders :
             /\ [builder[d] EXCEPT !.latest = FALSE] \in Builder
             /\ At(d, "write") => WellFormed([builder[d] EXCEPT !.latest = FALSE])
      BY DEF BuilderOK, Builder, WellFormed, At
    <3>6. \A d \in Builders : new(d) \in Builder /\ WellFormed(new(d))
      <4> HIDE DEF closed
      <4> SUFFICES ASSUME NEW d \in Builders
                   PROVE  new(d) \in Builder /\ WellFormed(new(d))
        OBVIOUS
      <4>1. builder[d] \in Builder /\ WellFormed(builder[d])
        BY DEF BuilderOK
      <4> QED BY <3>4, <3>5, <4>1, IdleType
    <3>7. BuilderOK'
      <4>1. \A d \in Builders : builder'[d] \in Builder /\ WellFormed(builder'[d])
        <5> HIDE DEF new
        <5> QED BY <3>1, <3>6
      <4> QED BY <3>1, <4>1 DEF BuilderOK, WellFormed
    <3> QED BY <1>6, <3>3, <3>7 DEF Write, SourceOK, PlanOK, RequestOK, AliveOK,
             BuilderOK, TodoOK, SavingOK, LeftOK
  <2>2. CASE ~(Job(b) \in alive /\ builder[b].latest)
    <3>1. Ends(b, "failed") /\ UNCHANGED plan
      BY <1>6, <2>2 DEF Write
    <3>2. BuilderOK'
      BY <1>6, <3>1, EndsType DEF Write, At
    <3> QED BY <1>6, <3>1, <3>2 DEF Write, SourceOK, PlanOK, RequestOK, AliveOK,
             BuilderOK, TodoOK, SavingOK, LeftOK
  <2> QED BY <2>1, <2>2
<1>7. ASSUME Crash(b) PROVE TypeOK'
  <2>1. BuilderOK'
    BY <1>7, IdleType, MoveType DEF Crash
  <2>2. LeftOK'
    BY <1>7, SpendType DEF Crash, Mishap
  <2>3. TodoOK'
    BY <1>7 DEF Crash, TodoOK
  <2> QED BY <1>7, <2>1, <2>2, <2>3 DEF Crash, SourceOK, PlanOK, RequestOK, AliveOK,
             BuilderOK, TodoOK, SavingOK, LeftOK
<1> QED BY <1>1, <1>2, <1>3, <1>4, <1>5, <1>6, <1>7 DEF Builds

LEMMA WorkerStepsType ==
    ASSUME TypeOK, NEW w \in Workers,
           ClaimBatch(w) \/ WorkOne(w) \/ Closes(w) \/ StartSweep(w) \/ Sweeps(w)
    PROVE  TypeOK'
<1> USE TypeParts, TypePartsNext
<1>0. w \in Builders /\ builder[w] \in Builder /\ WellFormed(builder[w])
  BY DEF BuilderOK, Builders
<1>1. ASSUME ClaimBatch(w) PROVE TypeOK'
  <2>1. PICK batch \in SUBSET {p \in Processes : Due(p)} :
             /\ todo' = [todo EXCEPT ![w] = batch]
             /\ request' = [p \in Processes |->
                  IF p \in batch THEN [request[p] EXCEPT !.due = FALSE] ELSE request[p]]
    BY <1>1 DEF ClaimBatch
  <2>2. TodoOK'
    BY <2>1 DEF TodoOK
  <2>3. request' \in [Processes -> Row]
    BY <2>1 DEF RequestOK, Row
  <2> QED BY <1>1, <2>2, <2>3 DEF ClaimBatch, SourceOK, PlanOK, RequestOK, AliveOK,
             BuilderOK, TodoOK, SavingOK, LeftOK
<1>2. ASSUME WorkOne(w) PROVE TypeOK'
  <2>1. PICK p \in todo[w] : /\ Move(w, [Idle EXCEPT !.pc = "decide", !.job = p])
                              /\ todo' = [todo EXCEPT ![w] = @ \ {p}]
    BY <1>2 DEF WorkOne
  <2> DEFINE new == [Idle EXCEPT !.pc = "decide", !.job = p]
  <2>2. new \in Builder /\ WellFormed(new)
    BY IdleType DEF Builder, Idle, WellFormed, TodoOK
  <2>3. BuilderOK'
    <3>1. Move(w, new)
      BY <2>1
    <3> HIDE DEF new
    <3> QED BY <1>0, <2>2, <3>1, MoveType
  <2>4. TodoOK'
    BY <2>1 DEF TodoOK
  <2> QED BY <1>2, <2>3, <2>4 DEF WorkOne, SourceOK, PlanOK, RequestOK, AliveOK,
             BuilderOK, TodoOK, SavingOK, LeftOK
<1>3. ASSUME LoadClose(w) PROVE TypeOK'
  <2> DEFINE new == [builder[w] EXCEPT !.pc = "closing", !.seen = request[Job(w)]]
  <2>1. Job(w) \in Processes
    BY <1>0, <1>3 DEF LoadClose, At, Job, WellFormed
  <2>2. new \in Builder /\ WellFormed(new)
    BY <1>0, <2>1 DEF Builder, RequestOK, WellFormed, Job
  <2>3. Move(w, new)
    BY <1>3 DEF LoadClose
  <2>4. BuilderOK'
    <3> HIDE DEF new
    <3> QED BY <1>0, <2>2, <2>3, MoveType
  <2> QED BY <1>3, <2>4 DEF LoadClose, SourceOK, PlanOK, RequestOK, AliveOK,
             BuilderOK, TodoOK, SavingOK, LeftOK
<1>4. ASSUME Close(w) PROVE TypeOK'
  <2>0. builder[w].seen \in Row
    BY <1>0 DEF Builder
  <2>1. BuilderOK'
    BY <1>0, <1>4, IdleType, MoveType DEF Close
  <2>2. RequestOK'
    <3>1. CASE builder[w].outcome = "settled"
      <4>1. request' = [request EXCEPT ![Job(w)] = Completed(builder[w].seen, @)]
        BY <1>4, <3>1 DEF Close
      <4> QED BY <4>1, <2>0, CompletedType DEF RequestOK
    <3>2. CASE builder[w].outcome \in {"failed", "gone"}
      <4> DEFINE max == IF builder[w].outcome = "gone" THEN 1 ELSE MATERIALIZATION_MAX_ATTEMPTS
      <4>1. request' = [request EXCEPT ![Job(w)] = Failed(builder[w].seen, @, max)]
        BY <1>4, <3>2 DEF Close
      <4> HIDE DEF max
      <4> QED BY <4>1, <2>0, FailedType DEF RequestOK
    <3> QED BY <1>4, <3>1, <3>2 DEF Close
  <2> QED BY <1>4, <2>1, <2>2 DEF Close, SourceOK, PlanOK, RequestOK, AliveOK,
             BuilderOK, TodoOK, SavingOK, LeftOK
<1>5. ASSUME StartSweep(w) PROVE TypeOK'
  <2> DEFINE new == [Idle EXCEPT !.pc = "sweep"]
  <2>1. new \in Builder /\ WellFormed(new)
    BY IdleType DEF Builder, Idle, WellFormed
  <2>2. Move(w, new)
    BY <1>5 DEF StartSweep
  <2>3. BuilderOK'
    <3> HIDE DEF new
    <3> QED BY <1>0, <2>1, <2>2, MoveType
  <2> QED BY <1>5, <2>3 DEF StartSweep, SourceOK, PlanOK, RequestOK, AliveOK,
             BuilderOK, TodoOK, SavingOK, LeftOK
<1>6. [Idle EXCEPT !.pc = "request"] \in Builder /\ WellFormed([Idle EXCEPT !.pc = "request"])
  BY IdleType DEF Builder, Idle, WellFormed
<1>7. ASSUME SweepReads(w) PROVE TypeOK'
  <2>1. BuilderOK'
    BY <1>0, <1>6, <1>7, MoveType DEF SweepReads
  <2>2. TodoOK'
    BY <1>7 DEF SweepReads, TodoOK
  <2> QED BY <1>7, <2>1, <2>2 DEF SweepReads, SourceOK, PlanOK, RequestOK, AliveOK,
             BuilderOK, TodoOK, SavingOK, LeftOK
<1>8. ASSUME SweepLoads(w) PROVE TypeOK'
  <2>1. ASSUME NEW p \in todo[w],
               Move(w, [Idle EXCEPT !.pc = "requesting", !.job = p, !.seen = request[p]]),
               todo' = [todo EXCEPT ![w] = @ \ {p}]
        PROVE  BuilderOK' /\ TodoOK'
    <3> DEFINE new == [Idle EXCEPT !.pc = "requesting", !.job = p, !.seen = request[p]]
    <3>1. new \in Builder /\ WellFormed(new)
      BY IdleType DEF Builder, Idle, WellFormed, TodoOK, RequestOK
    <3>2. Move(w, new)
      BY <2>1
    <3>3. BuilderOK'
      <4> HIDE DEF new
      <4> QED BY <1>0, <3>1, <3>2, MoveType
    <3> QED BY <2>1, <3>3 DEF TodoOK
  <2>2. ASSUME Move(w, Idle), UNCHANGED todo
        PROVE  BuilderOK' /\ TodoOK'
    BY <1>0, <2>2, IdleType, MoveType DEF TodoOK
  <2>3. BuilderOK' /\ TodoOK'
    BY <1>8, <2>1, <2>2 DEF SweepLoads
  <2> QED BY <1>8, <2>3 DEF SweepLoads, SourceOK, PlanOK, RequestOK, AliveOK,
             BuilderOK, TodoOK, SavingOK, LeftOK
<1>9. ASSUME SweepRequests(w) PROVE TypeOK'
  <2>0. builder[w].seen \in Row
    BY <1>0 DEF Builder
  <2>1. BuilderOK'
    BY <1>0, <1>6, <1>9, IdleType, MoveType DEF SweepRequests
  <2>2. RequestOK'
    <3>1. CASE Conflicts(builder[w].seen, request[Job(w)])
      BY <1>9, <3>1 DEF SweepRequests, RequestOK
    <3>2. CASE ~Conflicts(builder[w].seen, request[Job(w)])
      <4>1. request' = [request EXCEPT ![Job(w)] = Requested(builder[w].seen, @)]
        BY <1>9, <3>2 DEF SweepRequests
      <4> QED BY <4>1, <2>0, RequestedType DEF RequestOK
    <3> QED BY <3>1, <3>2
  <2>3. TodoOK'
    BY <1>9 DEF SweepRequests, TodoOK
  <2> QED BY <1>9, <2>1, <2>2, <2>3 DEF SweepRequests, SourceOK, PlanOK, RequestOK, AliveOK,
             BuilderOK, TodoOK, SavingOK, LeftOK
<1> QED BY <1>1, <1>2, <1>3, <1>4, <1>5, <1>7, <1>8, <1>9 DEF Closes, Sweeps

LEMMA NextType == TypeOK /\ [Next]_vars => TypeOK'
<1> SUFFICES ASSUME TypeOK, [Next]_vars PROVE TypeOK'
  OBVIOUS
<1>1. CASE UNCHANGED vars
  <2> USE TypeParts, TypePartsNext
  <2> QED BY <1>1 DEF vars, SourceOK, PlanOK, RequestOK, AliveOK,
             BuilderOK, TodoOK, SavingOK, LeftOK
<1>2. CASE Next
  BY <1>2, SourceStepsType, SavingStepsType, BuildStepsType, WorkerStepsType
     DEF Next, Builders
<1> QED BY <1>1, <1>2

\* Every variable keeps to its type, and a builder that is not at rest has a
\* process to build: what the actions look up is always there.
THEOREM TypeCorrect == Spec => []TypeOK
<1> QED BY InitType, NextType, PTL DEF Spec

-----------------------------------------------------------------------------
(* The sweep misses no plan                                                *)

\* A transaction that rewrites an extracted file as extracted would take it back
\* from evidence if it had been approved since: it has not, as one such writer at
\* a time holds a source.
SaversKnow ==
    \A c \in Writers :
        saving[c].op = "save" =>
          /\ saving[c].what \in Sources
          /\ saving[c].was.status = "extracted" =>
               source[saving[c].what].status \in {"extracted", "removed"}

SaversAlone ==
    \A c, d \in Writers :
        saving[c].op = "save" /\ saving[d].op = "save" /\ saving[c].what = saving[d].what
        => c = d

WasEvidence(e) == source[e[1]].status \in {"evidence", "removed"}

\* What plans are read from, and what builders are reading.
ReadsEvidence ==
    /\ \A p \in Processes : \A e \in plan[p].read : WasEvidence(e)
    /\ \A b \in Builders : \A e \in builder[b].corpus : WasEvidence(e)

SweepInv == TypeOK /\ SaversKnow /\ SaversAlone /\ ReadsEvidence

LEMMA InitSweep == Init => SweepInv
<1> SUFFICES ASSUME Init PROVE SweepInv
  OBVIOUS
<1>1. SaversKnow /\ SaversAlone
  BY DEF Init, SaversKnow, SaversAlone, NotSaving
<1>2. ReadsEvidence
  BY DEF Init, ReadsEvidence, NoPlan, Idle
<1> QED BY <1>1, <1>2, InitType DEF SweepInv

\* The steps that write sources or open and close transactions.
Saves == \/ \E s \in Sources : Upload(s)
         \/ \E c \in Writers, s \in Sources : LoadToSave(c, s) \/ LoadToDiscard(c, s)
         \/ \E c \in Writers, p \in Processes : LoadToDraft(c, p)
         \/ \E c \in Writers : Commit(c)
         \/ \E p \in Processes : Purge(p)

LEMMA OthersSaveNothing ==
    ASSUME [Next]_vars
    PROVE  Saves \/ UNCHANGED <<source, saving>>
BY DEF Next, vars, Saves, Builds, Closes, Sweeps, TimePasses, StartTurn, Decide, Read, Extract,
       SynthesisFails, Write, Crash, ClaimBatch, WorkOne, LoadClose, Close, StartSweep,
       SweepReads, SweepLoads, SweepRequests

LEMMA SavesReadNothing ==
    ASSUME Saves
    PROVE  UNCHANGED builder
BY DEF Saves, Upload, LoadToSave, LoadToDiscard, LoadToDraft, Commit, Purge

\* The source a committed save writes.
LEMMA CommitWrites ==
    ASSUME TypeOK, SaversKnow, NEW c \in Writers, Commit(c)
    PROVE  \/ UNCHANGED source
           \/ /\ source' = [source EXCEPT ![saving[c].what].status = "removed"]
              /\ saving[c].op = "discard"
           \/ \E r \in SavedAs(saving[c].was) :
                /\ saving[c].op = "save"
                /\ source[saving[c].what].status # "removed"
                /\ source' = [source EXCEPT ![saving[c].what] = r]
<1>1. CASE Refused(c)
  BY <1>1 DEF Commit
<1>2. CASE ~Refused(c)
  <2>1. saving[c].op = "save" => source[saving[c].what].status # "removed"
    BY <1>2, PlanAssumption DEF Refused, SaversKnow
  <2>2. saving[c].op \in {"none", "save", "draft", "discard"}
    BY DEF TypeOK, Saving
  <2> QED BY <1>2, <2>1, <2>2 DEF Commit
<1> QED BY <1>1, <1>2

\* A source that was evidence is evidence still, or it is gone.
LEMMA EvidenceStays ==
    ASSUME SweepInv, [Next]_vars, NEW s \in Sources,
           source[s].status \in {"evidence", "removed"}
    PROVE  source'[s].status \in {"evidence", "removed"}
<1> USE DEF SweepInv
<1>1. CASE UNCHANGED source
  BY <1>1
<1>2. ASSUME NEW t \in Sources, Upload(t) PROVE source'[s].status \in {"evidence", "removed"}
  BY <1>2 DEF Upload, TypeOK, Registered
<1>3. ASSUME NEW p \in Processes, Purge(p) PROVE source'[s].status \in {"evidence", "removed"}
  BY <1>3 DEF Purge, TypeOK, Registered
<1>4. ASSUME NEW c \in Writers, Commit(c) PROVE source'[s].status \in {"evidence", "removed"}
  <2>1. CASE source' = [source EXCEPT ![saving[c].what].status = "removed"]
    BY <2>1 DEF TypeOK, Registered
  <2>2. ASSUME NEW r \in SavedAs(saving[c].was), saving[c].op = "save", s = saving[c].what,
               source[saving[c].what].status # "removed"
        PROVE  r.status = "evidence"
    <3>1. saving[c].was.status # "extracted"
      BY <2>2 DEF SaversKnow
    <3>2. saving[c].was \in Registered
      BY DEF TypeOK, Saving
    <3> QED BY <3>1, <3>2 DEF SavedAs, Registered
  <2>3. ASSUME NEW r \in SavedAs(saving[c].was), saving[c].op = "save",
               source[saving[c].what].status # "removed",
               source' = [source EXCEPT ![saving[c].what] = r]
        PROVE  source'[s].status \in {"evidence", "removed"}
    BY <2>2, <2>3 DEF TypeOK
  <2> QED BY <1>1, <1>4, <2>1, <2>3, CommitWrites
<1> QED BY <1>1, <1>2, <1>3, <1>4, OthersSaveNothing
        DEF Saves, LoadToSave, LoadToDiscard, LoadToDraft

LEMMA SaversStep ==
    ASSUME SweepInv, [Next]_vars
    PROVE  SaversKnow' /\ SaversAlone'
<1> USE DEF SweepInv
<1>1. CASE UNCHANGED <<source, saving>>
  BY <1>1 DEF SaversKnow, SaversAlone
<1>2. ASSUME NEW s \in Sources, Upload(s) PROVE SaversKnow' /\ SaversAlone'
  BY <1>2 DEF Upload, SaversKnow, SaversAlone, TypeOK, Registered
<1>3. ASSUME NEW c \in Writers, NEW s \in Sources, LoadToSave(c, s)
      PROVE  SaversKnow' /\ SaversAlone'
  <2>1. \A d \in Writers : saving'[d] = IF d = c THEN saving'[c] ELSE saving[d]
    BY <1>3 DEF LoadToSave, TypeOK
  <2>2. saving'[c].op = "save" /\ saving'[c].what = s /\ saving'[c].was = source[s]
    BY <1>3 DEF LoadToSave, TypeOK
  <2>3. UNCHANGED source
    BY <1>3 DEF LoadToSave
  <2>4. \A d \in Writers : saving[d].op = "save" => saving[d].what # s
    BY <1>3 DEF LoadToSave
  <2> QED BY <2>1, <2>2, <2>3, <2>4 DEF SaversKnow, SaversAlone
<1>4. ASSUME NEW c \in Writers, UNCHANGED source, saving'[c].op # "save",
             \A d \in Writers : d # c => saving'[d] = saving[d]
      PROVE  SaversKnow' /\ SaversAlone'
  BY <1>4 DEF SaversKnow, SaversAlone
<1>5. ASSUME NEW c \in Writers, NEW s \in Sources, LoadToDiscard(c, s)
      PROVE  SaversKnow' /\ SaversAlone'
  <2>1. saving'[c].op # "save"
    BY <1>5 DEF LoadToDiscard, TypeOK, NotSaving
  <2> QED BY <1>4, <1>5, <2>1 DEF LoadToDiscard, TypeOK
<1>6. ASSUME NEW c \in Writers, NEW p \in Processes, LoadToDraft(c, p)
      PROVE  SaversKnow' /\ SaversAlone'
  <2>1. saving'[c].op # "save"
    BY <1>6 DEF LoadToDraft, TypeOK, NotSaving
  <2> QED BY <1>4, <1>6, <2>1 DEF LoadToDraft, TypeOK
<1>7. ASSUME NEW p \in Processes, Purge(p) PROVE SaversKnow' /\ SaversAlone'
  <2>1. \A s \in Sources : \/ source'[s] = source[s]
                           \/ source'[s].status = "removed"
    BY <1>7 DEF Purge, TypeOK, Registered
  <2>2. UNCHANGED saving
    BY <1>7 DEF Purge
  <2> QED BY <2>1, <2>2 DEF SaversKnow, SaversAlone
<1>8. ASSUME NEW c \in Writers, Commit(c) PROVE SaversKnow' /\ SaversAlone'
  <2>1. \A d \in Writers : saving'[d] = IF d = c THEN NotSaving ELSE saving[d]
    BY <1>8 DEF Commit, TypeOK
  <2>2. SaversAlone'
    BY <2>1 DEF SaversAlone, NotSaving
  <2>3. ASSUME NEW d \in Writers, d # c, saving[d].op = "save"
        PROVE  \/ source'[saving[d].what] = source[saving[d].what]
               \/ source'[saving[d].what].status = "removed"
    <3>1. CASE UNCHANGED source
      BY <3>1
    <3>2. CASE source' = [source EXCEPT ![saving[c].what].status = "removed"]
      BY <2>3, <3>2 DEF SaversKnow, TypeOK, Registered
    <3>3. ASSUME NEW r, saving[c].op = "save", source' = [source EXCEPT ![saving[c].what] = r]
          PROVE  source'[saving[d].what] = source[saving[d].what]
      BY <2>3, <3>3 DEF SaversKnow, SaversAlone, TypeOK
    <3> QED BY <1>8, <3>1, <3>2, <3>3, CommitWrites
  <2>4. SaversKnow'
    BY <2>1, <2>3 DEF SaversKnow, NotSaving
  <2> QED BY <2>2, <2>4
<1> QED BY <1>1, <1>2, <1>3, <1>5, <1>6, <1>7, <1>8, OthersSaveNothing DEF Saves

\* A builder reads the ledger of its process, and nothing else.
ReadsLedger(b) == \/ builder'[b].corpus \subseteq builder[b].corpus
                  \/ builder'[b].corpus = Ledger(Job(b))

LEMMA CorpusStep ==
    ASSUME TypeOK, [Next]_vars, NEW b \in Builders
    PROVE  ReadsLedger(b)
<1>0. \A d \in Builders : builder[d] \in Builder
  BY DEF TypeOK
<1>1. CASE UNCHANGED builder
  BY <1>1 DEF ReadsLedger
<1>2. ASSUME NEW d \in Builders, NEW new, Move(d, new),
             new.corpus \subseteq builder[d].corpus \/ new.corpus = Ledger(Job(d))
      PROVE  ReadsLedger(b)
  BY <1>2 DEF Move, TypeOK, ReadsLedger
<1>3. ASSUME NEW d \in Builders, NEW outcome, Ends(d, outcome) PROVE ReadsLedger(b)
  <2>1. [Idle EXCEPT !.pc = "close", !.job = Job(d), !.outcome = outcome].corpus = {}
    BY DEF Idle
  <2>2. Idle.corpus = {}
    BY DEF Idle
  <2> QED BY <1>2, <1>3, <2>1, <2>2 DEF Ends
<1>4. ASSUME NEW d \in Builders, Move(d, Idle) PROVE ReadsLedger(b)
  <2> QED BY <1>2, <1>4 DEF Idle
<1>5. ASSUME NEW d \in Builders, Decide(d) PROVE ReadsLedger(b)
  <2>1. [builder[d] EXCEPT !.pc = "read"].corpus = builder[d].corpus
    BY <1>0 DEF Builder
  <2> QED BY <1>2, <1>3, <1>5, <2>1 DEF Decide
<1>6. ASSUME NEW d \in Builders, Read(d) PROVE ReadsLedger(b)
  <2>1. /\ [builder[d] EXCEPT !.pc = "extract"].corpus = builder[d].corpus
        /\ [builder[d] EXCEPT !.pc = "extract", !.corpus = Ledger(Job(d))].corpus
             = Ledger(Job(d))
    BY <1>0 DEF Builder
  <2> QED BY <1>2, <1>3, <1>6, <2>1 DEF Read
<1>7. ASSUME NEW d \in Builders, Extract(d) \/ SynthesisFails(d) PROVE ReadsLedger(b)
  <2>1. [builder[d] EXCEPT !.pc = "write", !.latest = TRUE].corpus = builder[d].corpus
    BY <1>0 DEF Builder
  <2> QED BY <1>2, <1>3, <1>7, <2>1 DEF Extract, SynthesisFails
<1>8. ASSUME NEW d \in Builders, Write(d) PROVE ReadsLedger(b)
  <2>1. CASE Ends(d, "failed")
    <3> QED BY <1>3, <2>1
  <2>2. CASE ~Ends(d, "failed")
    <3> DEFINE closed == [Idle EXCEPT !.pc = "close", !.job = Job(d), !.outcome = "settled"]
    <3>0. closed.corpus = {} /\ Idle.corpus = {}
      BY DEF Idle
    <3>1. \/ builder'[b] \in {closed, Idle}
          \/ builder'[b] = [builder[b] EXCEPT !.latest = FALSE]
          \/ builder'[b] = builder[b]
      BY <1>8, <2>2 DEF Write
    <3> HIDE DEF closed
    <3>2. [builder[b] EXCEPT !.latest = FALSE].corpus = builder[b].corpus
      BY <1>0 DEF Builder
    <3> QED BY <3>0, <3>1, <3>2 DEF ReadsLedger
  <2> QED BY <2>1, <2>2
<1>9. ASSUME NEW d \in Builders, NEW p \in Processes, StartTurn(d, p) PROVE ReadsLedger(b)
  <2>1. [Idle EXCEPT !.pc = "decide", !.job = p].corpus = {}
    BY DEF Idle
  <2> QED BY <1>2, <1>9, <2>1 DEF StartTurn
<1>10. ASSUME NEW d \in Workers,
              WorkOne(d) \/ Closes(d) \/ StartSweep(d) \/ Sweeps(d)
       PROVE  ReadsLedger(b)
  <2>0. d \in Builders
    BY DEF Builders
  <2>1. /\ \A p : [Idle EXCEPT !.pc = "decide", !.job = p].corpus = {}
        /\ [Idle EXCEPT !.pc = "sweep"].corpus = {}
        /\ [Idle EXCEPT !.pc = "request"].corpus = {}
        /\ \A p : [Idle EXCEPT !.pc = "requesting", !.job = p, !.seen = request[p]].corpus = {}
    BY DEF Idle
  <2>2. [builder[d] EXCEPT !.pc = "closing", !.seen = request[Job(d)]].corpus
          = builder[d].corpus
    BY <1>0, <2>0 DEF Builder
  <2>3. CASE WorkOne(d)
    BY <1>2, <2>0, <2>1, <2>3 DEF WorkOne
  <2>4. CASE Closes(d)
    BY <1>2, <1>4, <2>0, <2>2, <2>4 DEF Closes, LoadClose, Close
  <2>5. CASE StartSweep(d)
    BY <1>2, <2>0, <2>1, <2>5 DEF StartSweep
  <2>6. CASE Sweeps(d)
    BY <1>2, <1>4, <2>0, <2>1, <2>6 DEF Sweeps, SweepReads, SweepLoads, SweepRequests
  <2> QED BY <1>10, <2>3, <2>4, <2>5, <2>6
<1>11. CASE Saves
  BY <1>1, <1>11, SavesReadNothing
<1>12. ASSUME NEW d \in Workers, ClaimBatch(d) PROVE ReadsLedger(b)
  BY <1>1, <1>12 DEF ClaimBatch
<1>13. ASSUME NEW p \in Processes, TimePasses(p) PROVE ReadsLedger(b)
  BY <1>1, <1>13 DEF TimePasses
<1>14. ASSUME NEW d \in Builders, Crash(d) PROVE ReadsLedger(b)
  <2> QED BY <1>4, <1>14 DEF Crash
<1>15. CASE UNCHANGED vars
  BY <1>1, <1>15 DEF vars
<1>16. CASE Next
  <2>1. \/ Saves
        \/ \E p \in Processes : TimePasses(p)
        \/ \E d \in Turns, p \in Processes : StartTurn(d, p)
        \/ \E d \in Builders : Builds(d)
        \/ \E d \in Builders : Crash(d)
        \/ \E d \in Workers : ClaimBatch(d)
        \/ \E d \in Workers : WorkOne(d) \/ Closes(d) \/ StartSweep(d) \/ Sweeps(d)
    BY <1>16 DEF Next, Saves
  <2>2. ASSUME NEW d \in Builders, Builds(d) PROVE ReadsLedger(b)
    BY <1>5, <1>6, <1>7, <1>8, <2>2 DEF Builds
  <2>3. \A d \in Turns : d \in Builders
    BY DEF Builders
  <2> QED BY <1>9, <1>10, <1>11, <1>12, <1>13, <1>14, <2>1, <2>2, <2>3
<1> QED BY <1>15, <1>16

\* A plan is only written with what its builder read.
LEMMA PlanStep ==
    ASSUME TypeOK, [Next]_vars, NEW p \in Processes
    PROVE  \/ plan'[p].read \subseteq plan[p].read
           \/ \E b \in Builders : plan'[p].read = builder[b].corpus
<1>1. CASE UNCHANGED plan
  BY <1>1
<1>2. ASSUME NEW q \in Processes, Purge(q)
      PROVE  plan'[p].read \subseteq plan[p].read
  BY <1>2 DEF Purge, NoPlan, TypeOK, Plan
<1>3. ASSUME NEW b \in Builders, Write(b), ~UNCHANGED plan
      PROVE  plan'[p].read \in {plan[p].read, builder[b].corpus}
  BY <1>3 DEF Write, TypeOK, Plan
<1> QED BY <1>1, <1>2, <1>3
        DEF Next, vars, Builds, Closes, Sweeps, TimePasses, StartTurn, Decide, Read, Extract,
            SynthesisFails, Crash, ClaimBatch, WorkOne, LoadClose, Close, StartSweep,
            SweepReads, SweepLoads, SweepRequests,
            Upload, LoadToSave, LoadToDiscard, LoadToDraft, Commit

\* What a step reads is what was read before, or evidence.
LEMMA ReadsStep ==
    ASSUME SweepInv, [Next]_vars
    PROVE  ReadsEvidence'
<1> USE DEF SweepInv
<1>1. \A b \in Builders : \A e \in builder'[b].corpus : e \in Evidence /\ WasEvidence(e)
  <2>1. \A b \in Builders : builder[b].corpus \subseteq Evidence
    BY DEF TypeOK, Builder
  <2>2. ASSUME NEW b \in Builders, NEW e \in Ledger(Job(b))
        PROVE  e \in Evidence /\ WasEvidence(e)
    <3>1. PICK s \in Sources : source[s].status = "evidence" /\ e = <<s, source[s].text>>
      BY <2>2 DEF Ledger, Said, In
    <3> QED BY <3>1 DEF Evidence, WasEvidence, TypeOK, Registered
  <2>3. \A b \in Builders : \/ builder'[b].corpus \subseteq builder[b].corpus
                            \/ builder'[b].corpus = Ledger(Job(b))
    BY CorpusStep DEF ReadsLedger
  <2> QED BY <2>1, <2>2, <2>3 DEF ReadsEvidence
<1>2. \A p \in Processes : \A e \in plan'[p].read : e \in Evidence /\ WasEvidence(e)
  <2>1. /\ \A b \in Builders : builder[b].corpus \subseteq Evidence
        /\ \A p \in Processes : plan[p].read \subseteq Evidence
    BY DEF TypeOK, Builder, Plan
  <2> QED BY <2>1, PlanStep DEF ReadsEvidence
<1>3. \A e \in Evidence : WasEvidence(e) => WasEvidence(e)'
  BY EvidenceStays DEF Evidence, WasEvidence
<1> QED BY <1>1, <1>2, <1>3 DEF ReadsEvidence

\* While a plan is behind and its request is closed, the sweep asks for it.
THEOREM SweepSound == Spec => []SweepMissesNoPlan
<1>1. SweepInv /\ [Next]_vars => SweepInv'
  BY NextType, SaversStep, ReadsStep DEF SweepInv
<1>2. SweepInv => SweepMissesNoPlan
  <2> SUFFICES ASSUME SweepInv, NEW p \in alive, Ledger(p) # {}, ~Current(p),
                      request[p].status \in {"none", "done"}
               PROVE  SweepWants(p)
    BY DEF SweepMissesNoPlan
  <2>1. p \in Processes
    BY DEF SweepInv, TypeOK
  <2>2. Ledger(p) \subseteq SweptSources(p)
    BY DEF Ledger, SweptSources, Said, In
  <2>3. ASSUME BuiltOn(p, SweptSources(p)) PROVE FALSE
    <3>1. plan[p].built /\ plan[p].read = SweptSources(p)
      BY <2>3 DEF BuiltOn, Identity
    <3>2. \A e \in SweptSources(p) : WasEvidence(e)
      BY <2>1, <3>1 DEF SweepInv, ReadsEvidence
    <3>3. \A s \in In(p, {"evidence", "extracted"}) : source[s].status = "evidence"
      <4> SUFFICES ASSUME NEW s \in In(p, {"evidence", "extracted"})
                   PROVE  source[s].status = "evidence"
        OBVIOUS
      <4>1. <<s, source[s].text>> \in SweptSources(p)
        BY DEF SweptSources, Said
      <4>2. source[s].status \in {"evidence", "removed"}
        BY <3>2, <4>1 DEF WasEvidence
      <4> QED BY <4>2 DEF In
    <3>4. SweptSources(p) = Ledger(p)
      BY <3>3 DEF SweptSources, Ledger, Said, In
    <3> QED BY <3>1, <3>4 DEF Current
  <2> QED BY <2>2, <2>3 DEF SweepWants
<1> QED BY <1>1, <1>2, InitSweep, PTL DEF Spec

=============================================================================
