----------------------- MODULE SimulationQueue_proofs -----------------------
(***************************************************************************)
(* Proofs about SimulationQueue, for every number of drains, clients, keys *)
(* and runs and every value of the limits.                                 *)
(*                                                                         *)
(* TypeOK is not inductive by itself: the attempt a claim takes is within  *)
(* MAX_ATTEMPTS only because a run that waits has an attempt left, and the *)
(* status a delivery writes is a status only because the engine answered.  *)
(* The two facts are added to it.  Who has a claim needs a third: no       *)
(* executor is at an attempt its row has not counted (TakesCounted).       *)
(***************************************************************************)
EXTENDS SimulationQueue, FiniteSetTheorems, TLAPS

AttemptLeft == \A r \in Queued(run) : run[r].attempts < MAX_ATTEMPTS

OutcomeKnown ==
    \A d \in Drains : drain[d].pc \in {"answered", "writing"} => drain[d].outcome # "none"

IInv == TypeOK /\ AttemptLeft /\ OutcomeKnown

\* The runs a reaping gives back, and those it closes.
Back(q) == {r \in Running(q) : Stale(q, r) /\ GivenBack(q, r)}
Dead(q) == {r \in Running(q) : Stale(q, r) /\ ~GivenBack(q, r)}

-----------------------------------------------------------------------------
(* What a reaping does to the rows (reap_stale_runs)                       *)

LEMMA ConstantTypes ==
    /\ MaxRuns \in Nat /\ LegacyCount \in Nat /\ MaxQueued \in Nat /\ MaxConcurrent \in Nat
    /\ GroupSize \in Nat /\ MAX_ATTEMPTS \in Nat /\ MISSED_BEATS \in Nat /\ LegacyPatience \in Nat
    /\ MAX_ATTEMPTS # 0 /\ GroupSize # 0 /\ MISSED_BEATS # 0 /\ LegacyPatience # 0
    /\ Patience \in Nat /\ Patience # 0
BY QueueAssumption DEF Patience

LEMMA RunsFinite == IsFiniteSet(Runs)
BY FS_Interval, ConstantTypes DEF Runs

LEMMA IntervalSize ==
    ASSUME NEW l \in Nat, NEW n \in Nat \ {0}
    PROVE  IsFiniteSet(l + 1 .. l + n) /\ Cardinality(l + 1 .. l + n) = n /\ l + 1 \in l + 1 .. l + n
<1>1. /\ IsFiniteSet(l + 1 .. l + n)
      /\ Cardinality(l + 1 .. l + n) = IF l + 1 > l + n THEN 0 ELSE (l + n) - (l + 1) + 1
  BY FS_Interval
<1>2. QED
  BY <1>1

\* Reaping keeps rows rows, and leaves an attempt to whoever it sends back.
LEMMA ReapedRows ==
    ASSUME NEW q \in [Runs -> Row]
    PROVE  /\ Reaped(q) \in [Runs -> Row]
           /\ \A r \in Runs : Reaped(q)[r].status = "none" <=> q[r].status = "none"
           /\ \A r \in Runs : Reaped(q)[r].attempts = q[r].attempts
<1> DEFINE p == Reaped(q)
<1>1. ASSUME NEW r \in Runs
      PROVE  /\ p[r] \in Row
             /\ p[r].status = "none" <=> q[r].status = "none"
             /\ p[r].attempts = q[r].attempts
  <2>1. CASE ~Stale(q, r)
    BY <2>1 DEF Reaped
  <2>2. CASE Stale(q, r) /\ GivenBack(q, r)
    <3>1. p[r] = [q[r] EXCEPT !.started = FALSE, !.worker = NoDrain, !.silence = 0]
      BY <2>2 DEF Reaped
    <3>2. 0 \in 0 .. Patience
      BY ConstantTypes
    <3>3. q[r] \in Row
      OBVIOUS
    <3>4. p[r] \in Row
      BY <3>1, <3>2, <3>3 DEF Row
    <3>5. QED
      BY <3>1, <3>3, <3>4 DEF Row
  <2>3. CASE Stale(q, r) /\ ~GivenBack(q, r)
    BY <2>3 DEF Reaped, Row, Stale, Running, Pending
  <2>4. QED
    BY <2>1, <2>2, <2>3
<1>2. QED
  BY <1>1 DEF Reaped

\* Reaping moves runs from being executed to waiting or to closed, nothing else.
LEMMA ReapedSets ==
    ASSUME NEW q \in [Runs -> Row]
    PROVE  /\ Queued(Reaped(q)) = Queued(q) \cup Back(q)
           /\ Running(Reaped(q)) = Running(q) \ (Back(q) \cup Dead(q))
           /\ Closed(Reaped(q)) = Closed(q) \cup Dead(q)
           /\ Pending(Reaped(q)) \subseteq Pending(q)
           /\ \A r \in Queued(Reaped(q)) : r \in Queued(q) \/ q[r].attempts < MAX_ATTEMPTS
<1>1. ASSUME NEW r \in Runs
      PROVE  /\ r \in Queued(Reaped(q)) <=> r \in Queued(q) \cup Back(q)
             /\ r \in Running(Reaped(q)) <=> r \in Running(q) \ (Back(q) \cup Dead(q))
             /\ r \in Closed(Reaped(q)) <=> r \in Closed(q) \cup Dead(q)
  <2>0. q[r] \in Row
    OBVIOUS
  <2>1. CASE ~Stale(q, r)
    <3>1. Reaped(q)[r] = q[r]
      BY <2>1 DEF Reaped
    <3>2. QED
      BY <2>1, <3>1 DEF Queued, Running, Closed, Pending, Back, Dead
  <2>2. CASE Stale(q, r) /\ GivenBack(q, r)
    <3>1. Reaped(q)[r] = [q[r] EXCEPT !.started = FALSE, !.worker = NoDrain, !.silence = 0]
      BY <2>2 DEF Reaped
    <3>2. Reaped(q)[r].status = q[r].status /\ Reaped(q)[r].started = FALSE
      BY <2>0, <3>1 DEF Row
    <3>3. r \in Running(q)
      BY <2>2 DEF Stale
    <3>4. QED
      BY <2>0, <2>2, <3>2, <3>3 DEF Queued, Running, Closed, Pending, Back, Dead, Row
  <2>3. CASE Stale(q, r) /\ ~GivenBack(q, r)
    <3>1. Reaped(q)[r] = [q[r] EXCEPT !.status = "failed"]
      BY <2>3 DEF Reaped
    <3>2. Reaped(q)[r].status = "failed"
      BY <2>0, <3>1 DEF Row
    <3>3. r \in Running(q)
      BY <2>3 DEF Stale
    <3>4. QED
      BY <2>0, <2>3, <3>2, <3>3 DEF Queued, Running, Closed, Pending, Back, Dead, Row
  <2>4. QED
    BY <2>1, <2>2, <2>3
<1>2. /\ Queued(q) \subseteq Runs /\ Running(q) \subseteq Runs /\ Closed(q) \subseteq Runs
      /\ Queued(Reaped(q)) \subseteq Runs /\ Running(Reaped(q)) \subseteq Runs
      /\ Closed(Reaped(q)) \subseteq Runs
      /\ Back(q) \subseteq Running(q) /\ Dead(q) \subseteq Running(q)
  BY DEF Queued, Running, Closed, Pending, Back, Dead
<1>3. /\ Queued(Reaped(q)) = Queued(q) \cup Back(q)
      /\ Running(Reaped(q)) = Running(q) \ (Back(q) \cup Dead(q))
      /\ Closed(Reaped(q)) = Closed(q) \cup Dead(q)
  BY <1>1, <1>2
<1>4. \A p \in [Runs -> Row] : Pending(p) = Queued(p) \cup Running(p)
  BY DEF Queued, Running, Pending
<1>5. Pending(Reaped(q)) \subseteq Pending(q)
  BY <1>2, <1>3, <1>4, ReapedRows
<1>6. QED
  BY <1>3, <1>5 DEF Back, GivenBack

\* Queued and Running split Pending; all are finite sets of runs.
LEMMA PendingSplit ==
    ASSUME NEW q
    PROVE  /\ Pending(q) = Queued(q) \cup Running(q)
           /\ Queued(q) \cap Running(q) = {}
           /\ Pending(q) \subseteq Runs /\ Queued(q) \subseteq Runs /\ Running(q) \subseteq Runs
           /\ IsFiniteSet(Pending(q)) /\ IsFiniteSet(Queued(q)) /\ IsFiniteSet(Running(q))
           /\ Cardinality(Pending(q)) \in Nat /\ Cardinality(Queued(q)) \in Nat
           /\ Cardinality(Running(q)) \in Nat
<1>1. /\ Pending(q) = Queued(q) \cup Running(q)
      /\ Queued(q) \cap Running(q) = {}
      /\ Pending(q) \subseteq Runs /\ Queued(q) \subseteq Runs /\ Running(q) \subseteq Runs
  BY DEF Pending, Queued, Running
<1>2. IsFiniteSet(Pending(q)) /\ IsFiniteSet(Queued(q)) /\ IsFiniteSet(Running(q))
  BY <1>1, RunsFinite, FS_Subset
<1>3. QED
  BY <1>1, <1>2, FS_CardinalityType

-----------------------------------------------------------------------------
(* The inductive invariant                                                 *)

LEMMA InitIInv == Init => IInv
<1> SUFFICES ASSUME Init PROVE IInv
  OBVIOUS
<1>0. /\ 0 \in Attempts /\ 0 \in 0 .. Patience /\ LegacyCount \in 0 .. MaxRuns
      /\ LegacyRuns \subseteq Runs
  BY ConstantTypes, QueueAssumption DEF Attempts, LegacyRuns, Runs
<1>1. EmptyRow \in Row /\ LegacyRow \in Row /\ LegacyRow.status = "pending" /\ EmptyRow.status = "none"
      /\ LegacyRow.started = TRUE
  BY <1>0 DEF EmptyRow, LegacyRow, Row
<1>2. run \in [Runs -> Row]
  BY <1>1 DEF Init
<1>3. Idle \in Execution /\ Idle.pc = "idle"
  BY <1>0 DEF Idle, Execution
<1>4. \A r \in Runs : r <= lastRun <=> run[r].status # "none"
  BY <1>1, ConstantTypes DEF Init, Runs, LegacyRuns
<1>5. TypeOK
  BY <1>0, <1>2, <1>3, <1>4 DEF Init, TypeOK, Busy
<1>6. AttemptLeft
  BY <1>1, <1>2 DEF Init, AttemptLeft, Queued, Pending
<1>7. OutcomeKnown
  BY <1>3 DEF Init, OutcomeKnown
<1>8. QED
  BY <1>5, <1>6, <1>7 DEF IInv

\* Every action that only reaps keeps the invariant.
LEMMA ReapIInv ==
    ASSUME IInv, run' = Reaped(run), UNCHANGED <<lastRun, stored, drain>>,
           asking' \in [Clients -> SingleKeys \cup {NoKey}]
    PROVE  IInv'
<1>1. run \in [Runs -> Row] /\ lastRun \in 0 .. MaxRuns
  BY DEF IInv, TypeOK
<1>2. /\ run' \in [Runs -> Row]
      /\ \A r \in Runs : r <= lastRun' <=> run'[r].status # "none"
  BY <1>1, ReapedRows DEF IInv, TypeOK
<1>3. TypeOK'
  BY <1>1, <1>2 DEF IInv, TypeOK, stored, Busy, Job
<1>4. AttemptLeft'
  <2>1. \A r \in Queued(Reaped(run)) : run[r].attempts < MAX_ATTEMPTS
    BY <1>1, ReapedSets DEF IInv, AttemptLeft
  <2>2. Queued(Reaped(run)) \subseteq Runs
    BY PendingSplit
  <2>3. \A r \in Queued(Reaped(run)) : Reaped(run)[r].attempts < MAX_ATTEMPTS
    BY <1>1, <2>1, <2>2, ReapedRows
  <2>4. QED
    BY <2>3 DEF AttemptLeft, Queued, Pending
<1>5. OutcomeKnown'
  BY DEF IInv, OutcomeKnown
<1>6. QED
  BY <1>3, <1>4, <1>5 DEF IInv

\* Inserting n rows after the last one keeps the rows in order of id.
LEMMA InsertIInv ==
    ASSUME IInv, NEW n \in Nat, NEW k \in Keys, lastRun + n <= MaxRuns,
           run' = Inserted(Reaped(run), n, k), lastRun' = lastRun + n,
           UNCHANGED <<stored, drain>>, asking' \in [Clients -> SingleKeys \cup {NoKey}]
    PROVE  IInv'
<1> DEFINE q == Reaped(run)
<1>1. run \in [Runs -> Row] /\ lastRun \in 0 .. MaxRuns /\ lastRun \in Nat
  BY ConstantTypes DEF IInv, TypeOK
<1>2. q \in [Runs -> Row] /\ \A r \in Runs : r <= lastRun <=> q[r].status # "none"
  BY <1>1, ReapedRows DEF IInv, TypeOK
<1>3. /\ NewRow(k) \in Row /\ NewRow(k).status = "pending"
      /\ NewRow(k).started = FALSE /\ NewRow(k).attempts = 0
  <2>1. 0 \in Attempts /\ 0 \in 0 .. Patience
    BY ConstantTypes DEF Attempts
  <2>2. QED
    BY <2>1 DEF NewRow, EmptyRow, Row
<1>4. \A r \in Runs : run'[r] = IF r \in lastRun + 1 .. lastRun + n THEN NewRow(k) ELSE q[r]
  BY DEF Inserted
<1>5. run' \in [Runs -> Row]
  BY <1>2, <1>3 DEF Inserted
<1>6. ASSUME NEW r \in Runs
      PROVE  r <= lastRun' <=> run'[r].status # "none"
  <2>0. r \in Nat
    BY ConstantTypes DEF Runs
  <2>1. CASE r \in lastRun + 1 .. lastRun + n
    BY <1>1, <1>3, <1>4, <2>0, <2>1
  <2>2. CASE r \notin lastRun + 1 .. lastRun + n
    <3>1. run'[r] = q[r]
      BY <1>4, <2>2
    <3>2. r <= lastRun + n <=> r <= lastRun
      BY <1>1, <2>0, <2>2
    <3>3. QED
      BY <1>2, <3>1, <3>2
  <2>3. QED
    BY <2>1, <2>2
<1>7. TypeOK'
  <2>1. lastRun' \in 0 .. MaxRuns /\ \A i \in 1 .. lastRun : i \in 1 .. lastRun'
    BY <1>1, ConstantTypes
  <2>2. QED
    BY <1>5, <1>6, <2>1 DEF IInv, TypeOK, stored, Busy, Job
<1>8. AttemptLeft'
  <2>1. ASSUME NEW r \in Runs, run'[r].status = "pending", ~run'[r].started
        PROVE  run'[r].attempts < MAX_ATTEMPTS
    <3>1. CASE r \in lastRun + 1 .. lastRun + n
      BY <1>3, <1>4, <3>1, ConstantTypes
    <3>2. CASE r \notin lastRun + 1 .. lastRun + n
      <4>1. run'[r] = q[r]
        BY <1>4, <3>2
      <4>2. r \in Queued(q)
        BY <2>1, <4>1 DEF Queued, Pending
      <4>3. run[r].attempts < MAX_ATTEMPTS
        BY <1>1, <4>2, ReapedSets DEF IInv, AttemptLeft
      <4>4. QED
        BY <1>1, <4>1, <4>3, ReapedRows
    <3>3. QED
      BY <3>1, <3>2
  <2>2. QED
    BY <2>1 DEF AttemptLeft, Queued, Pending
<1>9. OutcomeKnown'
  BY DEF IInv, OutcomeKnown
<1>10. QED
  BY <1>7, <1>8, <1>9 DEF IInv

\* Writing one row that stays inserted keeps the order of the ids.
LEMMA OneRowIInv ==
    ASSUME IInv, NEW r \in Runs, NEW row \in Row,
           run[r].status # "none", row.status # "none",
           row.status = "pending" => row.started,
           run' = [run EXCEPT ![r] = row], UNCHANGED <<lastRun, stored, asking>>,
           drain' \in [Drains -> Execution],
           \A d \in Drains : drain'[d].pc # "idle" =>
                              drain'[d].job \in 1 .. lastRun /\ drain'[d].take # 0,
           OutcomeKnown'
    PROVE  IInv'
<1>1. run \in [Runs -> Row]
  BY DEF IInv, TypeOK
<1>2. run' \in [Runs -> Row] /\ \A s \in Runs : run'[s] = IF s = r THEN row ELSE run[s]
  BY <1>1
<1>3. TypeOK'
  BY <1>1, <1>2 DEF IInv, TypeOK, stored, Busy, Job
<1>4. AttemptLeft'
  BY <1>1, <1>2 DEF IInv, AttemptLeft, Queued, Pending
<1>5. QED
  BY <1>3, <1>4 DEF IInv

\* What a reaping guarantees about the rows it leaves, given the invariant.
LEMMA ReapedFacts ==
    ASSUME IInv
    PROVE  /\ Reaped(run) \in [Runs -> Row]
           /\ \A r \in Runs : r <= lastRun <=> Reaped(run)[r].status # "none"
           /\ \A r \in Queued(Reaped(run)) :
                 r \in Runs /\ Reaped(run)[r].attempts \in Nat /\ Reaped(run)[r].attempts < MAX_ATTEMPTS
<1>1. run \in [Runs -> Row]
  BY DEF IInv, TypeOK
<1>2. ASSUME NEW r \in Queued(Reaped(run))
      PROVE  r \in Runs /\ Reaped(run)[r].attempts \in Nat /\ Reaped(run)[r].attempts < MAX_ATTEMPTS
  <2>1. r \in Runs
    BY PendingSplit
  <2>2. run[r].attempts < MAX_ATTEMPTS
    BY <1>1, ReapedSets DEF IInv, AttemptLeft
  <2>3. run[r].attempts \in Nat
    BY <1>1, <2>1, ConstantTypes DEF Row, Attempts
  <2>4. QED
    BY <1>1, <2>1, <2>2, <2>3, ReapedRows
<1>3. QED
  BY <1>1, <1>2, ReapedRows DEF IInv, TypeOK

LEMMA ClaimIInv ==
    ASSUME IInv, NEW d \in Drains, ClaimNextRun(d)
    PROVE  IInv'
<1> DEFINE q == Reaped(run)
<1>1. drain \in [Drains -> Execution] /\ lastRun \in 0 .. MaxRuns
  BY DEF IInv, TypeOK
<1>2. CASE run' = q /\ UNCHANGED drain
  BY <1>2, ReapIInv DEF ClaimNextRun, IInv, TypeOK
<1>3. ASSUME NEW r \in Queued(q), run' = Taken(q, r, d),
             drain' = [drain EXCEPT ![d] =
                         [Idle EXCEPT !.pc = "engine", !.job = r, !.take = q[r].attempts + 1]]
      PROVE  IInv'
  <2>1. /\ q \in [Runs -> Row]
        /\ \A s \in Runs : s <= lastRun <=> q[s].status # "none"
        /\ \A s \in Queued(q) : s \in Runs /\ q[s].attempts \in Nat /\ q[s].attempts < MAX_ATTEMPTS
    BY ReapedFacts
  <2> HIDE DEF q
  <2>2. r \in Runs /\ q[r] \in Row /\ q[r].status = "pending"
    BY <2>1 DEF Queued, Pending
  <2>3. r \in 1 .. lastRun
    BY <2>1, <2>2, <1>1, ConstantTypes DEF Runs
  <2>4. q[r].attempts + 1 \in Attempts /\ q[r].attempts + 1 # 0 /\ 0 \in 0 .. Patience
    BY <2>1, ConstantTypes DEF Attempts
  <2> DEFINE x   == [Idle EXCEPT !.pc = "engine", !.job = r, !.take = q[r].attempts + 1]
             row == [q[r] EXCEPT !.started = TRUE, !.worker = d, !.silence = 0, !.attempts = @ + 1]
  <2>5. x \in Execution /\ x.job = r /\ x.take = q[r].attempts + 1 /\ x.pc = "engine"
    BY <2>2, <2>4 DEF Execution, Idle
  <2>6. row \in Row /\ row.status = "pending" /\ row.started = TRUE
    BY <2>2, <2>4 DEF Row
  <2>7. drain' = [drain EXCEPT ![d] = x] /\ run' = [q EXCEPT ![r] = row]
    BY <1>3, <2>1, <2>2 DEF Taken
  <2> HIDE DEF x, row
  <2>8. /\ drain' \in [Drains -> Execution]
        /\ \A e \in Drains : drain'[e] = IF e = d THEN x ELSE drain[e]
    BY <1>1, <2>5, <2>7
  <2>9. /\ run' \in [Runs -> Row]
        /\ \A s \in Runs : run'[s] = IF s = r THEN row ELSE q[s]
    BY <2>1, <2>2, <2>6, <2>7
  <2>10. TypeOK'
    <3>1. \A s \in Runs : s <= lastRun <=> run'[s].status # "none"
      BY <2>1, <2>2, <2>6, <2>9
    <3>2. \A e \in Drains : drain'[e].pc # "idle" =>
                            drain'[e].job \in 1 .. lastRun /\ drain'[e].take # 0
      BY <2>3, <2>4, <2>5, <2>8 DEF IInv, TypeOK, Busy, Job
    <3>3. QED
      BY <2>8, <2>9, <3>1, <3>2 DEF IInv, TypeOK, ClaimNextRun, stored, Busy, Job
  <2>11. AttemptLeft'
    <3>1. ASSUME NEW s \in Runs, run'[s].status = "pending", ~run'[s].started
          PROVE  run'[s].attempts < MAX_ATTEMPTS
      <4>1. s # r /\ run'[s] = q[s]
        BY <2>6, <2>9, <3>1
      <4>2. QED
        BY <2>1, <3>1, <4>1 DEF Queued, Pending
    <3>2. QED
      BY <3>1 DEF AttemptLeft, Queued, Pending
  <2>12. OutcomeKnown'
    BY <2>5, <2>8 DEF IInv, OutcomeKnown
  <2>13. QED
    BY <2>10, <2>11, <2>12 DEF IInv
<1>4. QED
  BY <1>2, <1>3 DEF ClaimNextRun

\* Actions that move drains and leave the rows alone.
LEMMA DrainIInv ==
    ASSUME IInv, UNCHANGED <<rows, asking>>, summary' \in [Runs -> Attempts], log' \in [Runs -> Attempts],
           drain' \in [Drains -> Execution],
           \A d \in Drains : drain'[d].pc # "idle" =>
                              drain'[d].job \in 1 .. lastRun /\ drain'[d].take # 0,
           OutcomeKnown'
    PROVE  IInv'
<1>1. TypeOK'
  BY DEF IInv, TypeOK, rows, Busy, Job
<1>2. AttemptLeft'
  BY DEF IInv, AttemptLeft, rows, Queued, Pending
<1>3. QED
  BY <1>1, <1>2 DEF IInv

LEMMA NextIInv == IInv /\ [Next]_vars => IInv'
<1> SUFFICES ASSUME IInv, [Next]_vars PROVE IInv'
  OBVIOUS
<1>0. /\ run \in [Runs -> Row] /\ drain \in [Drains -> Execution]
      /\ summary \in [Runs -> Attempts] /\ log \in [Runs -> Attempts]
      /\ asking \in [Clients -> SingleKeys \cup {NoKey}] /\ lastRun \in Nat
      /\ 0 \in Attempts /\ 0 \in 0 .. Patience
  BY ConstantTypes DEF IInv, TypeOK, Attempts
<1>00. ASSUME NEW d \in Drains, Busy(d)
       PROVE  Job(d) \in Runs /\ Job(d) \in 1 .. lastRun /\ drain[d].take # 0 /\ run[Job(d)].status # "none"
  BY <1>00, <1>0, ConstantTypes DEF IInv, TypeOK, Runs
<1>000. Idle \in Execution /\ Idle.pc = "idle"
  BY <1>0 DEF Idle, Execution
<1>1. CASE Tick
  <2>1. ASSUME NEW r \in Runs
        PROVE  run'[r] \in Row /\ run'[r].status = run[r].status /\ run'[r].started = run[r].started
               /\ run'[r].attempts = run[r].attempts
    <3>1. CASE r \in Running(run) /\ run[r].silence < Patience
      <4>1. run'[r] = [run[r] EXCEPT !.silence = run[r].silence + 1]
        BY <1>1, <3>1 DEF Tick
      <4>2. run[r] \in Row /\ run[r].silence + 1 \in 0 .. Patience
        BY <1>0, <3>1, ConstantTypes DEF Row
      <4>3. QED
        BY <4>1, <4>2 DEF Row
    <3>2. CASE ~(r \in Running(run) /\ run[r].silence < Patience)
      BY <1>0, <1>1, <3>2 DEF Tick
    <3>3. QED
      BY <3>1, <3>2
  <2>2. run' \in [Runs -> Row]
    BY <1>1, <2>1 DEF Tick
  <2>3. TypeOK'
    BY <1>1, <2>1, <2>2 DEF IInv, TypeOK, Tick, stored, Busy, Job
  <2>4. AttemptLeft'
    BY <2>1 DEF IInv, AttemptLeft, Queued, Pending
  <2>5. QED
    BY <1>1, <2>3, <2>4 DEF IInv, OutcomeKnown, Tick
<1>2. CASE ReadRuns
  BY <1>0, <1>2, ReapIInv DEF ReadRuns
<1>3. ASSUME NEW c \in Clients, NEW k \in SingleKeys, FindActiveRun(c, k)
      PROVE  IInv'
  <2>1. asking' \in [Clients -> SingleKeys \cup {NoKey}]
    BY <1>0, <1>3 DEF FindActiveRun
  <2>2. QED
    BY <1>3, <2>1, ReapIInv DEF FindActiveRun
<1>4. ASSUME NEW c \in Clients, CreateRun(c)
      PROVE  IInv'
  <2>1. asking[c] \in Keys /\ asking' \in [Clients -> SingleKeys \cup {NoKey}]
    BY <1>0, <1>4 DEF CreateRun, Keys
  <2>2. CASE run' = Inserted(Reaped(run), 1, asking[c]) /\ lastRun' = lastRun + 1
    <3>1. lastRun + 1 <= MaxRuns
      BY <1>0, <1>4, ConstantTypes DEF CreateRun
    <3>2. QED
      BY <1>4, <2>1, <2>2, <3>1, InsertIInv DEF CreateRun
  <2>3. CASE UNCHANGED rows
    BY <1>4, <2>1, <2>3 DEF CreateRun, IInv, TypeOK, AttemptLeft, OutcomeKnown, rows, stored,
                            Busy, Job, Queued, Pending
  <2>4. QED
    BY <1>4, <2>2, <2>3 DEF CreateRun
<1>5. ASSUME NEW k \in GroupKeys, CreateRunGroup(k)
      PROVE  IInv'
  <2>1. CASE run' = Reaped(run) /\ UNCHANGED lastRun
    BY <1>0, <1>5, <2>1, ReapIInv DEF CreateRunGroup
  <2>2. CASE run' = Inserted(Reaped(run), GroupSize, k) /\ lastRun' = lastRun + GroupSize
    BY <1>0, <1>5, <2>2, InsertIInv, ConstantTypes DEF CreateRunGroup, Keys
  <2>3. QED
    BY <1>5, <2>1, <2>2 DEF CreateRunGroup
<1>6. ASSUME NEW d \in Drains, ClaimNextRun(d)
      PROVE  IInv'
  BY <1>6, ClaimIInv
<1>7. ASSUME NEW d \in Drains, Beat(d)
      PROVE  IInv'
  <2> DEFINE row == [run[Job(d)] EXCEPT !.silence = 0]
  <2>1. Job(d) \in Runs /\ run[Job(d)].status # "none" /\ run[Job(d)].started
    BY <1>7 DEF Beat, Job, Running, Pending
  <2>2. row \in Row /\ row.status = run[Job(d)].status /\ row.started = run[Job(d)].started
    BY <1>0, <2>1 DEF Row
  <2>3. run' = [run EXCEPT ![Job(d)] = row]
    BY <1>0, <1>7, <2>1 DEF Beat, Job
  <2>4. OutcomeKnown' /\ drain' \in [Drains -> Execution]
    BY <1>0, <1>7 DEF IInv, OutcomeKnown, Beat
  <2>5. \A e \in Drains : drain'[e].pc # "idle" =>
                          drain'[e].job \in 1 .. lastRun /\ drain'[e].take # 0
    BY <1>7 DEF Beat, IInv, TypeOK, Busy, Job
  <2> HIDE DEF row
  <2>6. QED
    BY <1>7, <2>1, <2>2, <2>3, <2>4, <2>5, OneRowIInv DEF Beat
<1>8. ASSUME NEW d \in Drains, NEW o \in {"completed", "failed"}, EngineAnswers(d, o)
      PROVE  IInv'
  <2>1. drain' \in [Drains -> Execution]
    <3>1. drain[d] \in Execution /\ [drain[d] EXCEPT !.pc = "answered", !.outcome = o] \in Execution
      BY <1>0 DEF Execution
    <3>2. drain' = [drain EXCEPT ![d] = [drain[d] EXCEPT !.pc = "answered", !.outcome = o]]
      BY <1>0, <1>8 DEF EngineAnswers
    <3>3. QED
      BY <1>0, <3>1, <3>2
  <2>2. \A e \in Drains : drain'[e].pc # "idle" =>
                          drain'[e].job \in 1 .. lastRun /\ drain'[e].take # 0
    BY <1>0, <1>8, <1>00 DEF EngineAnswers, Busy, Job, Execution
  <2>3. OutcomeKnown'
    BY <1>0, <1>8 DEF EngineAnswers, IInv, OutcomeKnown, Execution
  <2>4. QED
    BY <1>0, <1>8, <2>1, <2>2, <2>3, DrainIInv DEF EngineAnswers, stored
<1>9. ASSUME NEW d \in Drains, LoadRun(d)
      PROVE  IInv'
  <2>1. drain' \in [Drains -> Execution]
    BY <1>0, <1>9, <1>000 DEF LoadRun, Execution
  <2>2. \A e \in Drains : drain'[e].pc # "idle" =>
                          drain'[e].job \in 1 .. lastRun /\ drain'[e].take # 0
    BY <1>0, <1>9, <1>00, <1>000 DEF LoadRun, Busy, Job, Execution
  <2>3. OutcomeKnown'
    BY <1>0, <1>9, <1>000 DEF LoadRun, IInv, OutcomeKnown, Execution
  <2>4. QED
    BY <1>0, <1>9, <2>1, <2>2, <2>3, DrainIInv DEF LoadRun, stored
<1>10. ASSUME NEW d \in Drains, WriteOutcome(d)
       PROVE  IInv'
  <2>0. Job(d) \in Runs /\ run[Job(d)] \in Row /\ run[Job(d)].status # "none" /\ drain[d].take \in Attempts
    BY <1>0, <1>10, <1>00 DEF WriteOutcome, Busy, Execution
  <2>1. drain' \in [Drains -> Execution]
    BY <1>0, <1>10, <1>000 DEF WriteOutcome, Execution
  <2>2. \A e \in Drains : drain'[e].pc # "idle" =>
                          drain'[e].job \in 1 .. lastRun /\ drain'[e].take # 0
    BY <1>0, <1>10, <1>00, <1>000 DEF WriteOutcome, Busy, Job, Execution
  <2>3. OutcomeKnown'
    BY <1>0, <1>10, <1>000 DEF WriteOutcome, IInv, OutcomeKnown, Execution
  <2> DEFINE done == [run[Job(d)] EXCEPT !.status = "completed", !.result = drain[d].take]
             dead == [run[Job(d)] EXCEPT !.status = "failed"]
  <2>4. done \in Row /\ done.status = "completed" /\ dead \in Row /\ dead.status = "failed"
    BY <2>0 DEF Row
  <2>5. run' = [run EXCEPT ![Job(d)] = done] \/ run' = [run EXCEPT ![Job(d)] = dead]
    BY <1>0, <1>10, <2>0 DEF WriteOutcome
  <2> HIDE DEF done, dead
  <2>6. UNCHANGED <<lastRun, stored, asking>>
    BY <1>10 DEF WriteOutcome
  <2>7. CASE run' = [run EXCEPT ![Job(d)] = done]
    BY <2>0, <2>1, <2>2, <2>3, <2>4, <2>6, <2>7, OneRowIInv
  <2>8. CASE run' = [run EXCEPT ![Job(d)] = dead]
    BY <2>0, <2>1, <2>2, <2>3, <2>4, <2>6, <2>8, OneRowIInv
  <2>9. QED
    BY <2>5, <2>7, <2>8
<1>11. ASSUME NEW d \in Drains, WriteSummary(d) \/ WriteLog(d) \/ Crash(d)
       PROVE  IInv'
  <2>0. Job(d) \in Runs /\ drain[d].take \in Attempts
    BY <1>0, <1>11, <1>00 DEF WriteSummary, WriteLog, Crash, Busy, Execution
  <2>1. drain' \in [Drains -> Execution]
    BY <1>0, <1>11, <1>000 DEF WriteSummary, WriteLog, Crash, Execution
  <2>2. \A e \in Drains : drain'[e].pc # "idle" =>
                          drain'[e].job \in 1 .. lastRun /\ drain'[e].take # 0
    BY <1>0, <1>11, <1>00, <1>000 DEF WriteSummary, WriteLog, Crash, Busy, Job, Execution
  <2>3. OutcomeKnown'
    BY <1>0, <1>11, <1>000 DEF WriteSummary, WriteLog, Crash, IInv, OutcomeKnown, Execution
  <2>4. summary' \in [Runs -> Attempts] /\ log' \in [Runs -> Attempts] /\ UNCHANGED <<rows, asking>>
    BY <1>0, <1>11, <2>0 DEF WriteSummary, WriteLog, Crash, stored
  <2>5. QED
    BY <2>1, <2>2, <2>3, <2>4, DrainIInv
<1>12. CASE UNCHANGED vars
  BY <1>12 DEF vars, IInv, TypeOK, AttemptLeft, OutcomeKnown, Busy, Job, Queued, Pending
<1>13. QED
  BY <1>1, <1>2, <1>3, <1>4, <1>5, <1>6, <1>7, <1>8, <1>9, <1>10, <1>11, <1>12 DEF Next, Deliver

\* The rows, the artifacts and the drains keep their types, ids are given in
\* order, and a busy drain works on a run that exists.
THEOREM TypeCorrect == Spec => []TypeOK
<1>1. IInv => TypeOK
  BY DEF IInv
<1>2. QED
  BY <1>1, InitIInv, NextIInv, PTL DEF Spec

-----------------------------------------------------------------------------
(* Capacity and backlog                                                    *)

\* The rows an insertion adds wait, and the others are left as they are.
LEMMA InsertedSets ==
    ASSUME IInv, NEW n \in Nat, NEW k
    PROVE  LET q == Reaped(run)
               new == Runs \cap (lastRun + 1 .. lastRun + n)
           IN  /\ Queued(Inserted(q, n, k)) = Queued(q) \cup new
               /\ Running(Inserted(q, n, k)) = Running(q)
               /\ Closed(Inserted(q, n, k)) = Closed(q)
               /\ new \cap (Queued(q) \cup Running(q) \cup Closed(q)) = {}
<1> DEFINE q == Reaped(run)
           p == Inserted(q, n, k)
           new == Runs \cap (lastRun + 1 .. lastRun + n)
<1>1. /\ NewRow(k).status = "pending" /\ NewRow(k).started = FALSE
  BY DEF NewRow, EmptyRow
<1>2. \A r \in Runs : p[r] = IF r \in new THEN NewRow(k) ELSE q[r]
  BY DEF Inserted
<1>3. \A r \in new : q[r].status = "none"
  <2>1. lastRun \in Nat /\ \A r \in Runs : r \in Nat
    BY ConstantTypes DEF IInv, TypeOK, Runs
  <2>2. \A r \in new : ~(r <= lastRun)
    BY <2>1
  <2>3. QED
    BY <2>2, ReapedFacts
<1> HIDE DEF p, q
<1>4. QED
  BY <1>1, <1>2, <1>3 DEF Queued, Running, Closed, Pending, p, q

\* Runs being executed become more only by a claim.
LEMMA RunningGrowsByClaim ==
    ASSUME IInv, [Next]_vars
    PROVE  \/ Running(run') \subseteq Running(run)
           \/ \E r \in Runs : /\ Running(run') \subseteq Running(Reaped(run)) \cup {r}
                             /\ HasPlace(Reaped(run))
<1>0. /\ run \in [Runs -> Row] /\ Running(Reaped(run)) \subseteq Running(run)
      /\ lastRun \in Nat
  BY ReapedSets, ConstantTypes DEF IInv, TypeOK
<1>1. CASE run' = Reaped(run) \/ run' = run
  BY <1>0, <1>1
<1>2. CASE Tick
  <2>1. ASSUME NEW r \in Runs
        PROVE  run'[r].status = run[r].status /\ run'[r].started = run[r].started
    BY <1>0, <1>2 DEF Tick, Row
  <2>2. QED
    BY <2>1 DEF Running, Pending
<1>3. ASSUME NEW n \in Nat, NEW k, run' = Inserted(Reaped(run), n, k)
      PROVE  Running(run') \subseteq Running(run)
  BY <1>0, <1>3, InsertedSets
<1>4. ASSUME NEW d \in Drains, NEW r \in Queued(Reaped(run)), HasPlace(Reaped(run)),
             run' = Taken(Reaped(run), r, d)
      PROVE  \E s \in Runs : /\ Running(run') \subseteq Running(Reaped(run)) \cup {s}
                             /\ HasPlace(Reaped(run))
  <2>1. r \in Runs /\ \A s \in Runs \ {r} : run'[s] = Reaped(run)[s]
    BY <1>4, ReapedFacts DEF Taken
  <2>2. Running(run') \subseteq Running(Reaped(run)) \cup {r}
    BY <2>1 DEF Running, Pending
  <2>3. QED
    BY <1>4, <2>1, <2>2
<1>5. ASSUME NEW d \in Drains, Beat(d) \/ WriteOutcome(d)
      PROVE  Running(run') \subseteq Running(run)
  <2>1. CASE Beat(d)
    <3>1. Job(d) \in Running(run)
      BY <2>1 DEF Beat, Job
    <3>2. \A s \in Runs \ {Job(d)} : run'[s] = run[s]
      BY <1>0, <2>1 DEF Beat, Job
    <3>3. QED
      BY <3>1, <3>2 DEF Running, Pending
  <2>2. CASE WriteOutcome(d)
    <3>1. \A s \in Runs \ {Job(d)} : run'[s] = run[s]
      BY <1>0, <2>2 DEF WriteOutcome, Job
    <3>2. Job(d) \in Runs => run'[Job(d)].status # "pending"
      BY <1>0, <2>2 DEF WriteOutcome, Job, Row
    <3>3. QED
      BY <3>1, <3>2 DEF Running, Pending
  <2>3. QED
    BY <1>5, <2>1, <2>2
<1>6. CASE \E d \in Drains : ClaimNextRun(d)
  BY <1>1, <1>4, <1>6 DEF ClaimNextRun
<1>7. CASE \E c \in Clients : CreateRun(c)
  BY <1>1, <1>3, <1>7 DEF CreateRun, rows
<1>8. CASE \E k \in GroupKeys : CreateRunGroup(k)
  BY <1>1, <1>3, <1>8, ConstantTypes DEF CreateRunGroup
<1>9. QED
  BY <1>1, <1>2, <1>5, <1>6, <1>7, <1>8
  DEF Next, vars, rows, ReadRuns, FindActiveRun, EngineAnswers, Deliver, LoadRun, WriteSummary,
      WriteLog, Crash

LEMMA CapacityStep == IInv /\ WithinCapacity /\ [Next]_vars => WithinCapacity'
<1> SUFFICES ASSUME IInv, WithinCapacity, [Next]_vars
             PROVE  Cardinality(Running(run')) <= MaxConcurrent
  BY DEF WithinCapacity, Running, Pending
<1>1. CASE Running(run') \subseteq Running(run)
  <2>1. Cardinality(Running(run')) <= Cardinality(Running(run))
    BY <1>1, PendingSplit, FS_Subset
  <2>2. QED
    BY <2>1, PendingSplit, ConstantTypes DEF WithinCapacity
<1>2. ASSUME NEW r \in Runs, Running(run') \subseteq Running(Reaped(run)) \cup {r},
             HasPlace(Reaped(run))
      PROVE  Cardinality(Running(run')) <= MaxConcurrent
  <2> DEFINE old == Running(Reaped(run))
  <2>1. IsFiniteSet(old) /\ Cardinality(old) \in Nat
    BY PendingSplit
  <2>2. /\ IsFiniteSet(old \cup {r})
        /\ Cardinality(old \cup {r}) = IF r \in old THEN Cardinality(old) ELSE Cardinality(old) + 1
    BY <2>1, FS_AddElement
  <2>3. Cardinality(Running(run')) <= Cardinality(old \cup {r})
    BY <1>2, <2>2, FS_Subset
  <2>4. Cardinality(old) < MaxConcurrent
    BY <1>2 DEF HasPlace
  <2>5. Cardinality(Running(run')) \in Nat
    BY PendingSplit
  <2> HIDE DEF old
  <2>6. QED
    BY <2>1, <2>2, <2>3, <2>4, <2>5, ConstantTypes
<1>3. QED
  BY <1>1, <1>2, RunningGrowsByClaim

LEMMA InitCapacity == Init => WithinCapacity
<1> SUFFICES ASSUME Init PROVE Cardinality(Running(run)) <= MaxConcurrent
  BY DEF WithinCapacity
<1>1. EmptyRow.status = "none"
  BY DEF EmptyRow
<1>2. Running(run) \subseteq LegacyRuns
  BY <1>1 DEF Init, Running, Pending
<1>3. IsFiniteSet(LegacyRuns) /\ Cardinality(LegacyRuns) = LegacyCount
  BY FS_Interval, ConstantTypes DEF LegacyRuns
<1>4. Cardinality(Running(run)) <= LegacyCount
  BY <1>2, <1>3, FS_Subset
<1>5. QED
  BY <1>4, PendingSplit, ConstantTypes, QueueAssumption

\* However many drains claim, and whatever is given back and claimed again, the
\* runs being executed never exceed simulation_max_concurrent_runs.
THEOREM CapacityRespected == Spec => []WithinCapacity
BY InitIInv, NextIInv, InitCapacity, CapacityStep, PTL DEF Spec

\* A run is written by at most one of the steps below: the rows after a step.
LEMMA StepShapes ==
    ASSUME IInv, [Next]_vars
    PROVE  \/ /\ Queued(run') = Queued(run) /\ Running(run') = Running(run)
              /\ Closed(run') = Closed(run)
           \/ run' = Reaped(run)
           \/ \E n \in Nat \ {0}, k \in Keys :
                 /\ run' = Inserted(Reaped(run), n, k)
                 /\ Room(Reaped(run), n)
                 /\ lastRun + n <= MaxRuns
           \/ \E d \in Drains, r \in Queued(Reaped(run)) :
                 /\ run' = Taken(Reaped(run), r, d)
                 /\ HasPlace(Reaped(run))
           \/ \E r \in Runs :
                 /\ r \in Pending(run) \cup Closed(run)
                 /\ Queued(run') = Queued(run) \ {r} /\ Running(run') = Running(run) \ {r}
                 /\ Closed(run') = Closed(run) \cup {r}
<1>0. run \in [Runs -> Row] /\ lastRun \in Nat
  BY ConstantTypes DEF IInv, TypeOK
<1>1. CASE Tick
  <2>1. ASSUME NEW r \in Runs
        PROVE  run'[r].status = run[r].status /\ run'[r].started = run[r].started
    BY <1>0, <1>1 DEF Tick, Row
  <2>2. QED
    BY <2>1 DEF Queued, Running, Closed, Pending
<1>2. ASSUME NEW d \in Drains, Beat(d)
      PROVE  /\ Queued(run') = Queued(run) /\ Running(run') = Running(run)
             /\ Closed(run') = Closed(run)
  <2>1. ASSUME NEW r \in Runs
        PROVE  run'[r].status = run[r].status /\ run'[r].started = run[r].started
    BY <1>0, <1>2 DEF Beat, Row
  <2>2. QED
    BY <2>1 DEF Queued, Running, Closed, Pending
<1>3. ASSUME NEW d \in Drains, WriteOutcome(d)
      PROVE  \E r \in Runs :
                 /\ r \in Pending(run) \cup Closed(run)
                 /\ Queued(run') = Queued(run) \ {r} /\ Running(run') = Running(run) \ {r}
                 /\ Closed(run') = Closed(run) \cup {r}
  <2>1. Job(d) \in Runs /\ run[Job(d)].status # "none"
    BY <1>0, <1>3, ConstantTypes DEF IInv, TypeOK, WriteOutcome, Busy, Runs
  <2>2. \A s \in Runs \ {Job(d)} : run'[s] = run[s]
    BY <1>0, <1>3 DEF WriteOutcome, Job
  <2>3. run'[Job(d)].status \in {"completed", "failed"}
    BY <1>0, <1>3, <2>1 DEF WriteOutcome, Job, Row
  <2>4. Job(d) \in Pending(run) \cup Closed(run)
    BY <1>0, <2>1 DEF Pending, Closed, Row
  <2>5. /\ Queued(run') = Queued(run) \ {Job(d)} /\ Running(run') = Running(run) \ {Job(d)}
        /\ Closed(run') = Closed(run) \cup {Job(d)}
    BY <2>1, <2>2, <2>3 DEF Queued, Running, Closed, Pending
  <2>6. QED
    BY <2>1, <2>4, <2>5
<1>4. ASSUME NEW d \in Drains, ClaimNextRun(d)
      PROVE  \/ run' = Reaped(run)
             \/ \E r \in Queued(Reaped(run)) :
                   run' = Taken(Reaped(run), r, d) /\ HasPlace(Reaped(run))
  BY <1>4 DEF ClaimNextRun
<1>5. ASSUME NEW c \in Clients, CreateRun(c), ~UNCHANGED run
      PROVE  \E n \in Nat \ {0}, k \in Keys :
                 /\ run' = Inserted(Reaped(run), n, k)
                 /\ Room(Reaped(run), n)
                 /\ lastRun + n <= MaxRuns
  <2>1. asking[c] \in Keys /\ 1 \in Nat \ {0} /\ lastRun + 1 <= MaxRuns
    BY <1>0, <1>5, ConstantTypes DEF CreateRun, IInv, TypeOK, Keys
  <2>2. QED
    BY <1>5, <2>1 DEF CreateRun, rows
<1>6. ASSUME NEW k \in GroupKeys, CreateRunGroup(k)
      PROVE  \/ run' = Reaped(run)
             \/ /\ run' = Inserted(Reaped(run), GroupSize, k)
                /\ Room(Reaped(run), GroupSize)
                /\ lastRun + GroupSize <= MaxRuns
  BY <1>6 DEF CreateRunGroup
<1>7. CASE UNCHANGED run
  BY <1>7
<1>8. QED
  BY <1>1, <1>2, <1>3, <1>4, <1>5, <1>6, <1>7, ConstantTypes
  DEF Next, vars, rows, ReadRuns, FindActiveRun, EngineAnswers, Deliver, LoadRun, WriteSummary,
      WriteLog, Crash, Keys

LEMMA BacklogStep ==
    IInv /\ WithinCapacity /\ BacklogBounded /\ [Next]_vars => BacklogBounded'
<1> SUFFICES ASSUME IInv, WithinCapacity, BacklogBounded, [Next]_vars
             PROVE  Cardinality(Pending(run')) <= MaxQueued + MaxConcurrent
  BY DEF BacklogBounded, Pending
<1>0. run \in [Runs -> Row]
  BY DEF IInv, TypeOK
<1>1. CASE Pending(run') \subseteq Pending(run)
  <2>1. Cardinality(Pending(run')) <= Cardinality(Pending(run))
    BY <1>1, PendingSplit, FS_Subset
  <2>2. QED
    BY <2>1, PendingSplit, ConstantTypes DEF BacklogBounded
<1>2. ASSUME NEW n \in Nat \ {0}, NEW k \in Keys, run' = Inserted(Reaped(run), n, k),
             Room(Reaped(run), n), lastRun + n <= MaxRuns
      PROVE  Cardinality(Pending(run')) <= MaxQueued + MaxConcurrent
  <2> DEFINE q == Reaped(run)
             new == Runs \cap (lastRun + 1 .. lastRun + n)
  <2>1. /\ Queued(run') = Queued(q) \cup new /\ Running(run') = Running(q)
        /\ Running(q) \subseteq Running(run)
    BY <1>0, <1>2, InsertedSets, ReapedSets
  <2>2. lastRun \in Nat /\ new = lastRun + 1 .. lastRun + n
    BY <1>2, ConstantTypes DEF IInv, TypeOK, Runs
  <2>3. IsFiniteSet(new) /\ Cardinality(new) = n
    BY <2>2, IntervalSize
  <2>4. /\ IsFiniteSet(Queued(q)) /\ Cardinality(Queued(q)) \in Nat
        /\ IsFiniteSet(Running(q)) /\ Cardinality(Running(q)) \in Nat
        /\ IsFiniteSet(Running(run)) /\ Cardinality(Running(run)) \in Nat
        /\ Cardinality(Pending(run')) \in Nat
    BY PendingSplit
  <2>5. Cardinality(Queued(q)) + n <= MaxQueued
    BY <1>2 DEF Room
  <2> HIDE DEF q, new
  <2>6. /\ IsFiniteSet(Queued(q) \cup new)
        /\ Cardinality(Queued(q) \cup new) =
             Cardinality(Queued(q)) + Cardinality(new) - Cardinality(Queued(q) \cap new)
    BY <2>3, <2>4, FS_Union
  <2>7. Cardinality(Queued(q) \cap new) \in Nat
    BY <2>3, FS_Intersection, FS_CardinalityType
  <2>8. Cardinality(Running(q)) <= MaxConcurrent
    <3>1. Cardinality(Running(q)) <= Cardinality(Running(run))
      BY <2>1, <2>4, FS_Subset
    <3>2. QED
      BY <2>4, <3>1, ConstantTypes DEF WithinCapacity
  <2>9. Pending(run') = (Queued(q) \cup new) \cup Running(q)
    BY <2>1, PendingSplit
  <2>10. Cardinality((Queued(q) \cup new) \cup Running(q)) =
           Cardinality(Queued(q) \cup new) + Cardinality(Running(q))
             - Cardinality((Queued(q) \cup new) \cap Running(q))
    BY <2>4, <2>6, FS_Union
  <2>11. Cardinality((Queued(q) \cup new) \cap Running(q)) \in Nat
    BY <2>4, <2>6, FS_Intersection, FS_CardinalityType
  <2>12. QED
    BY <2>3, <2>4, <2>5, <2>6, <2>7, <2>8, <2>9, <2>10, <2>11, ConstantTypes
<1>3. CASE run' = Reaped(run)
  BY <1>0, <1>1, <1>3, ReapedSets
<1>4. ASSUME NEW d \in Drains, NEW r \in Queued(Reaped(run)), run' = Taken(Reaped(run), r, d)
      PROVE  Pending(run') \subseteq Pending(run)
  <2>1. r \in Pending(Reaped(run))
    BY PendingSplit
  <2>2. \A s \in Runs \ {r} : run'[s] = Reaped(run)[s]
    BY <1>4, ReapedFacts DEF Taken
  <2>3. Pending(run') \subseteq Pending(Reaped(run))
    BY <2>1, <2>2 DEF Pending
  <2>4. QED
    BY <1>0, <2>3, ReapedSets
<1>5. ASSUME NEW r, Queued(run') \subseteq Queued(run), Running(run') \subseteq Running(run)
      PROVE  Pending(run') \subseteq Pending(run)
  BY <1>5, PendingSplit
<1>6. QED
  BY <1>1, <1>2, <1>3, <1>4, <1>5, StepShapes

LEMMA InitBacklog == Init => BacklogBounded
<1> SUFFICES ASSUME Init PROVE Cardinality(Pending(run)) <= MaxQueued + MaxConcurrent
  BY DEF BacklogBounded
<1>1. EmptyRow.status = "none"
  BY DEF EmptyRow
<1>2. Pending(run) \subseteq LegacyRuns
  BY <1>1 DEF Init, Pending
<1>3. IsFiniteSet(LegacyRuns) /\ Cardinality(LegacyRuns) = LegacyCount
  BY FS_Interval, ConstantTypes DEF LegacyRuns
<1>4. Cardinality(Pending(run)) <= LegacyCount
  BY <1>2, <1>3, FS_Subset
<1>5. QED
  BY <1>4, PendingSplit, ConstantTypes, QueueAssumption

\* Runs given back re-enter the queue without being admitted; the runs that wait
\* or are executed still never exceed the two limits together.
THEOREM BacklogRespected == Spec => []BacklogBounded
BY InitIInv, NextIInv, InitCapacity, CapacityStep, InitBacklog, BacklogStep, PTL DEF Spec

-----------------------------------------------------------------------------
(* The queue implements the scheduler                                      *)

\* The scheduler's own instance of FiniteSets defines the same operator.
LEMMA SchedulerCardinality == \A S : Scheduler!Cardinality(S) = Cardinality(S)
BY Zenon DEF Scheduler!Cardinality, Cardinality

LEMMA SchedulerInit == Init => Scheduler!Init
<1> SUFFICES ASSUME Init PROVE Scheduler!Init
  OBVIOUS
<1>1. /\ EmptyRow.status = "none" /\ LegacyRow.status = "pending" /\ LegacyRow.started = TRUE
  BY DEF EmptyRow, LegacyRow
<1>2. LegacyRuns \subseteq Runs
  BY ConstantTypes, QueueAssumption DEF LegacyRuns, Runs
<1>3. \A r \in Runs : run[r] = IF r \in LegacyRuns THEN LegacyRow ELSE EmptyRow
  BY DEF Init
<1>4. QED
  BY <1>1, <1>2, <1>3 DEF Scheduler!Init, Queued, Running, Closed, Pending

LEMMA SchedulerStep == IInv /\ WithinCapacity /\ [Next]_vars => [Scheduler!Next]_Scheduler!sched
<1> SUFFICES ASSUME IInv, WithinCapacity, [Next]_vars PROVE [Scheduler!Next]_Scheduler!sched
  OBVIOUS
<1> DEFINE q == Reaped(run)
           back == Back(run)
           dead == Dead(run)
<1>0. run \in [Runs -> Row]
  BY DEF IInv, TypeOK
<1>1. /\ Queued(run)' = Queued(run') /\ Running(run)' = Running(run') /\ Closed(run)' = Closed(run')
  BY DEF Queued, Running, Closed, Pending
<1>2. /\ back \in SUBSET Running(run) /\ dead \in SUBSET (Running(run) \ back)
      /\ Queued(q) = Queued(run) \cup back
      /\ Running(q) = Running(run) \ (back \cup dead)
      /\ Closed(q) = Closed(run) \cup dead
  BY <1>0, ReapedSets DEF Back, Dead
<1>3. CASE run' = q
  <2>1. Scheduler!Judge(back, dead)
    BY <1>1, <1>2, <1>3 DEF Scheduler!Judge
  <2>2. QED
    BY <1>2, <2>1 DEF Scheduler!Next
<1>4. ASSUME NEW n \in Nat \ {0}, NEW k \in Keys, run' = Inserted(q, n, k), Room(q, n),
             lastRun + n <= MaxRuns
      PROVE  Scheduler!Next
  <2> DEFINE new == Runs \cap (lastRun + 1 .. lastRun + n)
  <2>1. /\ Queued(run') = Queued(q) \cup new /\ Running(run') = Running(q)
        /\ Closed(run') = Closed(q)
        /\ new \cap (Queued(q) \cup Running(q) \cup Closed(q)) = {}
    BY <1>4, InsertedSets
  <2>2. lastRun \in Nat /\ new = lastRun + 1 .. lastRun + n
    BY <1>4, ConstantTypes DEF IInv, TypeOK, Runs
  <2>3. IsFiniteSet(new) /\ Cardinality(new) = n /\ lastRun + 1 \in new
    BY <2>2, IntervalSize
  <2>4. new \in (SUBSET Runs) \ {{}}
    BY <2>3
  <2>5. Cardinality(Queued(q) \cup new) <= MaxQueued
    <3>1. IsFiniteSet(Queued(q)) /\ Cardinality(Queued(q)) \in Nat
      BY PendingSplit
    <3>2. Cardinality(Queued(q)) + n <= MaxQueued
      BY <1>4 DEF Room
    <3> HIDE DEF q, new
    <3>3. Cardinality(Queued(q) \cup new) =
            Cardinality(Queued(q)) + Cardinality(new) - Cardinality(Queued(q) \cap new)
      BY <2>3, <3>1, FS_Union
    <3>4. Cardinality(Queued(q) \cap new) \in Nat
      BY <2>3, FS_Intersection, FS_CardinalityType
    <3>5. QED
      BY <2>3, <3>1, <3>2, <3>3, <3>4, ConstantTypes
  <2> HIDE DEF q, new, back, dead
  <2>6. new \cap (Queued(run) \cup Running(run) \cup Closed(run)) = {}
    BY <1>2, <2>1
  <2>7. Scheduler!Admit(back, dead, new)
    BY <1>1, <1>2, <2>1, <2>5, <2>6, SchedulerCardinality DEF Scheduler!Admit
  <2>8. QED
    BY <1>2, <2>4, <2>7 DEF Scheduler!Next
<1>5. ASSUME NEW d \in Drains, NEW r \in Queued(q), run' = Taken(q, r, d), HasPlace(q)
      PROVE  Scheduler!Next
  <2>1. /\ q \in [Runs -> Row] /\ r \in Runs /\ q[r].status = "pending"
    BY <1>5, ReapedFacts DEF Queued, Pending
  <2>2. \A s \in Runs \ {r} : run'[s] = q[s]
    BY <1>5, <2>1 DEF Taken
  <2>3. run'[r].status = "pending" /\ run'[r].started = TRUE
    <3>1. run'[r] = [q[r] EXCEPT !.started = TRUE, !.worker = d, !.silence = 0, !.attempts = @ + 1]
      BY <1>5, <2>1 DEF Taken
    <3>2. q[r] \in Row
      BY <2>1
    <3> HIDE DEF q
    <3>3. QED
      BY <2>1, <3>1, <3>2 DEF Row
  <2> HIDE DEF q, back, dead
  <2>4. /\ Queued(run') = Queued(q) \ {r} /\ Running(run') = Running(q) \cup {r}
        /\ Closed(run') = Closed(q)
    BY <2>1, <2>2, <2>3 DEF Queued, Running, Closed, Pending
  <2>5. Cardinality(Running(run')) <= MaxConcurrent
    BY CapacityStep, <1>1 DEF WithinCapacity
  <2>6. Scheduler!Start(back, dead, r)
    BY <1>1, <1>2, <1>5, <2>4, <2>5, SchedulerCardinality DEF Scheduler!Start
  <2>7. QED
    BY <1>2, <2>1, <2>6 DEF Scheduler!Next
<1>6. ASSUME NEW r \in Runs, r \in Pending(run) \cup Closed(run),
             Queued(run') = Queued(run) \ {r}, Running(run') = Running(run) \ {r},
             Closed(run') = Closed(run) \cup {r}
      PROVE  [Scheduler!Next]_Scheduler!sched
  <2>1. CASE r \in Pending(run)
    <3>1. Scheduler!End(r)
      BY <1>1, <1>6, <2>1, PendingSplit DEF Scheduler!End
    <3>2. QED
      BY <3>1 DEF Scheduler!Next
  <2>2. CASE r \in Closed(run)
    <3>1. r \notin Queued(run) /\ r \notin Running(run)
      BY <2>2 DEF Closed, Queued, Running, Pending
    <3>2. QED
      BY <1>1, <1>6, <2>2, <3>1 DEF Scheduler!sched
  <2>3. QED
    BY <1>6, <2>1, <2>2
<1>7. CASE /\ Queued(run') = Queued(run) /\ Running(run') = Running(run)
           /\ Closed(run') = Closed(run)
  BY <1>1, <1>7 DEF Scheduler!sched
<1>8. QED
  BY <1>3, <1>4, <1>5, <1>6, <1>7, StepShapes

\* No run is lost, none is in two places, one that is over is not executed again,
\* and places and admissions are respected: every behaviour of the queue is one
\* of SimulationScheduler.
THEOREM QueueImplementsScheduler == Spec => ImplementsScheduler
<1>1. ImplementsScheduler <=> Scheduler!Init /\ [][Scheduler!Next]_Scheduler!sched
  BY DEF ImplementsScheduler, Scheduler!Spec
<1>2. QED
  BY <1>1, InitIInv, NextIInv, InitCapacity, CapacityStep, SchedulerInit, SchedulerStep, PTL DEF Spec
-----------------------------------------------------------------------------
(* Who has the claim of a run                                              *)

\* A drain d takes run r.
Claims(d, r) ==
    /\ drain[d].pc = "idle"
    /\ r \in Queued(Reaped(run))
    /\ run' = Taken(Reaped(run), r, d)
    /\ drain' = [drain EXCEPT ![d] =
         [Idle EXCEPT !.pc = "engine", !.job = r, !.take = Reaped(run)[r].attempts + 1]]

\* No claim is of an attempt the row has not counted yet: this is why the next
\* claim is of an attempt that nobody has.
TakesCounted == \A d \in Drains : Busy(d) => drain[d].take <= run[Job(d)].attempts

OwnInv == TakesCounted /\ ClaimsAreExclusive /\ RowNamesLatestClaim

\* What a reaping leaves of a row: its attempts, and its executor if it goes on.
LEMMA ReapedRow ==
    ASSUME NEW q \in [Runs -> Row], NEW r \in Runs
    PROVE  /\ Reaped(q)[r].attempts = q[r].attempts
           /\ r \in Running(Reaped(q)) => r \in Running(q) /\ Reaped(q)[r].worker = q[r].worker
           /\ ~Stale(q, r) => Reaped(q)[r] = q[r]
<1>1. ~Stale(q, r) => Reaped(q)[r] = q[r]
  BY DEF Reaped
<1>2. r \in Running(Reaped(q)) => ~Stale(q, r)
  BY ReapedSets DEF Back, Dead, Stale
<1>3. Running(Reaped(q)) \subseteq Running(q)
  BY ReapedSets
<1>4. QED
  BY <1>1, <1>2, <1>3, ReapedRows

\* The row of a run that is there counts one attempt more and names a drain only
\* in the claim of that drain; a row that is written otherwise keeps its attempts,
\* its executor while it is executed, and its turn while it beats.
LEMMA RowStep ==
    ASSUME IInv, [Next]_vars, NEW r \in Runs, r <= lastRun
    PROVE  \/ /\ run'[r].attempts = run[r].attempts
              /\ r \in Running(run') => r \in Running(run) /\ run'[r].worker = run[r].worker
              /\ r \in Running(run) \ LegacyRuns /\ run[r].silence < MISSED_BEATS =>
                    run'[r].started
           \/ \E d \in Drains : Claims(d, r)
<1> DEFINE Same == /\ run'[r].attempts = run[r].attempts
                   /\ r \in Running(run') => r \in Running(run) /\ run'[r].worker = run[r].worker
                   /\ r \in Running(run) \ LegacyRuns /\ run[r].silence < MISSED_BEATS =>
                         run'[r].started
<1>0. run \in [Runs -> Row] /\ lastRun \in Nat /\ r \in Nat
  BY ConstantTypes DEF IInv, TypeOK, Runs
<1>1. ASSUME run'[r] = Reaped(run)[r]
      PROVE  Same
  <2>1. r \in Running(run') <=> r \in Running(Reaped(run))
    BY <1>1 DEF Running, Pending
  <2>2. CASE Stale(run, r)
    <3>1. r \in Running(run) /\ ~(r \notin LegacyRuns /\ run[r].silence < MISSED_BEATS)
      <4>1. run[r].silence \in Nat
        BY <1>0, ConstantTypes DEF Row
      <4>2. QED
        BY <2>2, <4>1, ConstantTypes DEF Stale
    <3>2. QED
      BY <1>0, <1>1, <2>1, <3>1, ReapedRow
  <2>3. CASE ~Stale(run, r)
    BY <1>0, <1>1, <2>1, <2>3, ReapedRow DEF Running
  <2>4. QED
    BY <2>2, <2>3
<1>2. ASSUME run'[r].attempts = run[r].attempts, run'[r].started = run[r].started,
             run'[r].worker = run[r].worker,
             run'[r].status = "pending" => run[r].status = "pending"
      PROVE  Same
  BY <1>2 DEF Running, Pending
<1>3. CASE Tick
  <2>1. CASE r \in Running(run) /\ run[r].silence < Patience
    <3>1. run'[r] = [run[r] EXCEPT !.silence = run[r].silence + 1]
      BY <1>3, <2>1 DEF Tick
    <3>2. QED
      BY <1>0, <1>2, <3>1 DEF Row
  <2>2. CASE ~(r \in Running(run) /\ run[r].silence < Patience)
    BY <1>2, <1>3, <2>2 DEF Tick
  <2>3. QED
    BY <2>1, <2>2
<1>4. ASSUME NEW n \in Nat, NEW k, run' = Inserted(Reaped(run), n, k)
      PROVE  Same
  <2>1. r \notin lastRun + 1 .. lastRun + n
    BY <1>0
  <2>2. run'[r] = Reaped(run)[r]
    BY <1>4, <2>1 DEF Inserted
  <2>3. QED
    BY <1>1, <2>2
<1>5. ASSUME NEW d \in Drains, ClaimNextRun(d)
      PROVE  Same \/ Claims(d, r)
  <2>1. CASE run' = Reaped(run)
    BY <1>1, <2>1
  <2>2. ASSUME NEW s \in Queued(Reaped(run)), Claims(d, s)
        PROVE  Same \/ Claims(d, r)
    <3>1. s # r => run'[r] = Reaped(run)[r]
      BY <1>0, <2>2, ReapedFacts DEF Claims, Taken
    <3>2. QED
      BY <1>1, <2>2, <3>1
  <2>3. QED
    BY <1>5, <2>1, <2>2 DEF ClaimNextRun, Claims
<1>6. ASSUME NEW d \in Drains, Beat(d)
      PROVE  Same
  <2>1. run'[r].attempts = run[r].attempts /\ run'[r].started = run[r].started
        /\ run'[r].worker = run[r].worker /\ run'[r].status = run[r].status
    BY <1>0, <1>6 DEF Beat, Row
  <2>2. QED
    BY <1>2, <2>1
<1>7. ASSUME NEW d \in Drains, WriteOutcome(d)
      PROVE  Same
  <2>1. run'[r].attempts = run[r].attempts /\ run'[r].started = run[r].started
        /\ run'[r].worker = run[r].worker
        /\ (run'[r].status = run[r].status \/ run'[r].status \in {"completed", "failed"})
    BY <1>0, <1>7 DEF WriteOutcome, Row
  <2>2. QED
    BY <1>2, <2>1
<1>8. CASE UNCHANGED run
  BY <1>2, <1>8
<1>9. CASE \E c \in Clients : CreateRun(c)
  BY <1>4, <1>8, <1>9 DEF CreateRun, rows
<1>10. CASE \E k \in GroupKeys : CreateRunGroup(k)
  BY <1>1, <1>4, <1>10, ConstantTypes DEF CreateRunGroup
<1>11. CASE ReadRuns \/ \E c \in Clients, k \in SingleKeys : FindActiveRun(c, k)
  BY <1>1, <1>11 DEF ReadRuns, FindActiveRun
<1>12. CASE \/ UNCHANGED vars
            \/ \E d \in Drains, o \in {"completed", "failed"} : EngineAnswers(d, o)
            \/ \E d \in Drains : LoadRun(d) \/ WriteSummary(d) \/ WriteLog(d) \/ Crash(d)
  BY <1>8, <1>12 DEF vars, rows, EngineAnswers, LoadRun, WriteSummary, WriteLog, Crash
<1>13. QED
  BY <1>3, <1>5, <1>6, <1>7, <1>9, <1>10, <1>11, <1>12 DEF Next, Deliver

\* A drain that is busy after a step is on the claim it had, or has just made it.
LEMMA DrainStep ==
    ASSUME IInv, [Next]_vars, NEW d \in Drains, drain'[d].pc # "idle"
    PROVE  \/ Busy(d) /\ drain'[d].job = drain[d].job /\ drain'[d].take = drain[d].take
           \/ \E r \in Runs : Claims(d, r)
<1> DEFINE Same == Busy(d) /\ drain'[d].job = drain[d].job /\ drain'[d].take = drain[d].take
<1>0. drain \in [Drains -> Execution] /\ Idle.pc = "idle"
  BY DEF IInv, TypeOK, Idle
<1>1. CASE UNCHANGED drain
  BY <1>1 DEF Busy
<1>2. ASSUME NEW e \in Drains, ClaimNextRun(e)
      PROVE  Same \/ \E r \in Runs : Claims(d, r)
  <2>1. ASSUME NEW r \in Queued(Reaped(run)), Claims(e, r)
        PROVE  Same \/ \E s \in Runs : Claims(d, s)
    <3>1. r \in Runs
      BY PendingSplit
    <3>2. CASE e = d
      BY <2>1, <3>1, <3>2
    <3>3. CASE e # d
      <4>1. drain'[d] = drain[d]
        BY <1>0, <2>1, <3>3 DEF Claims
      <4>2. QED
        BY <4>1 DEF Busy
    <3>4. QED
      BY <3>2, <3>3
  <2>2. QED
    BY <1>1, <1>2, <2>1 DEF ClaimNextRun, Claims
<1>3. ASSUME NEW e \in Drains,
             drain[e].pc # "idle",
             \/ drain' = [drain EXCEPT ![e] = Idle]
             \/ \E p \in {"answered", "writing", "summary", "log"} : drain' = [drain EXCEPT ![e].pc = p]
             \/ \E o \in {"completed", "failed"} :
                    drain' = [drain EXCEPT ![e].pc = "answered", ![e].outcome = o]
      PROVE  Same
  <2>1. drain[d] \in Execution /\ drain[e] \in Execution
    BY <1>0
  <2>2. CASE d # e
    <3>1. drain'[d] = drain[d]
      BY <1>0, <1>3, <2>2
    <3>2. QED
      BY <3>1 DEF Busy
  <2>3. CASE d = e
    BY <1>0, <1>3, <2>1, <2>3 DEF Busy, Execution
  <2>4. QED
    BY <2>2, <2>3
<1>4. ASSUME NEW e \in Drains, NEW o \in {"completed", "failed"}, EngineAnswers(e, o)
      PROVE  Same
  BY <1>3, <1>4 DEF EngineAnswers
<1>5. ASSUME NEW e \in Drains, Deliver(e)
      PROVE  Same
  BY <1>3, <1>5 DEF Deliver, LoadRun, WriteOutcome, WriteSummary, WriteLog
<1>6. ASSUME NEW e \in Drains, Crash(e)
      PROVE  Same
  BY <1>3, <1>6 DEF Crash, Busy
<1>7. CASE \/ UNCHANGED vars \/ Tick \/ ReadRuns
           \/ \E c \in Clients : CreateRun(c) \/ \E k \in SingleKeys : FindActiveRun(c, k)
           \/ \E k \in GroupKeys : CreateRunGroup(k)
           \/ \E e \in Drains : Beat(e)
  BY <1>1, <1>7 DEF vars, Tick, ReadRuns, FindActiveRun, CreateRun, CreateRunGroup, Beat
<1>8. QED
  BY <1>2, <1>4, <1>5, <1>6, <1>7 DEF Next

LEMMA InitOwn == Init => OwnInv
BY DEF Init, OwnInv, TakesCounted, ClaimsAreExclusive, RowNamesLatestClaim, Busy, Idle

LEMMA OwnStep == IInv /\ OwnInv /\ [Next]_vars => OwnInv'
<1> SUFFICES ASSUME IInv, OwnInv, [Next]_vars PROVE OwnInv'
  OBVIOUS
<1>0. /\ run \in [Runs -> Row] /\ drain \in [Drains -> Execution]
      /\ \A d \in Drains : Busy(d) => Job(d) \in Runs /\ Job(d) <= lastRun
      /\ \A r \in Runs : run[r].attempts \in Nat
      /\ \A d \in Drains : drain[d].take \in Nat
  <2>1. lastRun \in 0 .. MaxRuns /\ \A n \in 1 .. lastRun : n \in Runs /\ n <= lastRun
    BY ConstantTypes DEF IInv, TypeOK, Runs
  <2>2. QED
    BY <2>1, ConstantTypes DEF IInv, TypeOK, Row, Execution, Attempts
\* After a claim of r by d.
<1>1. ASSUME NEW d \in Drains, NEW r \in Runs, Claims(d, r)
      PROVE  /\ run'[r].attempts = run[r].attempts + 1 /\ run'[r].worker = d
             /\ drain'[d].pc # "idle" /\ drain'[d].job = r /\ drain'[d].take = run[r].attempts + 1
             /\ \A e \in Drains \ {d} : drain'[e] = drain[e]
             /\ \A s \in Runs \ {r} : run'[s] = Reaped(run)[s]
  <2>1. Reaped(run) \in [Runs -> Row] /\ Reaped(run)[r].attempts = run[r].attempts
    BY <1>0, ReapedRows
  <2>2. Reaped(run)[r] \in Row
    BY <2>1
  <2>3. run'[r] = [Reaped(run)[r] EXCEPT !.started = TRUE, !.worker = d, !.silence = 0,
                                          !.attempts = @ + 1]
    BY <1>1, <2>1 DEF Claims, Taken
  <2>4. run'[r].attempts = run[r].attempts + 1 /\ run'[r].worker = d
    <3> DEFINE q == Reaped(run)
    <3> HIDE DEF q
    <3>1. QED
      BY <2>1, <2>2, <2>3 DEF Row, q
  <2>5. \A s \in Runs \ {r} : run'[s] = Reaped(run)[s]
    BY <1>1, <2>1 DEF Claims, Taken
  <2>6. /\ drain'[d].pc # "idle" /\ drain'[d].job = r /\ drain'[d].take = run[r].attempts + 1
        /\ \A e \in Drains \ {d} : drain'[e] = drain[e]
    BY <1>0, <1>1, <2>1 DEF Claims, Idle
  <2>7. QED
    BY <2>4, <2>5, <2>6
\* A drain that keeps its claim, beside a row that may have been claimed anew.
<1>2. ASSUME NEW d \in Drains, Busy(d), drain'[d].job = drain[d].job, drain'[d].take = drain[d].take
      PROVE  /\ drain'[d].take <= run'[Job(d)].attempts
             /\ Job(d) \in Running(run') =>
                   (run'[Job(d)].worker = d <=> drain'[d].take = run'[Job(d)].attempts)
  <2>1. Job(d) \in Runs /\ Job(d) <= lastRun /\ drain[d].take <= run[Job(d)].attempts
        /\ run[Job(d)].attempts \in Nat /\ drain[d].take \in Nat
    BY <1>0, <1>2 DEF OwnInv, TakesCounted
  <2>2. ASSUME NEW e \in Drains, Claims(e, Job(d))
        PROVE  /\ drain'[d].take <= run'[Job(d)].attempts
               /\ ~(run'[Job(d)].worker = d) /\ ~(drain'[d].take = run'[Job(d)].attempts)
    <3>1. e # d
      BY <1>2, <2>2 DEF Claims, Busy
    <3>2. QED
      BY <1>1, <1>2, <2>1, <2>2, <3>1
  <2>3. CASE /\ run'[Job(d)].attempts = run[Job(d)].attempts
             /\ Job(d) \in Running(run') =>
                   Job(d) \in Running(run) /\ run'[Job(d)].worker = run[Job(d)].worker
    BY <1>2, <2>1, <2>3 DEF OwnInv, RowNamesLatestClaim
  <2>4. QED
    BY <2>1, <2>2, <2>3, RowStep
<1>3. ASSUME NEW d \in Drains, drain'[d].pc # "idle"
      PROVE  /\ drain'[d].take <= run'[drain'[d].job].attempts
             /\ drain'[d].job \in Running(run') =>
                   (run'[drain'[d].job].worker = d <=> drain'[d].take = run'[drain'[d].job].attempts)
  <2>1. CASE Busy(d) /\ drain'[d].job = drain[d].job /\ drain'[d].take = drain[d].take
    BY <1>2, <2>1 DEF Job
  <2>2. ASSUME NEW r \in Runs, Claims(d, r)
        PROVE  /\ drain'[d].take <= run'[drain'[d].job].attempts
               /\ run'[drain'[d].job].worker = d /\ drain'[d].take = run'[drain'[d].job].attempts
    BY <1>0, <1>1, <2>2
  <2>3. QED
    BY <1>3, <2>1, <2>2, DrainStep
<1>4. ASSUME NEW d \in Drains, NEW e \in Drains, d # e, drain'[d].pc # "idle", drain'[e].pc # "idle",
             drain'[d].job = drain'[e].job
      PROVE  drain'[d].take # drain'[e].take
  <2>1. ASSUME NEW x \in Drains, NEW y \in Drains, x # y, NEW r \in Runs, Claims(x, r),
               drain'[y].pc # "idle", drain'[y].job = r
        PROVE  drain'[y].take # drain'[x].take
    <3>1. drain'[y] = drain[y] /\ Busy(y) /\ Job(y) = r
      BY <1>1, <2>1 DEF Busy, Job
    <3>2. drain[y].take <= run[r].attempts /\ drain'[x].take = run[r].attempts + 1
      BY <1>1, <2>1, <3>1 DEF OwnInv, TakesCounted
    <3>3. QED
      BY <1>0, <3>1, <3>2
  <2>2. CASE \E r \in Runs : Claims(d, r)
    BY <1>1, <1>4, <2>1, <2>2
  <2>3. CASE \E r \in Runs : Claims(e, r)
    BY <1>1, <1>4, <2>1, <2>3
  <2>4. CASE /\ Busy(d) /\ drain'[d].job = drain[d].job /\ drain'[d].take = drain[d].take
             /\ Busy(e) /\ drain'[e].job = drain[e].job /\ drain'[e].take = drain[e].take
    BY <1>4, <2>4 DEF OwnInv, ClaimsAreExclusive, Job
  <2>5. QED
    BY <1>4, <2>2, <2>3, <2>4, DrainStep
<1>5. TakesCounted' /\ RowNamesLatestClaim'
  BY <1>3 DEF TakesCounted, RowNamesLatestClaim, Busy, Job, Running, Pending
<1>6. ClaimsAreExclusive'
  BY <1>4 DEF ClaimsAreExclusive, Busy, Job
<1>7. QED
  BY <1>5, <1>6 DEF OwnInv

\* A run has a second executor only because the first was given up for dead: two
\* drains never hold the same claim, for any number of drains, runs and attempts.
THEOREM ClaimsExclusive == Spec => []ClaimsAreExclusive
<1>1. OwnInv => ClaimsAreExclusive
  BY DEF OwnInv
<1>2. QED
  BY <1>1, InitIInv, NextIInv, InitOwn, OwnStep, PTL DEF Spec

\* While a run is executed, worker_id tells the drain of its latest claim from all
\* the drains that had it before and may still be writing.
THEOREM LatestClaimNamed == Spec => []RowNamesLatestClaim
<1>1. OwnInv => RowNamesLatestClaim
  BY DEF OwnInv
<1>2. QED
  BY <1>1, InitIInv, NextIInv, InitOwn, OwnStep, PTL DEF Spec

\* No step gives back, claims again or reinserts a run whose executor has beaten
\* within MISSED_BEATS intervals, whatever the other drains and clients do.
THEOREM BeatingKept == Spec => BeatingRunIsKept
<1>1. ASSUME IInv, [Next]_vars
      PROVE  [\A r \in Running(run) \ LegacyRuns :
                 run[r].silence < MISSED_BEATS =>
                     run'[r].started /\ run'[r].attempts = run[r].attempts]_vars
  <2> SUFFICES ASSUME NEW r \in Running(run) \ LegacyRuns, run[r].silence < MISSED_BEATS
               PROVE  run'[r].started /\ run'[r].attempts = run[r].attempts
    OBVIOUS
  <2>1. r \in Runs /\ r <= lastRun
    BY <1>1 DEF Running, Pending, IInv, TypeOK
  <2>2. run \in [Runs -> Row] /\ run[r].silence \in Nat
    BY <1>1, <2>1, ConstantTypes DEF IInv, TypeOK, Row
  <2>3. ~Stale(run, r)
    BY <2>2, ConstantTypes DEF Stale
  <2>4. r \notin Queued(Reaped(run))
    BY <2>2, <2>3, ReapedSets DEF Back, Queued, Running
  <2>5. QED
    BY <1>1, <2>1, <2>4, RowStep DEF Claims
<1>2. QED
  BY <1>1, InitIInv, NextIInv, PTL DEF Spec, BeatingRunIsKept
-----------------------------------------------------------------------------
(* KPIs and event log                                                      *)

Storing(d) == drain[d].pc \in {"summary", "log"}

\* What keeps the KPIs of a run beside its result while a late executor stores
\* them: the result is there from before the two transactions until after them,
\* and a row that does not exist yet has none.
StoringInv ==
    /\ KpisFollowAResult
    /\ \A d \in Drains : Storing(d) => run[Job(d)].result # 0
    /\ \A r \in Runs : run[r].result # 0 => run[r].status # "none"

\* A row keeps its result and becomes completed only with one, or is new.
LEMMA ResultStep ==
    ASSUME IInv, [Next]_vars, NEW r \in Runs
    PROVE  \/ /\ run'[r].result = run[r].result
              /\ run'[r].status = "completed" => run[r].status = "completed"
              /\ run'[r].status = "none" => run[r].status = "none"
           \/ (run[r].status = "none" /\ run'[r].status = "pending" /\ run'[r].result = 0)
           \/ (run'[r].result # 0 /\ run'[r].status # "none")
<1> DEFINE Kept == /\ run'[r].result = run[r].result
                   /\ run'[r].status = "completed" => run[r].status = "completed"
                   /\ run'[r].status = "none" => run[r].status = "none"
           New  == run[r].status = "none" /\ run'[r].status = "pending" /\ run'[r].result = 0
<1>0. run \in [Runs -> Row] /\ lastRun \in Nat /\ run[r] \in Row
      /\ (~(r <= lastRun) => run[r].status = "none")
  BY ConstantTypes DEF IInv, TypeOK, Runs
<1>1. ASSUME run'[r] = Reaped(run)[r]
      PROVE  Kept
  BY <1>0, <1>1 DEF Reaped, Row
<1>2. ASSUME NEW n \in Nat, NEW k, run' = Inserted(Reaped(run), n, k)
      PROVE  Kept \/ New
  <2>1. CASE r \in lastRun + 1 .. lastRun + n
    <3>1. run'[r] = NewRow(k) /\ ~(r <= lastRun)
      BY <1>0, <1>2, <2>1 DEF Inserted
    <3>2. QED
      BY <1>0, <3>1 DEF NewRow, EmptyRow
  <2>2. CASE ~(r \in lastRun + 1 .. lastRun + n)
    BY <1>1, <1>2, <2>2 DEF Inserted
  <2>3. QED
    BY <2>1, <2>2
<1>3. ASSUME NEW d \in Drains, ClaimNextRun(d)
      PROVE  Kept
  <2>1. CASE run' = Reaped(run)
    BY <1>1, <2>1
  <2>2. ASSUME NEW s \in Queued(Reaped(run)), run' = Taken(Reaped(run), s, d)
        PROVE  Kept
    <3>1. Reaped(run) \in [Runs -> Row] /\ Reaped(run)[r] \in Row
      BY <1>0, ReapedRows
    <3>2. CASE s # r
      <4>1. run'[r] = Reaped(run)[r]
        BY <2>2, <3>1, <3>2 DEF Taken
      <4>2. QED
        BY <1>1, <4>1
    <3>3. CASE s = r
      <4>1. run'[r].result = Reaped(run)[r].result /\ run'[r].status = Reaped(run)[r].status
        BY <2>2, <3>1, <3>3 DEF Taken, Row
      <4>2. QED
        BY <1>0, <4>1 DEF Reaped, Row
    <3>4. QED
      BY <3>2, <3>3
  <2>3. QED
    BY <1>3, <2>1, <2>2 DEF ClaimNextRun
<1>4. ASSUME NEW d \in Drains, WriteOutcome(d)
      PROVE  Kept \/ (run'[r].result # 0 /\ run'[r].status # "none")
  <2>1. drain[d].take # 0
    BY <1>4 DEF IInv, TypeOK, WriteOutcome, Busy
  <2>2. QED
    BY <1>0, <1>4, <2>1 DEF WriteOutcome, Row
<1>5. CASE Tick \/ \E d \in Drains : Beat(d)
  BY <1>0, <1>5 DEF Tick, Beat, Row
<1>6. CASE UNCHANGED run
  BY <1>6
<1>7. CASE \E c \in Clients : CreateRun(c)
  BY <1>2, <1>6, <1>7 DEF CreateRun, rows
<1>8. CASE \E k \in GroupKeys : CreateRunGroup(k)
  BY <1>1, <1>2, <1>8, ConstantTypes DEF CreateRunGroup
<1>9. CASE ReadRuns \/ \E c \in Clients, k \in SingleKeys : FindActiveRun(c, k)
  BY <1>1, <1>9 DEF ReadRuns, FindActiveRun
<1>10. CASE \/ UNCHANGED vars
            \/ \E d \in Drains, o \in {"completed", "failed"} : EngineAnswers(d, o)
            \/ \E d \in Drains : LoadRun(d) \/ WriteSummary(d) \/ WriteLog(d) \/ Crash(d)
  BY <1>6, <1>10 DEF vars, rows, EngineAnswers, LoadRun, WriteSummary, WriteLog, Crash
<1>11. QED
  BY <1>3, <1>4, <1>5, <1>7, <1>8, <1>9, <1>10 DEF Next, Deliver

\* KPIs and event log are written only by a drain that is storing them.
LEMMA ArtifactStep ==
    ASSUME IInv, [Next]_vars, NEW r \in Runs, summary'[r] # 0 \/ log'[r] # 0
    PROVE  \/ summary[r] # 0 \/ log[r] # 0
           \/ \E d \in Drains : Storing(d) /\ Job(d) = r
<1>0. summary \in [Runs -> Attempts] /\ log \in [Runs -> Attempts]
  BY DEF IInv, TypeOK
<1>1. ASSUME NEW d \in Drains, WriteSummary(d) \/ WriteLog(d)
      PROVE  \/ summary[r] # 0 \/ log[r] # 0
             \/ Storing(d) /\ Job(d) = r
  BY <1>0, <1>1 DEF WriteSummary, WriteLog, Storing
<1>2. CASE UNCHANGED stored
  BY <1>2 DEF stored
<1>3. CASE UNCHANGED vars
  BY <1>2, <1>3 DEF vars, stored
<1>4. QED
  BY <1>1, <1>2, <1>3
  DEF Next, Deliver, Tick, ReadRuns, FindActiveRun, CreateRun, CreateRunGroup, ClaimNextRun,
      Beat, EngineAnswers, LoadRun, WriteOutcome, Crash

\* A drain comes to store KPIs by an accepted outcome, or by finding one.
LEMMA StoringStep ==
    ASSUME IInv, [Next]_vars, NEW d \in Drains, drain'[d].pc \in {"summary", "log"}
    PROVE  /\ Busy(d) /\ drain'[d].job = Job(d)
           /\ \/ Storing(d) \/ run[Job(d)].status = "completed"
              \/ run'[Job(d)].result # 0
<1> DEFINE Good == /\ Busy(d) /\ drain'[d].job = Job(d)
                   /\ \/ Storing(d) \/ run[Job(d)].status = "completed"
                      \/ run'[Job(d)].result # 0
<1>0. /\ drain \in [Drains -> Execution] /\ run \in [Runs -> Row] /\ drain[d] \in Execution
      /\ Idle.pc = "idle"
      /\ \A e \in Drains : Busy(e) => Job(e) \in Runs /\ drain[e].take # 0
  <2>1. lastRun \in 0 .. MaxRuns /\ \A n \in 1 .. lastRun : n \in Runs
    BY ConstantTypes DEF IInv, TypeOK, Runs
  <2>2. QED
    BY <2>1 DEF IInv, TypeOK, Idle
<1>1. CASE UNCHANGED drain
  BY <1>1 DEF Busy, Storing, Job
<1>2. ASSUME NEW e \in Drains, e # d, NEW x, drain' = [drain EXCEPT ![e] = x]
      PROVE  Good
  <2>1. drain'[d] = drain[d]
    BY <1>0, <1>2
  <2>2. QED
    BY <2>1 DEF Busy, Storing, Job
<1>3. ASSUME NEW e \in Drains, ClaimNextRun(e)
      PROVE  Good
  <2>1. CASE UNCHANGED drain
    BY <1>1, <2>1
  <2>2. ASSUME NEW r, NEW t, drain' = [drain EXCEPT ![e] =
                   [Idle EXCEPT !.pc = "engine", !.job = r, !.take = t]]
        PROVE  Good
    <3>1. CASE e = d
      BY <1>0, <2>2, <3>1 DEF Idle
    <3>2. QED
      BY <1>2, <2>2, <3>1
  <2>3. QED
    BY <1>3, <2>1, <2>2 DEF ClaimNextRun
<1>4. ASSUME NEW e \in Drains, NEW o \in {"completed", "failed"}, EngineAnswers(e, o)
      PROVE  Good
  <2>1. e # d
    BY <1>0, <1>4 DEF EngineAnswers, Execution
  <2>2. drain'[d] = drain[d]
    BY <1>0, <1>4, <2>1 DEF EngineAnswers
  <2>3. QED
    BY <2>2 DEF Busy, Storing, Job
<1>5. ASSUME NEW e \in Drains, Deliver(e) \/ Crash(e)
      PROVE  Good
  <2>1. CASE e = d
    <3>1. Busy(d)
      BY <1>5, <2>1 DEF Deliver, LoadRun, WriteOutcome, WriteSummary, WriteLog, Crash, Busy
    <3>2. CASE WriteOutcome(d)
      BY <1>0, <3>1, <3>2 DEF WriteOutcome, Execution, Row, Job
    <3>3. CASE LoadRun(d)
      BY <1>0, <3>1, <3>3 DEF LoadRun, Execution, Job
    <3>4. CASE WriteSummary(d) \/ WriteLog(d) \/ Crash(d)
      BY <1>0, <3>1, <3>4 DEF WriteSummary, WriteLog, Crash, Storing, Execution, Job
    <3>5. QED
      BY <1>5, <2>1, <3>2, <3>3, <3>4 DEF Deliver
  <2>2. CASE e # d
    <3>1. drain'[d] = drain[d]
      BY <1>0, <1>5, <2>2 DEF Deliver, LoadRun, WriteOutcome, WriteSummary, WriteLog, Crash
    <3>2. QED
      BY <3>1 DEF Busy, Storing, Job
  <2>3. QED
    BY <2>1, <2>2
<1>6. CASE UNCHANGED vars
  BY <1>1, <1>6 DEF vars
<1>7. QED
  BY <1>1, <1>3, <1>4, <1>5, <1>6
  DEF Next, Tick, ReadRuns, FindActiveRun, CreateRun, CreateRunGroup, Beat

LEMMA InitStoring == Init => StoringInv
BY DEF Init, StoringInv, KpisFollowAResult, Storing, Idle, LegacyRow, EmptyRow

LEMMA StoringInvStep == IInv /\ StoringInv /\ [Next]_vars => StoringInv'
<1> SUFFICES ASSUME IInv, StoringInv, [Next]_vars PROVE StoringInv'
  OBVIOUS
<1>0. \A d \in Drains : Busy(d) => Job(d) \in Runs /\ run[Job(d)].status # "none"
  <2>1. lastRun \in 0 .. MaxRuns /\ \A n \in 1 .. lastRun : n \in Runs /\ n <= lastRun
    BY ConstantTypes DEF IInv, TypeOK, Runs
  <2>2. QED
    BY <2>1 DEF IInv, TypeOK
<1>1. \A d \in Drains : Storing(d) => Busy(d)
  BY DEF Storing, Busy
\* A result that is there stays.
<1>2. ASSUME NEW r \in Runs, run[r].result # 0
      PROVE  run'[r].result # 0
  BY <1>2, ResultStep DEF StoringInv
<1>3. ASSUME NEW r \in Runs,
             run'[r].status = "completed" \/ summary'[r] # 0 \/ log'[r] # 0
      PROVE  run'[r].result # 0
  <2>1. CASE run'[r].status = "completed"
    BY <2>1, <1>2, ResultStep DEF StoringInv, KpisFollowAResult
  <2>2. CASE summary'[r] # 0 \/ log'[r] # 0
    <3>1. run[r].result # 0
      BY <2>2, ArtifactStep DEF StoringInv, KpisFollowAResult
    <3>2. QED
      BY <3>1, <1>2
  <2>3. QED
    BY <1>3, <2>1, <2>2
<1>4. ASSUME NEW d \in Drains, drain'[d].pc \in {"summary", "log"}
      PROVE  run'[drain'[d].job].result # 0
  <2>1. Busy(d) /\ drain'[d].job = Job(d) /\ Job(d) \in Runs
    BY <1>0, <1>4, StoringStep
  <2>2. CASE Storing(d) \/ run[Job(d)].status = "completed"
    <3>1. run[Job(d)].result # 0
      BY <2>1, <2>2 DEF StoringInv, KpisFollowAResult
    <3>2. QED
      BY <1>2, <2>1, <3>1
  <2>3. QED
    BY <1>4, <2>1, <2>2, StoringStep
<1>5. ASSUME NEW r \in Runs, run'[r].result # 0
      PROVE  run'[r].status # "none"
  BY <1>5, ResultStep DEF StoringInv
<1>6. QED
  BY <1>3, <1>4, <1>5 DEF StoringInv, KpisFollowAResult, Storing, Job

\* No run has KPIs or an event log, or says it is completed, without the result of
\* an executor whose outcome was accepted, however late the executors that store
\* them are and whichever of two concurrent outcomes is written last.
THEOREM KpisFollowResults == Spec => []KpisFollowAResult
<1>1. StoringInv => KpisFollowAResult
  BY DEF StoringInv
<1>2. QED
  BY <1>1, InitIInv, NextIInv, InitStoring, StoringInvStep, PTL DEF Spec
=============================================================================
