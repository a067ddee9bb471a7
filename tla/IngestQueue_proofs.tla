--------------------------- MODULE IngestQueue_proofs ---------------------------
(***************************************************************************)
(* Proofs about IngestQueue, for any jobs, workers, batch and limit of     *)
(* attempts.                                                               *)
(*                                                                         *)
(* WrittenOnce counts, for each job, the writes that may still come: one   *)
(* if its row is pending, and one for each worker that holds the job and   *)
(* has not written it (Budget).  Copies and writes to come are never more  *)
(* than one plus what was excused, since a claim only passes a write from  *)
(* the row to a worker and a failure only passes it back.                  *)
(***************************************************************************)
EXTENDS IngestQueue, FiniteSetTheorems, TLAPS

-----------------------------------------------------------------------------
(* Types                                                                   *)

\* What the deletion leaves of each package is a number of the copies written since
\* it began.
LEMMA RemaindersAreLate ==
    ASSUME late \in [Jobs -> Nat], NEW left \in Remainders
    PROVE  left \in [Jobs -> Nat] /\ \A j \in Jobs : left[j] <= late[j]
<1>1. \A j \in Jobs : left[j] \in Nat
  BY DEF Remainders
<1> QED BY <1>1 DEF Remainders

\* The types of every variable, for any jobs, workers and limit of attempts.
THEOREM TypeCorrect == Spec => []TypeOK
<1>1. Init => TypeOK
  <2>1. 0 \in 0 .. MAX_ATTEMPTS
    BY IngestAssumption
  <2>2. Init => /\ status \in [Jobs -> Statuses] /\ attempts \in [Jobs -> 0 .. MAX_ATTEMPTS]
                /\ held \in [Workers -> [Jobs -> Steps]]
                /\ evidence \in [Jobs -> Nat] /\ excused \in [Jobs -> Nat]
    BY <2>1 DEF Init, Statuses, Active, Steps
  <2>3. Init => /\ process \in BOOLEAN /\ erasure \in {"idle", "erasing", "purged"}
                /\ swept \subseteq Jobs /\ removed \subseteq Jobs /\ late \in [Jobs -> Nat]
    BY DEF Init
  <2> QED BY <2>2, <2>3 DEF TypeOK
<1>2. TypeOK /\ [Next]_vars => TypeOK'
  <2> SUFFICES ASSUME TypeOK, [Next]_vars PROVE TypeOK'
    OBVIOUS
  <2> USE DEF TypeOK, Statuses, Steps, Active, eraseVars
  <2>1. CASE \E j \in Jobs : Enqueue(j) \/ Prune(j)
    BY <2>1 DEF Enqueue, Prune, Is
  <2>2. CASE \E stuck \in SUBSET Jobs : RequeueStuck(stuck)
    BY <2>2 DEF RequeueStuck
  <2>3. ASSUME NEW w \in Workers, Claim(w) PROVE TypeOK'
    <3>1. \A j \in Batched : attempts[j] + 1 \in 0 .. MAX_ATTEMPTS
      BY IngestAssumption DEF Batched, Claimable
    <3>2. attempts' \in [Jobs -> 0 .. MAX_ATTEMPTS]
      BY <2>3, <3>1 DEF Claim
    <3> QED BY <2>3, <3>2 DEF Claim
  <2>4. ASSUME NEW w \in Workers, NEW j \in Jobs, HandleJob(w, j) PROVE TypeOK'
    <3>1. CASE WriteEvidence(w, j)
      BY <3>1 DEF WriteEvidence, Writes, Copied, Put
    <3>2. CASE WriteFails(w, j)
      BY <3>2 DEF WriteFails, Put
    <3>3. CASE AnswerLost(w, j)
      BY <3>3 DEF AnswerLost, Writes, Copied, Put
    <3>4. CASE Finish(w, j)
      BY <3>4 DEF Finish, Is, Put
    <3>5. CASE FinishFails(w, j)
      BY <3>5 DEF FinishFails, Put
    <3>6. CASE Fail(w, j)
      BY <3>6 DEF Fail, AfterFailure, Is, Put
    <3> QED BY <2>4, <3>1, <3>2, <3>3, <3>4, <3>5, <3>6 DEF HandleJob
  <2>5. ASSUME NEW w \in Workers, Abandon(w) PROVE TypeOK'
    BY <2>5 DEF Abandon
  <2>6. CASE BeginErase
    BY <2>6 DEF BeginErase
  <2>7. CASE CommitErase
    <3>1. \A left \in Remainders : left \in [Jobs -> Nat]
      BY RemaindersAreLate
    <3> QED BY <2>7, <3>1 DEF CommitErase
  <2>8. CASE DeleteProcess
    BY <2>8 DEF DeleteProcess
  <2>9. CASE ErasureFails
    BY <2>9 DEF ErasureFails
  <2>10. CASE UNCHANGED vars
    BY <2>10 DEF vars
  <2> QED BY <2>1, <2>2, <2>3, <2>4, <2>5, <2>6, <2>7, <2>8, <2>9, <2>10 DEF Next, Work, Erase
<1> QED BY <1>1, <1>2, PTL DEF Spec

-----------------------------------------------------------------------------
(* What a done job and a deleted process have in the tables                *)

\* A worker that has written a package finds it there, its row gone, or the package
\* taken by a deletion.
Witnessed == \A w \in Workers, j \in Jobs :
    held[w][j] = "written" => evidence[j] > 0 \/ status[j] = "gone" \/ j \in removed

\* What is there between the two transactions of the deletion was written since it
\* began.
Purged == erasure = "purged" => \A j \in Jobs : evidence[j] <= late[j]

\* What was written since a deletion began is there while its first transaction is
\* open; before that nothing counts as written since.
LateIsThere ==
    /\ erasure = "idle" /\ process => \A j \in Jobs : late[j] = 0
    /\ erasure = "erasing" => \A j \in Jobs : late[j] <= evidence[j]

\* Nobody is deleting a process that is gone.
DeletedOnce == ~process => erasure = "idle"

\* A job that is not queued yet is nobody's.
NewIsFree == \A w \in Workers, j \in Jobs : status[j] = "new" => held[w][j] = "none"

Tables == /\ NewIsFree /\ Witnessed /\ DoneIsWritten
          /\ Purged /\ LateIsThere /\ DeletedOnce /\ ErasureIsComplete

LEMMA TablesHold == Spec => []Tables
<1>1. Init => Tables
  BY DEF Init, Tables, NewIsFree, Witnessed, DoneIsWritten, Purged, LateIsThere, DeletedOnce,
              ErasureIsComplete
<1>2. TypeOK /\ Tables /\ [Next]_vars => Tables'
  <2> SUFFICES ASSUME TypeOK, Tables, [Next]_vars PROVE Tables'
    OBVIOUS
  <2> USE DEF TypeOK, Tables, NewIsFree, Witnessed, DoneIsWritten, Purged, LateIsThere, DeletedOnce,
              ErasureIsComplete,
              eraseVars
  <2>1. CASE \E j \in Jobs : Enqueue(j) \/ Prune(j)
    BY <2>1 DEF Enqueue, Prune, Is
  <2>2. CASE \E stuck \in SUBSET Jobs : RequeueStuck(stuck)
    BY <2>2 DEF RequeueStuck, LooksStuck
  <2>3. ASSUME NEW w \in Workers, Claim(w) PROVE Tables'
    BY <2>3 DEF Claim, Batched, Claimable
  <2>4. ASSUME NEW w \in Workers, NEW j \in Jobs, HandleJob(w, j) PROVE Tables'
    <3>1. ASSUME Takes(w, j), Writes(j),
                 Put(w, j, "written") \/ Put(w, j, "failing"),
                 UNCHANGED <<status, eraseVars>>
          PROVE  Tables'
      <4>1. \A i \in Jobs : evidence'[i] >= evidence[i] /\ evidence'[i] \in Nat
        BY <3>1 DEF Writes, Copied
      <4>2. evidence'[j] > 0
        BY <3>1 DEF Writes, Copied
      <4>3. Witnessed'
        <5>1. \A v \in Workers, i \in Jobs : held'[v][i] = held[v][i] \/ (v = w /\ i = j)
          BY <3>1 DEF Put
        <5> QED BY <3>1, <4>1, <4>2, <5>1
      <4>4. DoneIsWritten'
        BY <3>1, <4>1
      <4>5. Purged' /\ LateIsThere' /\ DeletedOnce' /\ ErasureIsComplete'
        <5>1. erasure # "idle" =>
                \A i \in Jobs : evidence'[i] = evidence[i] + (IF i = j THEN 1 ELSE 0)
                             /\ late'[i] = late[i] + (IF i = j THEN 1 ELSE 0)
          BY <3>1 DEF Writes, Copied
        <5>2. process
          BY <3>1 DEF Writes
        <5>3. erasure = "idle" => late' = late
          BY <3>1 DEF Writes
        <5> QED BY <3>1, <5>1, <5>2, <5>3
      <4>6. NewIsFree'
        <5>1. status[j] # "new"
          BY <3>1 DEF Takes
        <5>2. \A v \in Workers, i \in Jobs : held'[v][i] = held[v][i] \/ (v = w /\ i = j)
          BY <3>1 DEF Put
        <5> QED BY <3>1, <5>1, <5>2
      <4> QED BY <4>3, <4>4, <4>5, <4>6
    <3>2. CASE WriteEvidence(w, j)
      BY <3>1, <3>2 DEF WriteEvidence
    <3>3. CASE AnswerLost(w, j)
      BY <3>1, <3>3 DEF AnswerLost
    <3>4. CASE WriteFails(w, j)
      BY <3>4 DEF WriteFails, Takes, Put
    <3>5. CASE Finish(w, j)
      BY <3>5 DEF Finish, Is, Put
    <3>6. CASE FinishFails(w, j)
      BY <3>6 DEF FinishFails, Put
    <3>7. CASE Fail(w, j)
      BY <3>7 DEF Fail, AfterFailure, Is, Put
    <3> QED BY <2>4, <3>2, <3>3, <3>4, <3>5, <3>6, <3>7 DEF HandleJob
  <2>5. ASSUME NEW w \in Workers, Abandon(w) PROVE Tables'
    BY <2>5 DEF Abandon
  <2>6. CASE BeginErase
    BY <2>6 DEF BeginErase
  <2>7. CASE CommitErase
    <3> PICK left \in Remainders :
            evidence' = left /\ removed' = removed \cup {j \in Jobs \ swept : left[j] < evidence[j]}
      BY <2>7 DEF CommitErase
    <3>1. left \in [Jobs -> Nat] /\ \A j \in Jobs : left[j] <= late[j]
      BY RemaindersAreLate
    <3>2. \A j \in Jobs : evidence[j] > 0 =>
             evidence'[j] > 0 \/ status'[j] = "gone" \/ j \in removed'
      BY <2>7, <3>1 DEF CommitErase
    <3>3. Witnessed' /\ NewIsFree'
      BY <2>7, <3>2 DEF CommitErase
    <3>4. DoneIsWritten'
      BY <2>7, <3>2 DEF CommitErase
    <3>5. Purged' /\ LateIsThere' /\ DeletedOnce' /\ ErasureIsComplete'
      BY <2>7, <3>1 DEF CommitErase
    <3> QED BY <3>3, <3>4, <3>5
  <2>8. CASE DeleteProcess
    BY <2>8 DEF DeleteProcess
  <2>9. CASE ErasureFails
    BY <2>9 DEF ErasureFails
  <2>10. CASE UNCHANGED vars
    BY <2>10 DEF vars
  <2> QED BY <2>1, <2>2, <2>3, <2>4, <2>5, <2>6, <2>7, <2>8, <2>9, <2>10 DEF Next, Work, Erase
<1> QED BY <1>1, <1>2, TypeCorrect, PTL DEF Spec

\* A job that is done has its evidence in the tables, unless a deletion took it
\* that was running when the job was queued.
THEOREM DoneWritten == Spec => []DoneIsWritten
BY TablesHold, PTL DEF Tables

\* What a deleted process has left of a package are copies that were written after
\* its deletion had begun, for every package.
THEOREM ErasureComplete == Spec => []ErasureIsComplete
BY TablesHold, PTL DEF Tables

-----------------------------------------------------------------------------
(* How often a package is written                                          *)

Waiting(j) == IF status[j] \in {"new", "pending"} THEN 1 ELSE 0
Holders(j) == {w \in Workers : held[w][j] \in {"claimed", "failing"}}

Budget(j) == evidence[j] + Waiting(j) + Cardinality(Holders(j)) <= 1 + excused[j]

LEMMA HoldersFinite ==
    ASSUME NEW j \in Jobs
    PROVE  IsFiniteSet(Holders(j)) /\ Cardinality(Holders(j)) \in Nat
BY IngestAssumption, FS_Subset, FS_CardinalityType DEF Holders

\* A step of worker w changes the holders of a job by w at most.
LEMMA HoldersNext ==
    ASSUME NEW w \in Workers, NEW j \in Jobs,
           \A v \in Workers \ {w} : held'[v][j] = held[v][j]
    PROVE  /\ IsFiniteSet(Holders(j)') /\ Cardinality(Holders(j)') \in Nat
           /\ held'[w][j] \notin {"claimed", "failing"} =>
                Cardinality(Holders(j)') =
                    Cardinality(Holders(j)) - IF w \in Holders(j) THEN 1 ELSE 0
           /\ held'[w][j] \in {"claimed", "failing"} =>
                Cardinality(Holders(j)') =
                    Cardinality(Holders(j)) + IF w \in Holders(j) THEN 0 ELSE 1
<1>1. IsFiniteSet(Holders(j)') /\ Cardinality(Holders(j)') \in Nat
  BY IngestAssumption, FS_Subset, FS_CardinalityType DEF Holders
<1>2. CASE held'[w][j] \notin {"claimed", "failing"}
  <2>1. Holders(j)' = Holders(j) \ {w}
    BY <1>2 DEF Holders
  <2> QED BY <1>1, <1>2, <2>1, HoldersFinite, FS_RemoveElement
<1>3. CASE held'[w][j] \in {"claimed", "failing"}
  <2>1. Holders(j)' = Holders(j) \cup {w}
    BY <1>3 DEF Holders
  <2> QED BY <1>1, <1>3, <2>1, HoldersFinite, FS_AddElement
<1> QED BY <1>1, <1>2, <1>3

\* A package is written once, plus once for each time its job was taken for
\* stuck or an answer was lost.
THEOREM WrittenAtMostOnce == Spec => []WrittenOnce
<1> DEFINE Budgets == \A j \in Jobs : Budget(j)
<1>1. Init => Budgets
  <2> SUFFICES ASSUME Init, NEW j \in Jobs PROVE Budget(j)
    BY DEF Budgets
  <2>1. Holders(j) = {}
    BY DEF Init, Holders
  <2> QED BY <2>1, FS_EmptySet DEF Init, Budget, Waiting
<1>2. TypeOK /\ NewIsFree /\ LateIsThere /\ Budgets /\ [Next]_vars => Budgets'
  <2> SUFFICES ASSUME TypeOK, NewIsFree, LateIsThere, Budgets, [Next]_vars, NEW j \in Jobs
               PROVE  Budget(j)'
    BY DEF Budgets
  <2>1. /\ Budget(j) /\ Cardinality(Holders(j)) \in Nat
        /\ evidence[j] \in Nat /\ excused[j] \in Nat /\ Waiting(j) \in {0, 1}
    BY HoldersFinite DEF Budgets, TypeOK, Waiting
  <2>2. ASSUME UNCHANGED held, evidence'[j] <= evidence[j], evidence'[j] \in Nat,
               Waiting(j)' + excused[j] <= Waiting(j) + excused'[j],
               excused'[j] \in Nat, Waiting(j)' \in {0, 1}
        PROVE  Budget(j)'
    <3>1. Holders(j)' = Holders(j)
      BY <2>2 DEF Holders
    <3> QED BY <2>1, <2>2, <3>1 DEF Budget
  <2>3. CASE \E i \in Jobs : Enqueue(i) \/ Prune(i)
    <3>1. UNCHANGED <<held, evidence, excused>> /\ Waiting(j)' <= Waiting(j) /\ Waiting(j)' \in {0, 1}
      BY <2>3 DEF Enqueue, Prune, Is, Waiting, TypeOK
    <3> QED BY <2>1, <2>2, <3>1
  <2>4. CASE \E stuck \in SUBSET Jobs : RequeueStuck(stuck)
    <3>1. UNCHANGED <<held, evidence>> /\ excused'[j] \in Nat /\ Waiting(j)' \in {0, 1}
          /\ Waiting(j)' + excused[j] <= Waiting(j) + excused'[j]
      BY <2>4, <2>1 DEF RequeueStuck, LooksStuck, Waiting, TypeOK
    <3> QED BY <2>1, <2>2, <3>1
  <2>5. ASSUME NEW w \in Workers, Claim(w) PROVE Budget(j)'
    <3>1. /\ \A v \in Workers \ {w} : held'[v][j] = held[v][j]
          /\ UNCHANGED <<evidence, excused>> /\ w \notin Holders(j)
      BY <2>5 DEF Claim, Resting, Holders, TypeOK
    <3>2. CASE j \in Batched
      <4>1. Waiting(j) = 1 /\ Waiting(j)' = 0 /\ held'[w][j] \in {"claimed", "failing"}
        BY <2>5, <3>2 DEF Claim, Batched, Claimable, Waiting, TypeOK
      <4>2. Cardinality(Holders(j)') = Cardinality(Holders(j)) + 1
        BY <3>1, <4>1, HoldersNext
      <4> QED BY <2>1, <3>1, <4>1, <4>2 DEF Budget
    <3>3. CASE j \notin Batched
      <4>1. Waiting(j)' = Waiting(j) /\ held'[w][j] \notin {"claimed", "failing"}
        BY <2>5, <3>3 DEF Claim, Waiting, TypeOK
      <4>2. Cardinality(Holders(j)') = Cardinality(Holders(j))
        BY <2>1, <3>1, <4>1, HoldersNext
      <4> QED BY <2>1, <3>1, <4>1, <4>2 DEF Budget
    <3> QED BY <3>2, <3>3
  <2>6. ASSUME NEW w \in Workers, NEW i \in Jobs, HandleJob(w, i) PROVE Budget(j)'
    <3> DEFINE Now == Cardinality(Holders(j))
               Then == Cardinality(Holders(j)')
    <3>1. \A v \in Workers \ {w} : held'[v][j] = held[v][j]
      BY <2>6 DEF HandleJob, WriteEvidence, WriteFails, AnswerLost, Finish, FinishFails, Fail, Put, TypeOK
    <3>2. CASE i # j
      <4>1. /\ held'[w][j] = held[w][j]
            /\ evidence'[j] = evidence[j] /\ excused'[j] = excused[j] /\ status'[j] = status[j]
        BY <2>6, <3>2 DEF HandleJob, WriteEvidence, WriteFails, AnswerLost, Finish, FinishFails, Fail,
                          Writes, Copied, Is, Put, TypeOK
      <4>2. Holders(j)' = Holders(j)
        BY <3>1, <4>1 DEF Holders
      <4> QED BY <2>1, <4>1, <4>2 DEF Budget, Waiting
    <3>3. CASE i = j /\ WriteEvidence(w, i)
      <4>1. /\ w \in Holders(j) /\ held'[w][j] \notin {"claimed", "failing"}
            /\ evidence'[j] = evidence[j] + 1 /\ UNCHANGED <<status, excused>>
        BY <3>3 DEF WriteEvidence, Takes, Writes, Copied, Put, Holders, TypeOK
      <4>2. Then = Now - 1
        BY <3>1, <4>1, HoldersNext
      <4> QED BY <2>1, <4>1, <4>2 DEF Budget, Waiting
    <3>4. CASE i = j /\ WriteFails(w, i)
      <4>1. /\ w \in Holders(j) /\ held'[w][j] \in {"claimed", "failing"}
            /\ UNCHANGED <<status, evidence, excused>>
        BY <3>4 DEF WriteFails, Takes, Put, Holders, TypeOK
      <4>2. Then = Now
        BY <2>1, <3>1, <4>1, HoldersNext
      <4> QED BY <2>1, <4>1, <4>2 DEF Budget, Waiting
    <3>5. CASE i = j /\ AnswerLost(w, i)
      <4>1. /\ w \in Holders(j) /\ held'[w][j] \in {"claimed", "failing"}
            /\ evidence'[j] = evidence[j] + 1 /\ excused'[j] = excused[j] + 1 /\ UNCHANGED status
        BY <3>5 DEF AnswerLost, Takes, Writes, Copied, Put, Holders, TypeOK
      <4>2. Then = Now
        BY <2>1, <3>1, <4>1, HoldersNext
      <4> QED BY <2>1, <4>1, <4>2 DEF Budget, Waiting
    <3>6. CASE i = j /\ Finish(w, i)
      <4>1. /\ w \notin Holders(j) /\ held'[w][j] \notin {"claimed", "failing"}
            /\ UNCHANGED <<evidence, excused>> /\ Waiting(j)' = 0
        BY <3>6 DEF Finish, Is, Put, Holders, Waiting, TypeOK
      <4>2. Then = Now
        BY <2>1, <3>1, <4>1, HoldersNext
      <4> QED BY <2>1, <4>1, <4>2 DEF Budget
    <3>7. CASE i = j /\ FinishFails(w, i)
      <4>1. /\ w \notin Holders(j) /\ held'[w][j] \notin {"claimed", "failing"}
            /\ UNCHANGED <<status, evidence, excused>>
        BY <3>7 DEF FinishFails, Put, Holders, TypeOK
      <4>2. Then = Now
        BY <2>1, <3>1, <4>1, HoldersNext
      <4> QED BY <2>1, <4>1, <4>2 DEF Budget, Waiting
    <3>8. CASE i = j /\ Fail(w, i)
      <4>1. /\ w \in Holders(j) /\ held'[w][j] \notin {"claimed", "failing"}
            /\ UNCHANGED <<evidence, excused>> /\ Waiting(j)' \in {0, 1}
        BY <3>8 DEF Fail, Put, Holders, Waiting, TypeOK
      <4>2. Then = Now - 1
        BY <3>1, <4>1, HoldersNext
      <4> QED BY <2>1, <4>1, <4>2 DEF Budget
    <3> QED BY <2>6, <3>2, <3>3, <3>4, <3>5, <3>6, <3>7, <3>8 DEF HandleJob
  <2>7. ASSUME NEW w \in Workers, Abandon(w) PROVE Budget(j)'
    <3>1. /\ \A v \in Workers \ {w} : held'[v][j] = held[v][j]
          /\ held'[w][j] \notin {"claimed", "failing"} /\ UNCHANGED <<status, evidence, excused>>
      BY <2>7 DEF Abandon, TypeOK
    <3>2. Cardinality(Holders(j)') <= Cardinality(Holders(j)) /\ Cardinality(Holders(j)') \in Nat
      BY <2>1, <3>1, HoldersNext
    <3> QED BY <2>1, <3>1, <3>2 DEF Budget, Waiting
  <2>8. CASE CommitErase
    <3>1. UNCHANGED <<held, excused>> /\ Waiting(j)' <= Waiting(j) /\ Waiting(j)' \in {0, 1}
      BY <2>8 DEF CommitErase, Waiting, TypeOK
    <3>2. evidence'[j] <= evidence[j] /\ evidence'[j] \in Nat
      <4> PICK left \in Remainders : evidence' = left
        BY <2>8 DEF CommitErase
      <4>1. left \in [Jobs -> Nat] /\ left[j] <= late[j]
        BY RemaindersAreLate DEF TypeOK
      <4>2. late[j] <= evidence[j]
        BY <2>8 DEF LateIsThere, CommitErase
      <4> QED BY <4>1, <4>2 DEF TypeOK
    <3> QED BY <2>1, <2>2, <3>1, <3>2
  <2>9. CASE BeginErase \/ DeleteProcess \/ ErasureFails \/ UNCHANGED vars
    <3>1. UNCHANGED <<status, held, evidence, excused>>
      BY <2>9 DEF BeginErase, DeleteProcess, ErasureFails, vars
    <3>2. Waiting(j)' = Waiting(j)
      BY <3>1 DEF Waiting
    <3> QED BY <2>1, <2>2, <3>1, <3>2
  <2> QED BY <2>3, <2>4, <2>5, <2>6, <2>7, <2>8, <2>9 DEF Next, Work, Erase
<1>3. TypeOK /\ Budgets => WrittenOnce
  <2> SUFFICES ASSUME TypeOK, Budgets, NEW j \in Jobs
               PROVE  evidence[j] <= 1 + excused[j]
    BY DEF WrittenOnce
  <2> QED BY HoldersFinite DEF Budgets, Budget, TypeOK, Waiting
<1>4. Tables => NewIsFree /\ LateIsThere
  BY DEF Tables
<1> HIDE DEF Budgets
<1> QED BY <1>1, <1>2, <1>3, <1>4, TypeCorrect, TablesHold, PTL DEF Spec
================================================================================
