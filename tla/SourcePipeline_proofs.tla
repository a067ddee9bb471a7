----------------------- MODULE SourcePipeline_proofs -----------------------
(***************************************************************************)
(* Proofs about SourcePipeline, for every number of files and workers, any *)
(* limits of attempts and any number of mishaps.                           *)
(*                                                                         *)
(* The properties speak of pairs of files, each with its own worker; the   *)
(* invariants say what each side has already done for the other, so that   *)
(* at the end of any interleaving one of the two has seen the other.       *)
(***************************************************************************)
EXTENDS SourcePipeline, FiniteSetTheorems, TLAPS

Late == Stages \ {"read"}

-----------------------------------------------------------------------------
(* The invariants                                                          *)

\* Who is extracting the claims of s.
Extracting(s) == {w \in Workers : On(w, s, "claims")}

\* What is not evidence has not been looked at for claims.
NotYetEvidence ==
    \A s \in Sources \ approved : job[s]["claims"].status = "none" /\ job[s]["claims"].attempts = 0

\* Every extraction, the ones going on included, has cost an attempt.
AttemptsCover ==
    \A s \in Sources :
        /\ IsFiniteSet(Extracting(s))
        /\ claims[s] + Cardinality(Extracting(s)) <= job[s]["claims"].attempts

TInv == TypeOK /\ NotYetEvidence /\ AttemptsCover

\* No file is compared with itself.
Apart ==
    /\ \A r \in relations : r[1] # r[2]
    /\ \A w \in Workers : worker[w].source \notin worker[w].found

\* Between reading the divergences of its file and recording its Claim.
Drawing(w) == worker[w].stage = "graph" /\ worker[w].step \in {"seen", "writing", "written"}

\* Unless writes crossed, everybody who draws is drawing the same file, and knows
\* of no claims that went but those of this file.
OneFileDrawn ==
    ~crossed =>
        /\ \A v, w \in Workers : Drawing(v) /\ Drawing(w) => worker[v].source = worker[w].source
        /\ \A w \in Workers : Drawing(w) => worker[w].lost \subseteq {worker[w].source}

SideInv == Apart /\ OneFileDrawn /\ NoOneSided

\* Unless a lease ran out under a worker, who has a job is alone with it.
Solo ==
    ~overrun =>
        \A s \in Sources, q \in Late, w \in Workers : On(w, s, q) =>
            /\ job[s][q].status = "pending" /\ ~job[s][q].due
            /\ \A v \in Workers : On(v, s, q) => v = w

\* ... and the stages of a file come one after the other.
InOrder ==
    ~overrun =>
        \A s \in Sources :
            /\ job[s]["claims"].status # "done" => job[s]["reconcile"].status = "none"
            /\ job[s]["reconcile"].status \in {"none", "pending"} => job[s]["graph"].status = "none"

\* The comparison of s is over, or has read its inputs, without t.
Missed(s, t) ==
    \/ Is(s, "reconcile", "done") /\ <<s, t>> \notin relations
    \/ \E w \in Workers : At(w, s, "reconcile", "seen") /\ t \notin worker[w].found

\* Of two files at most one is compared without the other.
SeenByOne == ~overrun => \A s, t \in Sources : s # t => ~(Missed(s, t) /\ Missed(t, s))

FoundInv == TInv /\ Solo /\ InOrder /\ SeenByOne

\* There is a contradiction of s and t.
Drawn(s, t) == \E c \in contradictions : {c.by, c.to} = {s, t} /\ c.alive

\* What a file that is in the graph, and a worker that puts it there, can count on.
OneDrawn ==
    /\ \A s \in linked :
          drawn[s] = claims[s] /\ job[s]["reconcile"].status \notin {"none", "pending"}
    /\ \A s \in Sources : Is(s, "graph", "done") => s \in linked
    /\ \A w \in Workers, s \in Sources : On(w, s, "graph") =>
          /\ worker[w].step # "taken" => worker[w].version = claims[s]
          /\ worker[w].step \in {"written", "recorded"} => drawn[s] = claims[s]
          /\ worker[w].step = "recorded" => s \in linked
          /\ Drawing(w) => s \notin worker[w].lost

\* Of two files that diverge and have their Claims the contradiction is there; who
\* draws one has found the other, if that was there when it looked.
BothDrawn ==
    /\ \A s, t \in linked : s # t /\ Diverge(s, t) => Drawn(s, t)
    /\ \A w \in Workers, s \in Sources, t \in linked :
          On(w, s, "graph") /\ s # t /\ Diverge(s, t) =>
              /\ worker[w].step \in {"seen", "writing"} => t \in worker[w].found
              /\ worker[w].step = "written" => Drawn(s, t)

DrawnInv == ~overrun /\ ~crossed => OneDrawn /\ BothDrawn

-----------------------------------------------------------------------------
(* Constants and the operators on jobs and workers                         *)

JobsOK(jobs) == jobs \in [Stages -> Job] /\ \A q \in Stages : jobs[q].attempts <= MaxAttempts[q]

LEMMA ConstantTypes ==
    /\ \A q \in Stages : MaxAttempts[q] \in Nat /\ 0 <= MaxAttempts[q] /\ MaxAttempts[q] # 0
    /\ MaxUploads \in Nat /\ MaxMishaps \in Nat
    /\ \A n \in Nat : n \in Versions <=> n <= MaxAttempts["claims"]
    /\ 0 \in Versions
BY SourceAssumption DEF Stages, Versions

LEMMA JobFacts ==
    ASSUME TypeOK, NEW s \in Sources
    PROVE  /\ JobsOK(job[s])
           /\ \A q \in Stages : /\ job[s][q] \in Job /\ job[s][q].attempts \in Nat
                                /\ job[s][q].due \in BOOLEAN
BY DEF TypeOK, JobsOK, Job

LEMMA TakenJob ==
    ASSUME NEW j \in Job
    PROVE  [j EXCEPT !.attempts = @ + 1, !.due = FALSE] \in Job
<1>1. j.attempts + 1 \in Nat
  BY DEF Job
<1>2. QED
  BY <1>1 DEF Job

LEMMA QueuedFacts == Queued \in Job /\ Queued.status = "pending" /\ Queued.attempts = 0 /\ Queued.due = TRUE
BY DEF Queued, Job

LEMMA RestFacts ==
    /\ Rest \in Worker /\ Rest.stage = "none" /\ Rest.step = "taken"
    /\ Rest.found = {} /\ Rest.lost = {}
<1>1. (CHOOSE s \in Sources : TRUE) \in Sources
  BY SourceAssumption
<1>2. QED
  BY <1>1, ConstantTypes DEF Rest, Worker

\* The claims of a file are lost to some workers: nothing else changes for them.
LEMMA LoseFacts ==
    ASSUME worker \in [Workers -> Worker], NEW w, NEW q, NEW s \in Sources
    PROVE  LET lose == Lose(Others(w, q), s) IN
           /\ lose \in [Workers -> Worker]
           /\ \A v \in Workers :
                 /\ lose[v].stage = worker[v].stage /\ lose[v].source = worker[v].source
                 /\ lose[v].step = worker[v].step /\ lose[v].found = worker[v].found
                 /\ lose[v].version = worker[v].version
           /\ \A v \in Others(w, q) : worker[v].stage = q /\ lose[v].lost = worker[v].lost \cup {s}
           /\ \A v \in Workers \ Others(w, q) : lose[v] = worker[v]
<1> DEFINE others == Others(w, q)
           lose == Lose(others, s)
<1>1. others \subseteq Workers /\ \A v \in others : worker[v].stage = q
  BY DEF Others
<1>2. \A v \in Workers :
          lose[v] = IF v \in others THEN [worker[v] EXCEPT !.lost = worker[v].lost \cup {s}] ELSE worker[v]
  BY DEF Lose
<1>3. lose = [v \in Workers |-> lose[v]]
  BY DEF Lose
<1> HIDE DEF others, lose
<1>4. ASSUME NEW v \in Workers
      PROVE  /\ lose[v] \in Worker
             /\ lose[v].stage = worker[v].stage /\ lose[v].source = worker[v].source
             /\ lose[v].step = worker[v].step /\ lose[v].found = worker[v].found
             /\ lose[v].version = worker[v].version
             /\ v \in others => lose[v].lost = worker[v].lost \cup {s}
  <2>1. worker[v] \in Worker
    OBVIOUS
  <2>2. CASE v \in others
    <3>1. lose[v] = [worker[v] EXCEPT !.lost = worker[v].lost \cup {s}]
      BY <1>2, <2>2
    <3>2. QED
      BY <2>1, <2>2, <3>1 DEF Worker
  <2>3. CASE v \notin others
    BY <1>2, <2>1, <2>3
  <2>4. QED
    BY <2>2, <2>3
<1>5. QED
  BY <1>1, <1>2, <1>3, <1>4 DEF others, lose

\* Closing a job leaves the other stages alone, but for the graph after a comparison.
LEMMA ClosedFacts ==
    ASSUME TypeOK, NEW s \in Sources, NEW q \in Stages, NEW status \in {"done", "failed"}
    PROVE  /\ JobsOK(Closed(s, q, status))
           /\ Closed(s, q, status)[q].status = status
           /\ Closed(s, q, status)[q].attempts = job[s][q].attempts
           /\ \A p \in Stages \ {q} :
                 Closed(s, q, status)[p] =
                     IF q = "reconcile" /\ p = "graph" THEN Queued ELSE job[s][p]
<1>1. JobsOK(job[s]) /\ job[s][q] \in Job
  BY JobFacts
<1> DEFINE x == [job[s][q] EXCEPT !.status = status]
<1>2. x \in Job /\ x.status = status /\ x.attempts = job[s][q].attempts
  BY <1>1 DEF Job
<1>3. Closed(s, q, status) = IF q = "reconcile" THEN [job[s] EXCEPT !["reconcile"] = x, !["graph"] = Queued]
                             ELSE [job[s] EXCEPT ![q] = x]
  BY <1>1 DEF Closed, JobsOK
<1> HIDE DEF x
<1>4. CASE q = "reconcile"
  BY <1>1, <1>2, <1>3, <1>4, QueuedFacts, ConstantTypes DEF JobsOK, Stages
<1>5. CASE q # "reconcile"
  BY <1>1, <1>2, <1>3, <1>5 DEF JobsOK
<1>6. QED
  BY <1>4, <1>5

\* Writing one job of a file.
LEMMA OneJobFacts ==
    ASSUME TypeOK, NEW s \in Sources, NEW q \in Stages, NEW x \in Job, x.attempts <= MaxAttempts[q]
    PROVE  /\ JobsOK([job[s] EXCEPT ![q] = x])
           /\ [job[s] EXCEPT ![q] = x][q] = x
           /\ \A p \in Stages \ {q} : [job[s] EXCEPT ![q] = x][p] = job[s][p]
BY JobFacts DEF JobsOK

LEMMA ApprovedFacts ==
    ASSUME NEW jobs, JobsOK(jobs)
    PROVE  /\ JobsOK(Approved(jobs))
           /\ \A q \in Stages \ {"claims"} : Approved(jobs)[q] = jobs[q]
           /\ Approved(jobs)["claims"] = IF jobs["claims"].status = "done" THEN jobs["claims"] ELSE Queued
BY QueuedFacts, ConstantTypes DEF Approved, JobsOK, Stages

LEMMA SetsReadFacts ==
    ASSUME TypeOK, NEW s \in Sources
    PROVE  /\ JobsOK(Sets(s, "read", "done"))
           /\ \A q \in Late : Sets(s, "read", "done")[q] = job[s][q]
<1> DEFINE x == [job[s]["read"] EXCEPT !.status = IF @ = "gone" THEN @ ELSE "done"]
<1>1. JobsOK(job[s]) /\ job[s]["read"] \in Job /\ "read" \in Stages
  BY JobFacts DEF Stages
<1>2. x \in Job /\ x.attempts = job[s]["read"].attempts
  BY <1>1 DEF Job
<1>3. Sets(s, "read", "done") = [job[s] EXCEPT !["read"] = x]
  BY <1>1 DEF Sets, JobsOK
<1> HIDE DEF x
<1>4. QED
  BY <1>1, <1>2, <1>3 DEF JobsOK, Late

-----------------------------------------------------------------------------
(* What a step may do to a job after the reading, and to a worker          *)

\* w is done with its job.
Left(w) == worker'[w] = Rest

\* The ways in which a job of a late stage changes.
LateMove(s, q) ==
    LET old == job[s][q]
        new == job'[s][q]
    IN  \/ new = old
        \/ \E w \in Workers :
              Take(w, s, q) /\ new.status = old.status /\ new.attempts = old.attempts + 1 /\ ~new.due
        \/ TimePasses(s, q) /\ new.status = old.status /\ new.attempts = old.attempts
        \/ GiveUp(s, q) /\ new.status = "failed" /\ new.attempts = old.attempts
        \/ /\ new.attempts = old.attempts
           /\ \E w \in Workers :
                 /\ On(w, s, q) /\ Left(w)
                 /\ \/ new.status = old.status /\ ~new.due
                    \/ new.status = "failed"
                    \/ /\ new.status = "done"
                       /\ q = "reconcile" => FinishReconcile(w, s)
                       /\ q = "graph" => FinishGraph(w, s)
        \/ q = "claims" /\ s \in approved' \ approved /\ new = Queued
        \/ q = "reconcile" /\ new = Queued /\ \E w \in Workers : FinishClaims(w, s)
        \/ /\ q = "graph" /\ new = Queued /\ job'[s]["reconcile"].status \in {"done", "failed"}
           /\ GiveUp(s, "reconcile") \/ \E w \in Workers : On(w, s, "reconcile")

LEMMA JobStep ==
    ASSUME TypeOK, [Next]_vars
    PROVE  /\ job' \in [Sources -> [Stages -> Job]]
           /\ \A s \in Sources : JobsOK(job'[s])
           /\ \A s \in Sources, q \in Late : LateMove(s, q)
<1> DEFINE Goal == /\ job' \in [Sources -> [Stages -> Job]]
                   /\ \A s \in Sources : JobsOK(job'[s])
                   /\ \A s \in Sources, q \in Late : LateMove(s, q)
<1>0. /\ job \in [Sources -> [Stages -> Job]] /\ worker \in [Workers -> Worker]
      /\ \A s \in Sources : JobsOK(job[s])
      /\ Late \subseteq Stages /\ {"claims", "reconcile", "graph"} \subseteq Late
      /\ "read" \in Stages /\ "read" \notin Late
  BY JobFacts DEF TypeOK, Late, Stages
<1>1. CASE UNCHANGED job
  BY <1>0, <1>1 DEF LateMove
<1>2. ASSUME NEW s \in Sources, NEW x, job' = [job EXCEPT ![s] = x], JobsOK(x),
             \A q \in Late : LateMove(s, q)
      PROVE  Goal
  <2>1. \A t \in Sources : JobsOK(job'[t])
    BY <1>0, <1>2
  <2>2. job' \in [Sources -> [Stages -> Job]]
    BY <1>0, <1>2 DEF JobsOK
  <2>3. ASSUME NEW t \in Sources, NEW q \in Late, t # s
        PROVE  LateMove(t, q)
    <3>1. job'[t] = job[t]
      BY <1>0, <1>2, <2>3
    <3>2. QED
      BY <3>1 DEF LateMove
  <2>4. QED
    BY <1>2, <2>1, <2>2, <2>3
\* One job of one file.
<1>3. ASSUME NEW s \in Sources, NEW q \in Stages, NEW x \in Job, x.attempts <= MaxAttempts[q],
             job' = [job EXCEPT ![s] = [job[s] EXCEPT ![q] = x]],
             q = "read" \/ LateMove(s, q)
      PROVE  Goal
  <2>1. JobsOK([job[s] EXCEPT ![q] = x]) /\ job'[s] = [job[s] EXCEPT ![q] = x]
    BY <1>0, <1>3, OneJobFacts
  <2>2. \A p \in Stages \ {q} : job'[s][p] = job[s][p]
    BY <1>3, <2>1, OneJobFacts
  <2>3. \A p \in Late \ {q} : LateMove(s, p)
    BY <1>0, <2>2 DEF LateMove
  <2>4. \A p \in Late : LateMove(s, p)
    BY <1>0, <1>3, <2>3
  <2>5. QED
    BY <1>2, <1>3, <2>1, <2>4
\* A job is closed.
<1>4. ASSUME NEW s \in Sources, NEW q \in Stages, NEW status \in {"done", "failed"},
             job' = [job EXCEPT ![s] = Closed(s, q, status)],
             \/ GiveUp(s, q) /\ status = "failed"
             \/ \E w \in Workers : On(w, s, q) /\ Left(w) /\
                    (status = "done" => /\ q = "reconcile" => FinishReconcile(w, s)
                                        /\ q = "graph" => FinishGraph(w, s))
      PROVE  Goal
  <2>1. JobsOK(Closed(s, q, status)) /\ job'[s] = Closed(s, q, status)
    BY <1>0, <1>4, ClosedFacts
  <2>2. job'[s][q].status = status /\ job'[s][q].attempts = job[s][q].attempts
    BY <2>1, ClosedFacts
  <2>3. \A p \in Stages \ {q} :
            job'[s][p] = IF q = "reconcile" /\ p = "graph" THEN Queued ELSE job[s][p]
    BY <2>1, ClosedFacts
  <2>4. q \in Late => LateMove(s, q)
    BY <1>4, <2>2 DEF LateMove
  <2>5. \A p \in Late \ {q} : LateMove(s, p)
    BY <1>0, <1>4, <2>2, <2>3 DEF LateMove
  <2>6. QED
    BY <1>2, <1>4, <2>1, <2>4, <2>5
<1>5. ASSUME NEW w \in Workers, NEW s \in Sources, NEW q \in Stages, Take(w, s, q)
      PROVE  Goal
  <2> DEFINE x == [job[s][q] EXCEPT !.attempts = @ + 1, !.due = FALSE]
  <2>1. /\ job[s][q] \in Job /\ job[s][q].attempts \in Nat /\ MaxAttempts[q] \in Nat
        /\ job[s][q].attempts < MaxAttempts[q]
    BY <1>5, JobFacts, ConstantTypes DEF Take, GivesUp
  <2>2. x \in Job
    BY <2>1, TakenJob
  <2>3. x.status = job[s][q].status /\ x.attempts = job[s][q].attempts + 1 /\ x.due = FALSE
    BY <2>1 DEF Job
  <2>4. x.attempts <= MaxAttempts[q]
    BY <2>1, <2>3
  <2>5. job' = [job EXCEPT ![s] = [job[s] EXCEPT ![q] = x]]
    BY <1>0, <1>5, <2>1 DEF Take, JobsOK
  <2> HIDE DEF x
  <2>6. job'[s][q] = x
    BY <1>0, <2>2, <2>4, <2>5, OneJobFacts
  <2>7. LateMove(s, q)
    BY <1>5, <2>3, <2>6 DEF LateMove
  <2>8. QED
    BY <1>3, <2>2, <2>4, <2>5, <2>7
<1>6. ASSUME NEW s \in Sources, NEW q \in Stages, GiveUp(s, q)
      PROVE  Goal
  BY <1>4, <1>6 DEF GiveUp
<1>7. ASSUME NEW s \in Sources, NEW q \in Stages, TimePasses(s, q)
      PROVE  Goal
  <2> DEFINE x == [job[s][q] EXCEPT !.due = TRUE]
  <2>1. job[s][q] \in Job /\ job[s][q].attempts <= MaxAttempts[q]
    BY JobFacts DEF JobsOK
  <2>2. x \in Job /\ x.attempts = job[s][q].attempts /\ x.status = job[s][q].status
    BY <2>1 DEF Job
  <2>3. job' = [job EXCEPT ![s] = [job[s] EXCEPT ![q] = x]]
    BY <1>0, <1>7 DEF TimePasses, JobsOK
  <2> HIDE DEF x
  <2>4. job'[s][q] = x
    BY <1>0, <2>1, <2>2, <2>3, OneJobFacts
  <2>5. LateMove(s, q)
    BY <1>7, <2>2, <2>4 DEF LateMove
  <2>6. QED
    BY <1>3, <2>1, <2>2, <2>3, <2>5
<1>8. ASSUME NEW w \in Workers, NEW s \in Sources, NEW q \in Stages, NEW permanent \in BOOLEAN,
             Fail(w, s, q, permanent)
      PROVE  Goal
  <2>1. On(w, s, q) /\ Left(w)
    BY <1>0, <1>8 DEF Fail, Leaves, Left
  <2>2. CASE job' = [job EXCEPT ![s] = Closed(s, q, "failed")]
    BY <1>4, <2>1, <2>2
  <2>3. CASE job' = [job EXCEPT ![s][q].due = FALSE]
    <3> DEFINE x == [job[s][q] EXCEPT !.due = FALSE]
    <3>1. job[s][q] \in Job /\ job[s][q].attempts <= MaxAttempts[q]
      BY JobFacts DEF JobsOK
    <3>2. x \in Job /\ x.attempts = job[s][q].attempts /\ x.status = job[s][q].status /\ ~x.due
      BY <3>1 DEF Job
    <3>3. job' = [job EXCEPT ![s] = [job[s] EXCEPT ![q] = x]]
      BY <1>0, <2>3 DEF JobsOK
    <3> HIDE DEF x
    <3>4. job'[s][q] = x
      BY <1>0, <3>1, <3>2, <3>3, OneJobFacts
    <3>5. LateMove(s, q)
      BY <2>1, <3>2, <3>4 DEF LateMove
    <3>6. QED
      BY <1>3, <3>1, <3>2, <3>3, <3>5
  <2>4. QED
    BY <1>1, <1>8, <2>2, <2>3 DEF Fail
<1>9. ASSUME NEW s \in Sources, NEW x \in Job, x.attempts = 0 \/ x.attempts = job[s]["read"].attempts,
             job' = [job EXCEPT ![s] = [job[s] EXCEPT !["read"] = x]]
      PROVE  Goal
  BY <1>0, <1>3, <1>9, ConstantTypes DEF JobsOK
<1>10. ASSUME NEW s \in Sources, Upload(s) \/ Discard(s)
       PROVE  Goal
  <2>1. CASE Upload(s)
    BY <1>0, <1>9, <2>1, QueuedFacts DEF Upload
  <2>2. CASE Discard(s)
    <3> DEFINE x == [job[s]["read"] EXCEPT !.status = "gone"]
    <3>1. x \in Job /\ x.attempts = job[s]["read"].attempts
      BY <1>0, JobFacts DEF Job
    <3>2. job' = [job EXCEPT ![s] = [job[s] EXCEPT !["read"] = x]]
      BY <1>0, <2>2 DEF Discard, JobsOK
    <3> HIDE DEF x
    <3>3. QED
      BY <1>9, <3>1, <3>2
  <2>3. QED
    BY <1>10, <2>1, <2>2
\* A file becomes evidence.
<1>11. ASSUME NEW s \in Sources, NEW jobs, JobsOK(jobs), \A q \in Late : jobs[q] = job[s][q],
              s \in approved' \ approved, job' = [job EXCEPT ![s] = Approved(jobs)]
       PROVE  Goal
  <2>1. /\ JobsOK(Approved(jobs)) /\ job'[s] = Approved(jobs)
        /\ \A q \in Late \ {"claims"} : job'[s][q] = job[s][q]
        /\ job'[s]["claims"] = job[s]["claims"] \/ job'[s]["claims"] = Queued
    BY <1>0, <1>11, ApprovedFacts
  <2>2. \A q \in Late : LateMove(s, q)
    BY <1>0, <1>11, <2>1 DEF LateMove
  <2>3. QED
    BY <1>2, <1>11, <2>1, <2>2
<1>12. ASSUME NEW s \in Sources, Confirm(s)
       PROVE  Goal
  BY <1>0, <1>11, <1>12 DEF Confirm
<1>13. ASSUME NEW w \in Workers, NEW s \in Sources, FinishRead(w, s)
       PROVE  Goal
  <2> DEFINE read == Sets(s, "read", "done")
  <2>1. JobsOK(read) /\ \A q \in Late : read[q] = job[s][q]
    BY SetsReadFacts
  <2>2. CASE s \in approved' \ approved /\ job' = [job EXCEPT ![s] = Approved(read)]
    BY <1>11, <2>1, <2>2
  <2>3. CASE job' = [job EXCEPT ![s] = read]
    <3>1. \A q \in Late : LateMove(s, q)
      BY <1>0, <2>1, <2>3 DEF LateMove
    <3>2. QED
      BY <1>2, <2>1, <2>3, <3>1
  <2>4. QED
    BY <1>13, <2>2, <2>3 DEF FinishRead
<1>14. ASSUME NEW w \in Workers, NEW s \in Sources, FinishClaims(w, s)
       PROVE  Goal
  <2> DEFINE x == [job[s]["claims"] EXCEPT !.status = "done"]
             jobs == [[job[s] EXCEPT !["claims"] = x] EXCEPT !["reconcile"] = Queued]
  <2>1. x \in Job /\ x.status = "done" /\ x.attempts = job[s]["claims"].attempts
    BY <1>0, JobFacts DEF Job
  <2>2. job' = [job EXCEPT ![s] = jobs]
    BY <1>0, <1>14 DEF FinishClaims, JobsOK
  <2> HIDE DEF x
  <2>3. /\ JobsOK(jobs) /\ jobs["claims"] = x /\ jobs["reconcile"] = Queued
        /\ jobs["graph"] = job[s]["graph"]
    BY <1>0, <2>1, QueuedFacts, ConstantTypes DEF JobsOK, Stages
  <2> HIDE DEF jobs
  <2>4. /\ job'[s]["claims"] = x /\ job'[s]["reconcile"] = Queued
        /\ job'[s]["graph"] = job[s]["graph"]
    BY <1>0, <2>2, <2>3
  <2>5. On(w, s, "claims") /\ Left(w)
    BY <1>0, <1>14, LoseFacts DEF FinishClaims, Left
  <2>6. LateMove(s, "claims") /\ LateMove(s, "reconcile") /\ LateMove(s, "graph")
    BY <1>14, <2>1, <2>4, <2>5 DEF LateMove
  <2>7. QED
    BY <1>2, <2>2, <2>3, <2>6 DEF Late, Stages
<1>15. ASSUME NEW w \in Workers, NEW s \in Sources, FinishReconcile(w, s)
       PROVE  Goal
  BY <1>0, <1>4, <1>15 DEF FinishReconcile, Leaves, Left, At
<1>16. ASSUME NEW w \in Workers, NEW s \in Sources, FinishGraph(w, s)
       PROVE  Goal
  <2>1. job' = [job EXCEPT ![s] = Closed(s, "graph", "done")]
    BY <1>0, <1>16 DEF FinishGraph, Closed, JobsOK
  <2>2. On(w, s, "graph") /\ Left(w)
    BY <1>0, <1>16 DEF FinishGraph, Leaves, Left, At
  <2>3. QED
    BY <1>0, <1>4, <1>16, <2>1, <2>2
<1>17. ASSUME NEW w \in Workers, NEW s \in Sources,
              \/ ReadInputs(w, s) \/ RefuseReconcile(w, s) \/ ReadDivergences(w, s)
              \/ CheckOthers(w, s) \/ WriteGraph(w, s) \/ RecordIds(w, s)
       PROVE  UNCHANGED job
  BY <1>17 DEF ReadInputs, RefuseReconcile, ReadDivergences, CheckOthers, WriteGraph, RecordIds
<1>18. ASSUME NEW w \in Workers, NEW s \in Sources, Step(w, s)
       PROVE  Goal
  BY <1>1, <1>13, <1>14, <1>15, <1>16, <1>17, <1>18 DEF Step
<1>19. ASSUME NEW s \in Sources, User(s) \/ ChatCommits(s) \/ Queue(s)
       PROVE  Goal
  BY <1>1, <1>6, <1>7, <1>10, <1>12, <1>19 DEF User, Queue, ChatLoads, ChatCommits
<1>20. ASSUME NEW w \in Workers, Work(w) \/ Abandon(w)
       PROVE  Goal
  BY <1>1, <1>5, <1>8, <1>18, <1>20 DEF Work, Abandon
<1>21. QED
  BY <1>1, <1>19, <1>20 DEF Next, vars

\* The ways in which a worker changes.
Stays(v)  == worker'[v].stage = worker[v].stage /\ worker'[v].source = worker[v].source
Knows(v)  == worker'[v].found = worker[v].found /\ worker'[v].version = worker[v].version

WorkerMove(v) ==
    \/ worker'[v] = worker[v]
    \/ Left(v)
    \/ \E s \in Sources, q \in Stages :
          /\ Take(v, s, q)
          /\ worker'[v].stage = q /\ worker'[v].source = s /\ worker'[v].step = "taken"
          /\ worker'[v].found = {} /\ worker'[v].lost = {}
    \/ \E u \in Workers \ {v}, s \in Sources :
          /\ \/ FinishClaims(u, s) /\ worker[v].stage = "reconcile"
             \/ WriteGraph(u, s) /\ worker[v].stage = "graph"
          /\ Stays(v) /\ Knows(v) /\ worker'[v].step = worker[v].step
          /\ worker'[v].lost = worker[v].lost \cup {s}
    \/ \E s \in Sources :
          /\ ReadInputs(v, s) /\ Stays(v)
          /\ worker'[v].step = "seen" /\ worker'[v].found = {t \in Sources \ {s} : Comparable(s, t)}
    \/ \E s \in Sources :
          /\ ReadDivergences(v, s) /\ Stays(v)
          /\ worker'[v].step = "seen" /\ worker'[v].found = {t \in linked : Diverge(s, t)}
          /\ worker'[v].lost = {} /\ worker'[v].version = claims[s]
    \/ \E s \in Sources :
          /\ CheckOthers(v, s) /\ Stays(v)
          /\ worker'[v].step = "writing" /\ worker'[v].found = worker[v].found \ worker[v].lost
          /\ worker'[v].lost = {} /\ worker'[v].version = worker[v].version
    \/ \E s \in Sources :
          WriteGraph(v, s) /\ Stays(v) /\ Knows(v) /\ worker'[v].step = "written" /\ worker'[v].lost = {}
    \/ \E s \in Sources :
          /\ RecordIds(v, s) /\ Stays(v) /\ Knows(v)
          /\ worker'[v].step = "recorded" /\ worker'[v].lost = worker[v].lost

LEMMA WorkerStep ==
    ASSUME TypeOK, [Next]_vars
    PROVE  worker' \in [Workers -> Worker] /\ \A v \in Workers : WorkerMove(v)
<1> DEFINE Goal == worker' \in [Workers -> Worker] /\ \A v \in Workers : WorkerMove(v)
<1>0. /\ worker \in [Workers -> Worker] /\ claims \in [Sources -> Versions]
      /\ linked \subseteq Sources
  BY DEF TypeOK
<1>1. CASE UNCHANGED worker
  BY <1>0, <1>1 DEF WorkerMove
<1>2. ASSUME NEW w \in Workers, NEW x \in Worker, worker' = [worker EXCEPT ![w] = x], WorkerMove(w)
      PROVE  Goal
  <2>1. worker' \in [Workers -> Worker] /\ \A v \in Workers \ {w} : worker'[v] = worker[v]
    BY <1>0, <1>2
  <2>2. QED
    BY <1>2, <2>1 DEF WorkerMove
<1>3. ASSUME NEW w \in Workers, Leaves(w)
      PROVE  Goal
  BY <1>0, <1>2, <1>3, RestFacts DEF Leaves, Left, WorkerMove
<1>4. ASSUME NEW w \in Workers, NEW s \in Sources, NEW q \in Stages, Take(w, s, q)
      PROVE  Goal
  <2> DEFINE x == [Rest EXCEPT !.stage = q, !.source = s]
  <2>1. /\ x \in Worker /\ x.stage = q /\ x.source = s /\ x.step = "taken"
        /\ x.found = {} /\ x.lost = {}
    BY RestFacts DEF Worker
  <2>2. worker' = [worker EXCEPT ![w] = x]
    BY <1>4 DEF Take
  <2> HIDE DEF x
  <2>3. WorkerMove(w)
    BY <1>0, <1>4, <2>1, <2>2 DEF WorkerMove
  <2>4. QED
    BY <1>2, <2>1, <2>2, <2>3
<1>5. ASSUME NEW w \in Workers, NEW s \in Sources, ReadInputs(w, s)
      PROVE  Goal
  <2> DEFINE seen == {t \in Sources \ {s} : Comparable(s, t)}
             x == [worker[w] EXCEPT !.step = "seen", !.found = seen, !.lost = {}]
  <2>1. /\ x \in Worker /\ x.stage = worker[w].stage /\ x.source = worker[w].source
        /\ x.step = "seen" /\ x.found = seen
    BY <1>0 DEF Worker
  <2>2. worker' = [worker EXCEPT ![w] = x]
    BY <1>0, <1>5 DEF ReadInputs
  <2> HIDE DEF x
  <2>3. WorkerMove(w)
    BY <1>0, <1>5, <2>1, <2>2 DEF WorkerMove, Stays
  <2>4. QED
    BY <1>2, <2>1, <2>2, <2>3
<1>6. ASSUME NEW w \in Workers, NEW s \in Sources, ReadDivergences(w, s)
      PROVE  Goal
  <2> DEFINE seen == {t \in linked : Diverge(s, t)}
             x == [worker[w] EXCEPT !.step = "seen", !.version = claims[s], !.found = seen, !.lost = {}]
  <2>1. /\ x \in Worker /\ x.stage = worker[w].stage /\ x.source = worker[w].source
        /\ x.step = "seen" /\ x.found = seen /\ x.lost = {} /\ x.version = claims[s]
    BY <1>0 DEF Worker
  <2>2. worker' = [worker EXCEPT ![w] = x]
    BY <1>0, <1>6 DEF ReadDivergences
  <2> HIDE DEF x
  <2>3. WorkerMove(w)
    BY <1>0, <1>6, <2>1, <2>2 DEF WorkerMove, Stays
  <2>4. QED
    BY <1>2, <2>1, <2>2, <2>3
<1>7. ASSUME NEW w \in Workers, NEW s \in Sources, CheckOthers(w, s)
      PROVE  Goal
  <2> DEFINE x == [worker[w] EXCEPT !.step = "writing", !.found = @ \ worker[w].lost, !.lost = {}]
  <2>1. /\ x \in Worker /\ x.stage = worker[w].stage /\ x.source = worker[w].source
        /\ x.step = "writing" /\ x.found = worker[w].found \ worker[w].lost
        /\ x.lost = {} /\ x.version = worker[w].version
    BY <1>0 DEF Worker
  <2>2. worker' = [worker EXCEPT ![w] = x]
    BY <1>0, <1>7 DEF CheckOthers
  <2> HIDE DEF x
  <2>3. WorkerMove(w)
    BY <1>0, <1>7, <2>1, <2>2 DEF WorkerMove, Stays
  <2>4. QED
    BY <1>2, <2>1, <2>2, <2>3
<1>8. ASSUME NEW w \in Workers, NEW s \in Sources, RecordIds(w, s)
      PROVE  Goal
  <2> DEFINE x == [worker[w] EXCEPT !.step = "recorded"]
  <2>1. /\ x \in Worker /\ x.stage = worker[w].stage /\ x.source = worker[w].source
        /\ x.step = "recorded" /\ x.found = worker[w].found
        /\ x.lost = worker[w].lost /\ x.version = worker[w].version
    BY <1>0 DEF Worker
  <2>2. worker' = [worker EXCEPT ![w] = x]
    BY <1>0, <1>8 DEF RecordIds
  <2> HIDE DEF x
  <2>3. WorkerMove(w)
    BY <1>0, <1>8, <2>1, <2>2 DEF WorkerMove, Stays, Knows
  <2>4. QED
    BY <1>2, <2>1, <2>2, <2>3
\* The claims or the Claim of s are replaced.
<1>9. ASSUME NEW w \in Workers, NEW s \in Sources, FinishClaims(w, s)
      PROVE  Goal
  <2> DEFINE others == Others(w, "reconcile")
             lose == Lose(others, s)
  <2>0. /\ lose \in [Workers -> Worker]
        /\ \A v \in Workers :
              /\ lose[v].stage = worker[v].stage /\ lose[v].source = worker[v].source
              /\ lose[v].step = worker[v].step /\ lose[v].found = worker[v].found
              /\ lose[v].version = worker[v].version
        /\ \A v \in others : worker[v].stage = "reconcile" /\ lose[v].lost = worker[v].lost \cup {s}
        /\ \A v \in Workers \ others : lose[v] = worker[v]
    BY <1>0, LoseFacts
  <2>1. worker' = [lose EXCEPT ![w] = Rest]
    BY <1>9 DEF FinishClaims
  <2> HIDE DEF lose, others
  <2>2. worker' \in [Workers -> Worker] /\ Left(w) /\ \A v \in Workers \ {w} : worker'[v] = lose[v]
    BY <2>0, <2>1, RestFacts DEF Left
  <2>3. ASSUME NEW v \in Workers \ {w}
        PROVE  WorkerMove(v)
    <3>1. CASE v \in others
      <4>1. worker[v].stage = "reconcile"
        BY <2>0, <3>1
      <4>2. Stays(v) /\ Knows(v) /\ worker'[v].step = worker[v].step
            /\ worker'[v].lost = worker[v].lost \cup {s}
        BY <2>2, <2>0, <3>1 DEF Stays, Knows
      <4>3. w \in Workers \ {v}
        OBVIOUS
      <4>4. QED
        BY <1>9, <4>1, <4>2, <4>3 DEF WorkerMove
    <3>2. CASE v \notin others
      BY <2>2, <2>0, <3>2 DEF WorkerMove
    <3>3. QED
      BY <3>1, <3>2
  <2>4. QED
    BY <2>2, <2>3 DEF WorkerMove
<1>10. ASSUME NEW w \in Workers, NEW s \in Sources, WriteGraph(w, s)
       PROVE  Goal
  <2> DEFINE others == Others(w, "graph")
             lose == Lose(others, s)
             x == [worker[w] EXCEPT !.step = "written", !.lost = {}]
  <2>0. /\ lose \in [Workers -> Worker]
        /\ \A v \in Workers :
              /\ lose[v].stage = worker[v].stage /\ lose[v].source = worker[v].source
              /\ lose[v].step = worker[v].step /\ lose[v].found = worker[v].found
              /\ lose[v].version = worker[v].version
        /\ \A v \in others : worker[v].stage = "graph" /\ lose[v].lost = worker[v].lost \cup {s}
        /\ \A v \in Workers \ others : lose[v] = worker[v]
    BY <1>0, LoseFacts
  <2>1. /\ x \in Worker /\ x.stage = worker[w].stage /\ x.source = worker[w].source
        /\ x.step = "written" /\ x.found = worker[w].found
        /\ x.lost = {} /\ x.version = worker[w].version
    BY <1>0 DEF Worker
  <2>2. lose[w] = worker[w]
    <3>1. w \notin others
      BY DEF Others
    <3>2. QED
      BY <2>0, <3>1
  <2>3. worker' = [lose EXCEPT ![w] = x]
    <3>1. worker' = [lose EXCEPT ![w] = [lose[w] EXCEPT !.step = "written", !.lost = {}]]
      BY <1>10, <2>0 DEF WriteGraph
    <3>2. QED
      BY <2>2, <3>1
  <2> HIDE DEF x, lose, others
  <2>4. /\ worker' \in [Workers -> Worker] /\ worker'[w] = x
        /\ \A v \in Workers \ {w} : worker'[v] = lose[v]
    BY <2>0, <2>1, <2>3
  <2>5. WorkerMove(w)
    BY <1>10, <2>1, <2>4 DEF WorkerMove, Stays, Knows
  <2>6. ASSUME NEW v \in Workers \ {w}
        PROVE  WorkerMove(v)
    <3>1. CASE v \in others
      <4>1. worker[v].stage = "graph"
        BY <2>0, <3>1
      <4>2. Stays(v) /\ Knows(v) /\ worker'[v].step = worker[v].step
            /\ worker'[v].lost = worker[v].lost \cup {s}
        BY <2>4, <2>0, <3>1 DEF Stays, Knows
      <4>3. w \in Workers \ {v}
        OBVIOUS
      <4>4. QED
        BY <1>10, <4>1, <4>2, <4>3 DEF WorkerMove
    <3>2. CASE v \notin others
      BY <2>4, <2>0, <3>2 DEF WorkerMove
    <3>3. QED
      BY <3>1, <3>2
  <2>7. QED
    BY <2>4, <2>5, <2>6
<1>11. ASSUME NEW w \in Workers, NEW s \in Sources, Step(w, s)
       PROVE  Goal
  BY <1>3, <1>5, <1>6, <1>7, <1>8, <1>9, <1>10, <1>11
  DEF Step, FinishRead, FinishReconcile, RefuseReconcile, FinishGraph
<1>12. ASSUME NEW w \in Workers, Work(w) \/ Abandon(w)
       PROVE  Goal
  BY <1>3, <1>4, <1>11, <1>12 DEF Work, Abandon, Fail
<1>13. ASSUME NEW s \in Sources, User(s) \/ ChatCommits(s) \/ Queue(s)
       PROVE  UNCHANGED worker
  BY <1>13 DEF User, Queue, Upload, Confirm, ChatLoads, Discard, ChatCommits, GiveUp, TimePasses
<1>14. QED
  BY <1>1, <1>12, <1>13 DEF Next, vars

\* Who works on a job was on it, or has just taken it.
LEMMA OnStep ==
    ASSUME TypeOK, [Next]_vars, NEW v \in Workers, NEW s \in Sources, NEW q \in Stages, On(v, s, q)'
    PROVE  On(v, s, q) \/ Take(v, s, q)
<1>1. WorkerMove(v)
  BY WorkerStep
<1>2. worker'[v].stage = q /\ worker'[v].source = s /\ q # "none"
  BY DEF On, Stages
<1>3. worker'[v] # Rest
  BY <1>2, RestFacts
<1>4. CASE worker'[v] = worker[v] \/ Stays(v)
  BY <1>2, <1>4 DEF Stays, On
<1>5. CASE \E t \in Sources, p \in Stages :
              Take(v, t, p) /\ worker'[v].stage = p /\ worker'[v].source = t
  BY <1>2, <1>5
<1>6. QED
  BY <1>1, <1>3, <1>4, <1>5 DEF WorkerMove, Left

\* Jobs are taken one at a time.
LEMMA OneTakes ==
    ASSUME TypeOK, NEW v \in Workers, NEW w \in Workers, NEW s \in Sources, NEW t \in Sources,
           NEW p \in Stages, NEW q \in Stages, Take(v, s, p), Take(w, t, q)
    PROVE  v = w
<1> SUFFICES ASSUME v # w PROVE FALSE
  OBVIOUS
<1>0. worker \in [Workers -> Worker] /\ p # "none"
  BY DEF TypeOK, Stages
<1>1. worker'[v].stage = p
  BY <1>0, RestFacts DEF Take, Worker
<1>2. worker'[v] = worker[v] /\ worker[v].stage = "none"
  BY <1>0 DEF Take, Idle
<1>3. QED
  BY <1>0, <1>1, <1>2

-----------------------------------------------------------------------------
(* Who changes the rest of the state                                       *)

LEMMA FrameStep ==
    ASSUME [Next]_vars
    PROVE  /\ \/ claims' = claims
              \/ \E w \in Workers, s \in Sources : FinishClaims(w, s)
           /\ \/ relations' = relations
              \/ \E w \in Workers, s \in Sources : FinishClaims(w, s) \/ FinishReconcile(w, s)
           /\ \/ linked' = linked
              \/ \E w \in Workers, s \in Sources : FinishClaims(w, s) \/ WriteGraph(w, s) \/ RecordIds(w, s)
           /\ \/ UNCHANGED <<drawn, contradictions>>
              \/ \E w \in Workers, s \in Sources : WriteGraph(w, s)
           /\ approved' = approved \/ \E s \in Sources : approved' = approved \cup {s}
           /\ overrun' = overrun \/ \E s \in Sources, q \in Stages : TimePasses(s, q)
           /\ crossed' = crossed \/ \E w \in Workers, s \in Sources : ReadDivergences(w, s)
<1> DEFINE Same == /\ UNCHANGED <<claims, relations, linked, drawn, contradictions, overrun, crossed>>
                   /\ approved' = approved \/ \E s \in Sources : approved' = approved \cup {s}
<1>1. ASSUME NEW w \in Workers, NEW s \in Sources,
             FinishRead(w, s) \/ ReadInputs(w, s) \/ RefuseReconcile(w, s) \/ CheckOthers(w, s) \/ FinishGraph(w, s)
      PROVE  Same
  BY <1>1 DEF FinishRead, ReadInputs, RefuseReconcile, CheckOthers, FinishGraph, files, texts, graph, past
<1>2. ASSUME NEW w \in Workers, NEW s \in Sources, NEW q \in Stages,
             Take(w, s, q) \/ \E permanent \in BOOLEAN : Fail(w, s, q, permanent)
      PROVE  Same
  BY <1>2 DEF Take, Fail, files, texts, graph, past
<1>3. ASSUME NEW w \in Workers, Abandon(w)
      PROVE  Same
  BY <1>3 DEF Abandon, files, texts, graph
<1>4. ASSUME NEW s \in Sources, User(s) \/ ChatCommits(s)
      PROVE  Same
  BY <1>4 DEF User, Upload, Confirm, ChatLoads, Discard, ChatCommits, files, texts, graph, past
<1>5. ASSUME NEW s \in Sources, NEW q \in Stages, GiveUp(s, q)
      PROVE  Same
  BY <1>5 DEF GiveUp, files, texts, graph, past
<1>6. ASSUME NEW s \in Sources, NEW q \in Stages, TimePasses(s, q)
      PROVE  UNCHANGED <<approved, claims, relations, linked, drawn, contradictions, crossed>>
  BY <1>6 DEF TimePasses, files, texts, graph
<1>7. ASSUME NEW w \in Workers, NEW s \in Sources, FinishClaims(w, s)
      PROVE  UNCHANGED <<approved, drawn, contradictions, overrun, crossed>>
  BY <1>7 DEF FinishClaims, files, graph, past
<1>8. ASSUME NEW w \in Workers, NEW s \in Sources, FinishReconcile(w, s)
      PROVE  UNCHANGED <<approved, claims, linked, drawn, contradictions, overrun, crossed>>
  BY <1>8 DEF FinishReconcile, files, graph, past
<1>9. ASSUME NEW w \in Workers, NEW s \in Sources, ReadDivergences(w, s)
      PROVE  UNCHANGED <<approved, claims, relations, linked, drawn, contradictions, overrun>>
  BY <1>9 DEF ReadDivergences, files, texts, graph
<1>10. ASSUME NEW w \in Workers, NEW s \in Sources, WriteGraph(w, s)
       PROVE  UNCHANGED <<approved, claims, relations, overrun, crossed>>
  BY <1>10 DEF WriteGraph, files, past
<1>11. ASSUME NEW w \in Workers, NEW s \in Sources, RecordIds(w, s)
       PROVE  UNCHANGED <<approved, claims, relations, drawn, contradictions, overrun, crossed>>
  BY <1>11 DEF RecordIds, files, graph, past
<1>12. CASE UNCHANGED vars
  BY <1>12 DEF vars, files, texts, graph, past
<1>13. CASE \E s \in Sources : User(s) \/ ChatCommits(s) \/ Queue(s)
  BY <1>4, <1>5, <1>6, <1>13 DEF Queue
<1>14. CASE \E w \in Workers : Work(w) \/ Abandon(w)
  <2>1. CASE \E w \in Workers, s \in Sources : Step(w, s)
    BY <2>1, <1>1, <1>7, <1>8, <1>9, <1>10, <1>11 DEF Step
  <2>2. CASE \E w \in Workers, s \in Sources, q \in Stages :
                 Take(w, s, q) \/ \E permanent \in BOOLEAN : Fail(w, s, q, permanent)
    BY <2>2, <1>2
  <2>3. QED
    BY <1>3, <1>14, <2>1, <2>2 DEF Work
<1>15. QED
  BY <1>12, <1>13, <1>14 DEF Next

LEMMA OtherTypes ==
    ASSUME TypeOK, [Next]_vars
    PROVE  /\ uploads' \in [Sources -> 0 .. MaxUploads]
           /\ toConfirm' \subseteq Sources /\ loaded' \subseteq Sources
           /\ mishaps' \in 0 .. MaxMishaps /\ overrun' \in BOOLEAN /\ overtaken' \subseteq Sources
<1>0. /\ uploads \in [Sources -> 0 .. MaxUploads]
      /\ toConfirm \subseteq Sources /\ loaded \subseteq Sources
      /\ mishaps \in 0 .. MaxMishaps /\ overrun \in BOOLEAN /\ overtaken \subseteq Sources
  BY DEF TypeOK
<1>1. /\ MaxUploads \in Nat /\ MaxMishaps \in Nat
  BY ConstantTypes
<1>2. Mishap => mishaps' \in 0 .. MaxMishaps
  BY <1>0, <1>1 DEF Mishap
<1>3. CASE UNCHANGED vars
  BY <1>0, <1>3 DEF vars, files, past
<1>4. ASSUME NEW w \in Workers, NEW s \in Sources, Step(w, s)
      PROVE  \/ /\ UNCHANGED <<uploads, loaded, mishaps, overrun>>
                /\ toConfirm' \subseteq Sources /\ overtaken' \subseteq Sources
             \/ UNCHANGED <<files, mishaps, overrun, overtaken>>
  BY <1>0, <1>4 DEF Step, FinishRead, FinishClaims, ReadInputs, FinishReconcile, RefuseReconcile, ReadDivergences,
     CheckOthers, WriteGraph, RecordIds, FinishGraph, files, past
<1>5. ASSUME NEW w \in Workers, Work(w) \/ Abandon(w)
      PROVE  \/ \E s \in Sources : Step(w, s)
             \/ UNCHANGED <<files, overrun, overtaken>> /\ (mishaps' = mishaps \/ Mishap)
  <2>1. CASE \E s \in Sources, q \in Stages : Take(w, s, q)
    BY <2>1 DEF Take, past
  <2>2. CASE \E s \in Sources, q \in Stages, permanent \in BOOLEAN : Fail(w, s, q, permanent)
    BY <2>2 DEF Fail
  <2>3. CASE Abandon(w)
    BY <2>3 DEF Abandon
  <2>4. QED
    BY <1>5, <2>1, <2>2, <2>3 DEF Work
<1>6. ASSUME NEW s \in Sources, NEW q \in Stages, GiveUp(s, q) \/ TimePasses(s, q)
      PROVE  UNCHANGED <<files, overtaken>> /\ (mishaps' = mishaps \/ Mishap) /\ overrun' \in BOOLEAN
  BY <1>0, <1>6 DEF GiveUp, TimePasses, past
<1>7. ASSUME NEW s \in Sources, Upload(s)
      PROVE  uploads' \in [Sources -> 0 .. MaxUploads] /\ UNCHANGED <<toConfirm, loaded, mishaps, overrun, overtaken>>
  <2>1. uploads[s] + 1 \in 0 .. MaxUploads
    BY <1>0, <1>1, <1>7 DEF Upload
  <2>2. QED
    BY <1>0, <1>7, <2>1 DEF Upload, past
<1>8. ASSUME NEW s \in Sources, Confirm(s) \/ ChatLoads(s) \/ Discard(s) \/ ChatCommits(s)
      PROVE  /\ UNCHANGED <<uploads, mishaps, overrun, overtaken>>
             /\ toConfirm' \subseteq Sources /\ loaded' \subseteq Sources
  BY <1>0, <1>8 DEF Confirm, ChatLoads, Discard, ChatCommits, past
<1>9. CASE \E s \in Sources : User(s) \/ ChatCommits(s) \/ Queue(s)
  BY <1>0, <1>2, <1>6, <1>7, <1>8, <1>9 DEF User, Queue, files
<1>10. CASE \E w \in Workers : Work(w) \/ Abandon(w)
  BY <1>0, <1>2, <1>4, <1>5, <1>10 DEF files
<1>11. QED
  BY <1>3, <1>9, <1>10 DEF Next

-----------------------------------------------------------------------------
(* The types, and the attempts that cover the extractions                  *)

LEMMA InitT == Init => TInv
<1> SUFFICES ASSUME Init PROVE TInv
  OBVIOUS
<1> USE DEF Init
<1>1. JobsOK([q \in Stages |-> [status |-> "none", attempts |-> 0, due |-> FALSE]])
  BY ConstantTypes DEF JobsOK, Job
<1>2. \A s \in Sources, q \in Stages : job[s][q] \in Job /\ job[s][q].attempts = 0
  BY QueuedFacts DEF Job, Queued
<1>3. job \in [Sources -> [Stages -> Job]] /\ \A s \in Sources, q \in Stages : job[s][q].attempts <= MaxAttempts[q]
  BY <1>2, ConstantTypes
<1>4. TypeOK
  <2>1. 0 \in 0 .. MaxUploads /\ 0 \in 0 .. MaxMishaps /\ 0 \in Versions
    BY ConstantTypes
  <2>2. worker \in [Workers -> Worker]
    BY RestFacts
  <2>3. Earlier \subseteq Sources
    BY SourceAssumption
  <2>4. QED
    BY <1>3, <2>1, <2>2, <2>3 DEF TypeOK
<1>5. NotYetEvidence
  BY DEF NotYetEvidence, Stages
<1>6. AttemptsCover
  <2>1. \A s \in Sources : Extracting(s) = {}
    BY RestFacts DEF Extracting, On
  <2>2. QED
    BY <1>2, <2>1, FS_EmptySet DEF AttemptsCover, Stages
<1>7. QED
  BY <1>4, <1>5, <1>6 DEF TInv

\* Nobody extracts the claims of a file that has cost no attempt.
LEMMA NoAttempt ==
    ASSUME TInv, NEW s \in Sources, job[s]["claims"].attempts = 0
    PROVE  Extracting(s) = {} /\ claims[s] = 0 /\ Cardinality(Extracting(s)) = 0
<1>1. /\ IsFiniteSet(Extracting(s)) /\ Cardinality(Extracting(s)) \in Nat
      /\ claims[s] + Cardinality(Extracting(s)) <= 0
  BY FS_CardinalityType DEF TInv, AttemptsCover
<1>2. claims[s] \in Nat
  BY DEF TInv, TypeOK, Versions
<1>3. QED
  BY <1>1, <1>2, FS_EmptySet

LEMMA CoverStep ==
    ASSUME TInv, [Next]_vars, NEW s \in Sources
    PROVE  /\ claims' \in [Sources -> Nat]
           /\ IsFiniteSet(Extracting(s)')
           /\ claims'[s] + Cardinality(Extracting(s)') <= job'[s]["claims"].attempts
<1> DEFINE old == Extracting(s)
           new == Extracting(s)'
           n   == job[s]["claims"].attempts
<1>0. /\ TypeOK /\ n \in Nat /\ claims \in [Sources -> Nat] /\ "claims" \in Late /\ "claims" \in Stages
      /\ job \in [Sources -> [Stages -> Job]]
  BY JobFacts DEF TInv, TypeOK, Versions, Late, Stages
<1>1. IsFiniteSet(old) /\ Cardinality(old) \in Nat /\ claims[s] + Cardinality(old) <= n
  BY FS_CardinalityType DEF TInv, AttemptsCover
<1>2. \A v \in new : v \in old \/ Take(v, s, "claims")
  BY <1>0, OnStep DEF Extracting
<1>3. new \subseteq Workers /\ old \subseteq Workers
  BY DEF Extracting
<1>4. claims' \in [Sources -> Nat] /\ (~(\E w \in Workers : FinishClaims(w, s)) => claims'[s] = claims[s])
  <2>1. CASE claims' = claims
    BY <1>0, <2>1
  <2>2. ASSUME NEW w \in Workers, NEW u \in Sources, FinishClaims(w, u)
        PROVE  claims' \in [Sources -> Nat] /\ (u # s => claims'[s] = claims[s])
    BY <1>0, <2>2 DEF FinishClaims
  <2>3. QED
    BY <2>1, <2>2, FrameStep
<1>5. CASE \E w \in Workers : Take(w, s, "claims")
  <2>1. PICK w \in Workers : Take(w, s, "claims")
    BY <1>5
  <2>2. claims' = claims /\ job'[s]["claims"].attempts = n + 1
    BY <1>0, <2>1, JobFacts DEF Take, texts, Job
  <2>3. w \notin old
    BY <1>0, <2>1 DEF Extracting, On, Take, Idle
  <2>4. \A v \in Workers \ {w} : ~Take(v, s, "claims")
    BY <1>0, <2>1, OneTakes
  <2>5. new \subseteq old \cup {w}
    BY <1>2, <1>3, <2>4
  <2>6. IsFiniteSet(old \cup {w}) /\ Cardinality(old \cup {w}) = Cardinality(old) + 1
    BY <1>1, <2>3, FS_AddElement
  <2>7. IsFiniteSet(new) /\ Cardinality(new) <= Cardinality(old) + 1 /\ Cardinality(new) \in Nat
    BY <2>5, <2>6, FS_Subset, FS_CardinalityType
  <2> HIDE DEF old, new, n
  <2>8. claims[s] + Cardinality(new) <= n + 1
    BY <1>0, <1>1, <2>7
  <2>9. QED
    BY <1>4, <2>2, <2>7, <2>8 DEF new, n
<1>6. CASE \E w \in Workers : FinishClaims(w, s)
  <2>1. PICK w \in Workers : FinishClaims(w, s)
    BY <1>6
  <2>2. claims'[s] = claims[s] + 1 /\ job'[s]["claims"].attempts = n
    BY <1>0, <2>1, JobFacts DEF FinishClaims, Job, Stages
  <2>3. w \in old /\ w \notin new
    <3>1. worker'[w] = Rest
      BY <1>0, <2>1, LoseFacts DEF FinishClaims, TypeOK
    <3>2. QED
      BY <2>1, <3>1, RestFacts DEF Extracting, On, FinishClaims
  <2>4. \A v \in Workers : ~Take(v, s, "claims")
    BY <1>0, <2>1 DEF Take, FinishClaims, texts
  <2>5. new \subseteq old \ {w}
    BY <1>2, <1>3, <2>3, <2>4
  <2>6. IsFiniteSet(old \ {w}) /\ Cardinality(old \ {w}) = Cardinality(old) - 1
    BY <1>1, <2>3, FS_RemoveElement
  <2>7. IsFiniteSet(new) /\ Cardinality(new) <= Cardinality(old) - 1 /\ Cardinality(new) \in Nat
    BY <2>5, <2>6, FS_Subset, FS_CardinalityType
  <2> HIDE DEF old, new, n
  <2>8. claims[s] + 1 + Cardinality(new) <= n
    BY <1>0, <1>1, <2>7
  <2>9. QED
    BY <1>4, <2>2, <2>7, <2>8 DEF new, n
<1>7. CASE ~ \E w \in Workers : Take(w, s, "claims") \/ FinishClaims(w, s)
  <2>1. new \subseteq old
    BY <1>2, <1>3, <1>7
  <2>2. claims'[s] = claims[s]
    BY <1>4, <1>7
  <2>3. IsFiniteSet(new) /\ Cardinality(new) <= Cardinality(old) /\ Cardinality(new) \in Nat
    BY <1>1, <2>1, FS_Subset, FS_CardinalityType
  <2>4. \/ job'[s]["claims"].attempts = n
        \/ s \in approved' \ approved /\ job'[s]["claims"].attempts = 0
    <3>1. LateMove(s, "claims")
      BY <1>0, JobStep
    <3>2. QED
      BY <1>7, <3>1, QueuedFacts DEF LateMove
  <2>5. s \notin approved => claims[s] = 0 /\ Cardinality(old) = 0
    BY NoAttempt DEF TInv, NotYetEvidence
  <2> HIDE DEF old, new, n
  <2>6. claims[s] \in Nat /\ claims[s] + Cardinality(new) <= n
    BY <1>0, <1>1, <2>3
  <2>7. s \notin approved => claims[s] + Cardinality(new) <= 0
    BY <1>0, <1>1, <2>3, <2>5
  <2>8. QED
    BY <1>4, <2>2, <2>3, <2>4, <2>6, <2>7 DEF new, n
<1>8. QED
  BY <1>5, <1>6, <1>7

LEMMA TStep == TInv /\ [Next]_vars => TInv'
<1> SUFFICES ASSUME TInv, [Next]_vars PROVE TInv'
  OBVIOUS
<1>0. TypeOK /\ "claims" \in Late /\ "claims" \in Stages
  BY DEF TInv, Late, Stages
<1>1. AttemptsCover'
  BY CoverStep DEF AttemptsCover
<1>2. NotYetEvidence'
  <2> SUFFICES ASSUME NEW s \in Sources \ approved'
               PROVE  job'[s]["claims"].status = "none" /\ job'[s]["claims"].attempts = 0
    BY DEF NotYetEvidence
  <2>1. s \notin approved
    BY FrameStep
  <2>2. job[s]["claims"].status = "none" /\ job[s]["claims"].attempts = 0
    BY <2>1 DEF TInv, NotYetEvidence
  <2>3. \A w \in Workers : ~On(w, s, "claims")
    BY <2>2, NoAttempt DEF Extracting
  <2>4. LateMove(s, "claims")
    BY <1>0, JobStep
  <2>5. QED
    BY <2>2, <2>3, <2>4 DEF LateMove, Take, TimePasses, GiveUp, Due
<1>3. TypeOK'
  <2>1. claims' \in [Sources -> Versions]
    <3>1. ASSUME NEW s \in Sources PROVE claims'[s] \in Versions
      <4>1. /\ claims'[s] \in Nat /\ Cardinality(Extracting(s)') \in Nat
            /\ claims'[s] + Cardinality(Extracting(s)') <= job'[s]["claims"].attempts
        BY CoverStep, FS_CardinalityType
      <4>2. job'[s]["claims"].attempts \in Nat /\ job'[s]["claims"].attempts <= MaxAttempts["claims"]
        BY <1>0, JobStep DEF JobsOK, Job
      <4>3. claims'[s] <= MaxAttempts["claims"]
        BY <1>0, <4>1, <4>2, ConstantTypes
      <4>4. QED
        BY <4>1, <4>3, ConstantTypes
    <3>2. QED
      BY <3>1, CoverStep, SourceAssumption
  <2>2. drawn' \in [Sources -> Versions] /\ contradictions' \subseteq Contradiction
    <3>1. /\ drawn \in [Sources -> Versions] /\ contradictions \subseteq Contradiction
          /\ worker \in [Workers -> Worker]
      BY <1>0 DEF TypeOK
    <3>2. ASSUME NEW w \in Workers, NEW s \in Sources, WriteGraph(w, s)
          PROVE  drawn' \in [Sources -> Versions] /\ contradictions' \subseteq Contradiction
      <4>1. worker[w].version \in Versions /\ worker[w].found \subseteq Sources
        BY <3>1 DEF Worker
      <4>2. drawn' \in [Sources -> Versions]
        BY <3>1, <3>2, <4>1 DEF WriteGraph
      <4>3. \A c \in Kept(s) : [c EXCEPT !.alive = c.alive /\ c.to # s] \in Contradiction
        BY <3>1 DEF Kept, Contradiction
      <4>4. \A t \in worker[w].found : [by |-> s, to |-> t, alive |-> t \notin worker[w].lost] \in Contradiction
        BY <4>1 DEF Contradiction
      <4>5. QED
        BY <3>2, <4>2, <4>3, <4>4 DEF WriteGraph
    <3>3. QED
      BY <3>1, <3>2, FrameStep
  <2>3. relations' \subseteq Sources \X Sources
    <3>1. relations \subseteq Sources \X Sources /\ \A w \in Workers : worker[w].found \subseteq Sources
      BY <1>0 DEF TypeOK, Worker
    <3>2. ASSUME NEW w \in Workers, NEW s \in Sources, FinishReconcile(w, s)
          PROVE  relations' \subseteq Sources \X Sources
      <4>1. \A t \in worker[w].found : <<s, t>> \in Sources \X Sources
        BY <3>1
      <4>2. QED
        BY <3>1, <3>2, <4>1 DEF FinishReconcile
    <3>3. ASSUME NEW w \in Workers, NEW s \in Sources, FinishClaims(w, s)
          PROVE  relations' \subseteq Sources \X Sources
      BY <3>1, <3>3 DEF FinishClaims
    <3>4. QED
      BY <3>1, <3>2, <3>3, FrameStep
  <2>4. approved' \subseteq Sources /\ linked' \subseteq Sources
    BY <1>0, FrameStep DEF TypeOK, FinishClaims, WriteGraph, RecordIds
  <2>5. crossed' \in BOOLEAN
    BY <1>0, FrameStep DEF TypeOK, ReadDivergences
  <2>6. QED
    BY <1>0, <2>1, <2>2, <2>3, <2>4, <2>5, JobStep, WorkerStep, OtherTypes DEF TypeOK, JobsOK
<1>4. QED
  BY <1>1, <1>2, <1>3 DEF TInv

LEMMA TAlways == Spec => []TInv
<1>1. QED
  BY InitT, TStep, PTL DEF Spec

\* No queue is worked more often than its attempts, and no file is extracted more
\* often than it was taken to be.
THEOREM TypeCorrect == Spec => []TypeOK
<1>1. TInv => TypeOK
  BY DEF TInv
<1>2. QED
  BY <1>1, TAlways, PTL

-----------------------------------------------------------------------------
(* One worker for each job, one stage after the other                      *)

\* A lease that ran out under a worker is not forgotten.
LEMMA OverrunStays ==
    ASSUME TypeOK, [Next]_vars, ~overrun'
    PROVE  /\ ~overrun
           /\ \A s \in Sources, q \in Late, w \in Workers : TimePasses(s, q) => ~On(w, s, q)
<1>1. ~overrun
  BY FrameStep DEF TimePasses, TypeOK
<1>2. QED
  BY <1>1 DEF TimePasses, Late

\* A job that is not pending changes only when something makes a new one of it.
LEMMA NotPendingMoves ==
    ASSUME TypeOK, Solo, [Next]_vars, ~overrun, NEW s \in Sources, NEW q \in Late,
           job[s][q].status # "pending"
    PROVE  \/ job'[s][q] = job[s][q]
           \/ q = "claims" /\ s \in approved' \ approved /\ job'[s][q] = Queued
           \/ q = "reconcile" /\ job'[s][q] = Queued /\ \E w \in Workers : FinishClaims(w, s)
           \/ /\ q = "graph" /\ job'[s][q] = Queued
              /\ job'[s]["reconcile"].status \in {"done", "failed"}
              /\ job[s]["reconcile"].status = "pending"
<1>1. \A w \in Workers : ~On(w, s, q)
  BY DEF Solo
<1>2. \A w \in Workers : On(w, s, "reconcile") => job[s]["reconcile"].status = "pending"
  BY DEF Solo, Late, Stages
<1>3. LateMove(s, q)
  BY JobStep
<1>4. QED
  BY <1>1, <1>2, <1>3 DEF LateMove, Take, TimePasses, GiveUp, Due

\* What the end of an extraction finds and leaves.
LEMMA ExtractionEnds ==
    ASSUME TInv, Solo, InOrder, ~overrun, NEW w \in Workers, NEW s \in Sources, FinishClaims(w, s)
    PROVE  /\ job[s]["claims"].status = "pending" /\ job[s]["reconcile"].status = "none"
           /\ job'[s]["claims"].status = "done" /\ job'[s]["reconcile"] = Queued
<1>1. job[s]["claims"].status = "pending"
  BY DEF FinishClaims, Solo, Late, Stages
<1>2. job[s]["reconcile"].status = "none"
  BY <1>1 DEF InOrder
<1>3. job'[s]["claims"].status = "done" /\ job'[s]["reconcile"] = Queued
  BY JobFacts DEF TInv, TypeOK, FinishClaims, Stages, Job
<1>4. QED
  BY <1>1, <1>2, <1>3

LEMMA SoloStep == TInv /\ Solo /\ InOrder /\ [Next]_vars => Solo'
<1> SUFFICES ASSUME TInv, Solo, InOrder, [Next]_vars, ~overrun',
                    NEW s \in Sources, NEW q \in Late, NEW w \in Workers, On(w, s, q)'
             PROVE  /\ job'[s][q].status = "pending" /\ ~job'[s][q].due
                    /\ \A v \in Workers : On(v, s, q)' => v = w
  BY DEF Solo
<1>0. TypeOK /\ ~overrun /\ q \in Stages
  BY OverrunStays DEF TInv, Late
<1>1. On(w, s, q) \/ Take(w, s, q)
  BY <1>0, OnStep
<1>2. \A v \in Workers : On(v, s, q)' => On(v, s, q) \/ Take(v, s, q)
  BY <1>0, OnStep
<1>3. CASE On(w, s, q)
  <2>1. /\ job[s][q].status = "pending" /\ ~job[s][q].due
        /\ \A v \in Workers : On(v, s, q) => v = w
    BY <1>0, <1>3 DEF Solo
  <2>2. \A v \in Workers : ~Take(v, s, q)
    BY <2>1 DEF Take, Due
  <2>3. ~TimePasses(s, q) /\ ~GiveUp(s, q)
    BY <1>0, <1>3, <2>1, OverrunStays DEF GiveUp, Due
  <2>4. \A v \in Workers : On(v, s, q) => ~Left(v)
    <3>1. worker'[w].stage # "none"
      BY <1>0 DEF On, Stages
    <3>2. QED
      BY <2>1, <3>1, RestFacts DEF Left
  <2>5. ~(q = "claims" /\ s \in approved' \ approved)
    BY <2>1 DEF TInv, NotYetEvidence
  <2>6. ~(q = "reconcile" /\ \E v \in Workers : FinishClaims(v, s))
    BY <1>0, <2>1, ExtractionEnds
  <2>7. ~(q = "graph" /\ (GiveUp(s, "reconcile") \/ \E v \in Workers : On(v, s, "reconcile")))
    <3>1. \A v \in Workers : On(v, s, "reconcile") => job[s]["reconcile"].status = "pending"
      BY <1>0 DEF Solo, Late, Stages
    <3>2. q = "graph" => job[s]["reconcile"].status # "pending"
      BY <1>0, <2>1 DEF InOrder
    <3>3. QED
      BY <3>1, <3>2 DEF GiveUp, Due
  <2>8. LateMove(s, q)
    BY <1>0, JobStep
  <2>9. job'[s][q] = job[s][q]
    BY <2>2, <2>3, <2>4, <2>5, <2>6, <2>7, <2>8 DEF LateMove
  <2>10. QED
    BY <1>2, <2>1, <2>2, <2>9
<1>4. CASE Take(w, s, q)
  <2>1. job[s][q].status = "pending" /\ job[s][q].due
    BY <1>4 DEF Take, Due
  <2>2. job'[s][q].status = "pending" /\ ~job'[s][q].due
    BY <1>0, <1>4, <2>1, JobFacts DEF Take, TypeOK, Job
  <2>3. \A v \in Workers : ~On(v, s, q)
    BY <1>0, <2>1 DEF Solo
  <2>4. QED
    BY <1>0, <1>2, <1>4, <2>2, <2>3, OneTakes
<1>5. QED
  BY <1>1, <1>3, <1>4

LEMMA OrderStep == TInv /\ Solo /\ InOrder /\ [Next]_vars => InOrder'
<1> SUFFICES ASSUME TInv, Solo, InOrder, [Next]_vars, ~overrun', NEW s \in Sources
             PROVE  /\ job'[s]["claims"].status # "done" => job'[s]["reconcile"].status = "none"
                    /\ job'[s]["reconcile"].status \in {"none", "pending"}
                           => job'[s]["graph"].status = "none"
  BY DEF InOrder
<1>0. TypeOK /\ ~overrun /\ {"claims", "reconcile", "graph"} \subseteq Late
  BY OverrunStays DEF TInv, Late, Stages
<1>1. /\ job[s]["claims"].status # "done" => job[s]["reconcile"].status = "none"
      /\ job[s]["reconcile"].status \in {"none", "pending"} => job[s]["graph"].status = "none"
  BY <1>0 DEF InOrder
<1>2. job[s]["claims"].status = "done" => job'[s]["claims"].status = "done"
  BY <1>0, NotPendingMoves DEF TInv, NotYetEvidence
<1>3. job[s]["reconcile"].status = "none" =>
          job'[s]["reconcile"].status = "none" \/ job'[s]["claims"].status = "done"
  BY <1>0, NotPendingMoves, ExtractionEnds
<1>4. job[s]["reconcile"].status \notin {"none", "pending"} =>
          job'[s]["reconcile"].status \notin {"none", "pending"}
  BY <1>0, NotPendingMoves, ExtractionEnds
<1>5. job[s]["graph"].status = "none" =>
          job'[s]["graph"].status = "none" \/ job'[s]["reconcile"].status \in {"done", "failed"}
  BY <1>0, NotPendingMoves
<1>6. QED
  BY <1>1, <1>2, <1>3, <1>4, <1>5

-----------------------------------------------------------------------------
(* Every divergence is found                                               *)

\* Who has just got its claims has not been compared with anything.
LEMMA FreshMissesNone ==
    ASSUME TInv, Solo, InOrder, [Next]_vars, ~overrun, NEW w \in Workers, NEW s \in Sources,
           FinishClaims(w, s), NEW t
    PROVE  ~Missed(s, t)'
<1>0. TypeOK /\ "reconcile" \in Late /\ "reconcile" \in Stages
  BY DEF TInv, Late, Stages
<1>1. job[s]["reconcile"].status = "none" /\ job'[s]["reconcile"].status = "pending"
  BY ExtractionEnds, QueuedFacts
<1>2. ASSUME NEW v \in Workers, On(v, s, "reconcile")' PROVE FALSE
  <2>1. On(v, s, "reconcile") \/ Take(v, s, "reconcile")
    BY <1>0, <1>2, OnStep
  <2>2. QED
    BY <1>0, <1>1, <2>1 DEF Solo, Take, Due
<1>3. QED
  BY <1>1, <1>2 DEF Missed, Is, At

\* How a file comes to be compared without another.
LEMMA MissedStep ==
    ASSUME TInv, Solo, InOrder, [Next]_vars, ~overrun,
           NEW s \in Sources, NEW t \in Sources, s # t, Missed(s, t)'
    PROVE  \/ Missed(s, t)
           \/ \E w \in Workers : ReadInputs(w, s) /\ ~Comparable(s, t)
           \/ \E w \in Workers : FinishClaims(w, t)
<1>0. TypeOK /\ "reconcile" \in Late
  BY DEF TInv, Late, Stages
<1>1. CASE Is(s, "reconcile", "done")' /\ <<s, t>> \notin relations'
  <2>1. CASE \E w \in Workers : FinishReconcile(w, s)
    BY <1>0, <1>1, <2>1 DEF FinishReconcile, Missed
  <2>2. CASE ~ \E w \in Workers : FinishReconcile(w, s)
    <3>1. job[s]["reconcile"].status = "done"
      <4>1. LateMove(s, "reconcile")
        BY <1>0, JobStep
      <4>2. QED
        BY <1>1, <2>2, <4>1, QueuedFacts DEF LateMove, Is
    <3>2. \/ <<s, t>> \notin relations
          \/ \E w \in Workers : FinishClaims(w, s) \/ FinishClaims(w, t)
      <4>1. ASSUME NEW w \in Workers, NEW u \in Sources, FinishClaims(w, u), u # s, u # t
            PROVE  <<s, t>> \notin relations
        BY <1>1, <4>1 DEF FinishClaims
      <4>2. ASSUME NEW w \in Workers, NEW u \in Sources, FinishReconcile(w, u), u # s
            PROVE  <<s, t>> \notin relations
        BY <1>1, <4>2 DEF FinishReconcile
      <4>3. QED
        BY <1>1, <2>2, <4>1, <4>2, FrameStep
    <3>3. QED
      BY <3>1, <3>2, FreshMissesNone DEF Missed, Is
  <2>3. QED
    BY <2>1, <2>2
<1>2. ASSUME NEW w \in Workers, At(w, s, "reconcile", "seen")', t \notin worker'[w].found
      PROVE  \/ Missed(s, t)
             \/ \E v \in Workers : ReadInputs(v, s) /\ ~Comparable(s, t)
  <2>1. worker'[w].stage = "reconcile" /\ worker'[w].source = s /\ worker'[w].step = "seen"
    BY <1>2 DEF At, On
  <2>2. CASE worker'[w].step = worker[w].step /\ Stays(w) /\ worker'[w].found = worker[w].found
    BY <1>2, <2>1, <2>2 DEF Missed, At, On, Stays
  <2>3. ASSUME NEW u \in Sources, ReadInputs(w, u), Stays(w),
               worker'[w].found = {x \in Sources \ {u} : Comparable(u, x)}
        PROVE  ReadInputs(w, s) /\ ~Comparable(s, t)
    <3>1. u = s
      BY <2>1, <2>3 DEF ReadInputs, At, On, Stays
    <3>2. QED
      BY <1>2, <2>3, <3>1
  <2>4. \A u \in Sources : Stays(w) => ~ReadDivergences(w, u)
    BY <2>1 DEF ReadDivergences, At, On, Stays
  <2>5. WorkerMove(w)
    BY <1>0, WorkerStep
  <2>6. worker'[w] # Rest
    BY <2>1, RestFacts
  <2>7. QED
    BY <2>1, <2>2, <2>3, <2>4, <2>5, <2>6 DEF WorkerMove, Left, Stays, Knows
<1>3. QED
  BY <1>1, <1>2 DEF Missed

\* Whose comparison has begun can be compared with.
LEMMA MissesAreComparable ==
    ASSUME TInv, Solo, InOrder, ~overrun, NEW s \in Sources, NEW t \in Sources, Missed(t, s)
    PROVE  Comparable(s, t)
<1>1. job[t]["reconcile"].status # "none"
  BY DEF Missed, Is, At, Solo, Late, Stages
<1>2. job[t]["claims"].status = "done"
  BY <1>1 DEF InOrder
<1>3. QED
  BY <1>2 DEF TInv, NotYetEvidence, Comparable

LEMMA SeenStep == TInv /\ Solo /\ InOrder /\ SeenByOne /\ [Next]_vars => SeenByOne'
<1> SUFFICES ASSUME TInv, Solo, InOrder, SeenByOne, [Next]_vars, ~overrun',
                    NEW s \in Sources, NEW t \in Sources, s # t, Missed(s, t)', Missed(t, s)'
             PROVE  FALSE
  BY DEF SeenByOne
<1>0. TypeOK /\ ~overrun
  BY OverrunStays DEF TInv
<1>1. \A w \in Workers : ~FinishClaims(w, s) /\ ~FinishClaims(w, t)
  BY <1>0, FreshMissesNone
<1>2. Missed(s, t) \/ \E w \in Workers : ReadInputs(w, s) /\ ~Comparable(s, t)
  BY <1>0, <1>1, MissedStep
<1>3. Missed(t, s) \/ \E w \in Workers : ReadInputs(w, t) /\ ~Comparable(t, s)
  BY <1>0, <1>1, MissedStep
<1>4. ASSUME NEW v \in Workers, NEW w \in Workers, ReadInputs(v, s), ReadInputs(w, t) PROVE FALSE
  <2>1. v # w
    BY <1>4 DEF ReadInputs, At, On
  <2>2. worker \in [Workers -> Worker]
    BY <1>0 DEF TypeOK
  <2>3. worker'[w] = worker[w]
    BY <1>4, <2>1, <2>2 DEF ReadInputs
  <2>4. worker'[w].step = "seen"
    BY <1>4, <2>2 DEF ReadInputs, Worker
  <2>5. worker[w].step = "taken"
    BY <1>4 DEF ReadInputs, At
  <2>6. QED
    BY <2>3, <2>4, <2>5
<1>5. ~(Missed(s, t) /\ Missed(t, s))
  BY <1>0 DEF SeenByOne
<1>6. QED
  BY <1>0, <1>2, <1>3, <1>4, <1>5, MissesAreComparable

LEMMA InitFound == Init => Solo /\ InOrder /\ SeenByOne
<1> SUFFICES ASSUME Init PROVE Solo /\ InOrder /\ SeenByOne
  OBVIOUS
<1>1. \A w \in Workers, s \in Sources, q \in Stages : ~On(w, s, q)
  BY RestFacts DEF Init, On, Stages
<1>2. \A s \in Sources : job[s]["reconcile"].status = "none" /\ job[s]["graph"].status = "none"
  BY DEF Init, Stages
<1>3. \A s, t \in Sources : ~Missed(s, t)
  BY <1>1, <1>2 DEF Missed, Is, At, Stages
<1>4. QED
  BY <1>1, <1>2, <1>3 DEF Solo, InOrder, SeenByOne, Late

LEMMA FoundAlways == Spec => []FoundInv
<1>1. Init => FoundInv
  BY InitT, InitFound DEF FoundInv
<1>2. FoundInv /\ [Next]_vars => FoundInv'
  BY TStep, SoloStep, OrderStep, SeenStep DEF FoundInv
<1>3. QED
  BY <1>1, <1>2, PTL DEF Spec

\* Whatever the order in which two files are confirmed, extracted and compared, and
\* however often it was tried, one of the two comparisons has seen the other file.
THEOREM NoDivergenceMissed == Spec => []DivergencesFound
<1>1. SeenByOne => DivergencesFound
  <2> SUFFICES ASSUME SeenByOne, ~overrun, NEW s \in Sources, NEW t \in Sources, s # t,
                      Is(s, "reconcile", "done"), Is(t, "reconcile", "done")
               PROVE  Diverge(s, t)
    BY DEF DivergencesFound
  <2>1. ~(Missed(s, t) /\ Missed(t, s))
    BY DEF SeenByOne
  <2>2. QED
    BY <2>1 DEF Missed, Diverge
<1>2. QED
  BY <1>1, FoundAlways, PTL DEF FoundInv

-----------------------------------------------------------------------------
(* No contradiction loses a side                                           *)

\* That writes crossed is not forgotten.
LEMMA CrossedStays ==
    ASSUME TypeOK, [Next]_vars, ~crossed'
    PROVE  /\ ~crossed
           /\ \A w \in Workers, s \in Sources, v \in Workers :
                 ReadDivergences(w, s) /\ v # w /\ Drawing(v) => worker[v].source = s
<1>1. ~crossed
  BY FrameStep DEF ReadDivergences, TypeOK
<1>2. ASSUME NEW w \in Workers, NEW s \in Sources, NEW v \in Workers,
             ReadDivergences(w, s), v # w, Drawing(v), worker[v].source # s
      PROVE  crossed'
  <2>1. v \in Others(w, "graph") /\ worker[v].step \notin {"taken", "recorded"}
    BY <1>2 DEF Others, Drawing
  <2>2. QED
    BY <1>2, <2>1 DEF ReadDivergences
<1>3. QED
  BY <1>1, <1>2

\* Who draws was drawing, or has just read the divergences of its file.
LEMMA DrawingStep ==
    ASSUME TypeOK, [Next]_vars, NEW w \in Workers, Drawing(w)'
    PROVE  /\ worker'[w].source = worker[w].source
           /\ Drawing(w) \/ ReadDivergences(w, worker[w].source)
<1>1. worker'[w].stage = "graph" /\ worker'[w].step \in {"seen", "writing", "written"}
  BY DEF Drawing
<1>2. worker'[w] # Rest
  BY <1>1, RestFacts
<1>3. Stays(w) => /\ \A s \in Sources : ~ReadInputs(w, s)
                  /\ \A s \in Sources : ReadDivergences(w, s) => s = worker[w].source
  BY <1>1 DEF Stays, ReadInputs, ReadDivergences, At, On
<1>4. \A s \in Sources : CheckOthers(w, s) \/ WriteGraph(w, s) => Drawing(w)
  BY DEF CheckOthers, WriteGraph, At, On, Drawing
<1>5. WorkerMove(w)
  BY WorkerStep
<1>6. QED
  BY <1>1, <1>2, <1>3, <1>4, <1>5 DEF WorkerMove, Left, Stays, Drawing

LEMMA ApartStep == TypeOK /\ Apart /\ [Next]_vars => Apart'
<1> SUFFICES ASSUME TypeOK, Apart, [Next]_vars PROVE Apart'
  OBVIOUS
<1>0. \A r \in relations : r[1] # r[2]
  BY DEF Apart
<1>1. \A r \in relations' : r[1] # r[2]
  <2>1. ASSUME NEW w \in Workers, NEW s \in Sources, FinishReconcile(w, s)
        PROVE  \A r \in relations' : r[1] # r[2]
    <3>1. s \notin worker[w].found
      BY <2>1 DEF FinishReconcile, At, On, Apart
    <3>2. \A t \in worker[w].found : <<s, t>>[1] = s /\ <<s, t>>[2] = t
      OBVIOUS
    <3>3. QED
      BY <1>0, <2>1, <3>1, <3>2 DEF FinishReconcile
  <2>2. QED
    BY <1>0, <2>1, FrameStep DEF FinishClaims
<1>2. ASSUME NEW w \in Workers PROVE worker'[w].source \notin worker'[w].found
  <2>1. worker[w].source \notin worker[w].found
    BY DEF Apart
  <2>2. Left(w) => worker'[w].found = {}
    BY RestFacts DEF Left
  <2>3. ASSUME NEW s \in Sources, ReadInputs(w, s), Stays(w),
               worker'[w].found = {t \in Sources \ {s} : Comparable(s, t)}
        PROVE  worker'[w].source \notin worker'[w].found
    BY <2>3 DEF ReadInputs, At, On, Stays
  <2>4. ASSUME NEW s \in Sources, ReadDivergences(w, s), Stays(w),
               worker'[w].found = {t \in linked : Diverge(s, t)}
        PROVE  worker'[w].source \notin worker'[w].found
    <3>1. worker'[w].source = s
      BY <2>4 DEF ReadDivergences, At, On, Stays
    <3>2. <<s, s>> \notin relations
      BY <1>0
    <3>3. QED
      BY <2>4, <3>1, <3>2 DEF Diverge
  <2>5. WorkerMove(w)
    BY WorkerStep
  <2>6. QED
    BY <2>1, <2>2, <2>3, <2>4, <2>5 DEF WorkerMove, Stays, Knows
<1>3. QED
  BY <1>1, <1>2 DEF Apart

LEMMA OneFileStep == TypeOK /\ OneFileDrawn /\ [Next]_vars => OneFileDrawn'
<1> SUFFICES ASSUME TypeOK, OneFileDrawn, [Next]_vars, ~crossed' PROVE
                 /\ \A v, w \in Workers : Drawing(v)' /\ Drawing(w)' => worker'[v].source = worker'[w].source
                 /\ \A w \in Workers : Drawing(w)' => worker'[w].lost \subseteq {worker'[w].source}
  BY DEF OneFileDrawn
<1>0. /\ ~crossed
      /\ \A v, w \in Workers : Drawing(v) /\ Drawing(w) => worker[v].source = worker[w].source
      /\ \A w \in Workers : Drawing(w) => worker[w].lost \subseteq {worker[w].source}
  BY CrossedStays DEF OneFileDrawn
<1>1. \A w \in Workers : Drawing(w) \/ Drawing(w)' => worker[w].source \in Sources
  BY DEF TypeOK, Worker
<1>2. ASSUME NEW v \in Workers, NEW w \in Workers, Drawing(v)', Drawing(w)'
      PROVE  worker'[v].source = worker'[w].source
  <2>1. /\ worker'[v].source = worker[v].source /\ worker'[w].source = worker[w].source
        /\ Drawing(v) \/ ReadDivergences(v, worker[v].source)
        /\ Drawing(w) \/ ReadDivergences(w, worker[w].source)
    BY <1>2, DrawingStep
  <2>2. CASE v # w /\ ReadDivergences(v, worker[v].source) /\ ReadDivergences(w, worker[w].source)
    <3>1. worker \in [Workers -> Worker]
      BY DEF TypeOK
    <3>2. worker'[w] = worker[w]
      BY <2>2, <3>1 DEF ReadDivergences
    <3>3. worker[w].step = "taken"
      BY <2>2 DEF ReadDivergences, At
    <3>4. QED
      BY <1>2, <3>2, <3>3 DEF Drawing
  <2>3. CASE v # w /\ Drawing(v) /\ ReadDivergences(w, worker[w].source)
    BY <1>1, <1>2, <2>1, <2>3, CrossedStays
  <2>4. CASE v # w /\ ReadDivergences(v, worker[v].source) /\ Drawing(w)
    BY <1>1, <1>2, <2>1, <2>4, CrossedStays
  <2>5. QED
    BY <1>0, <2>1, <2>2, <2>3, <2>4
<1>3. ASSUME NEW w \in Workers, Drawing(w)'
      PROVE  worker'[w].lost \subseteq {worker'[w].source}
  <2>1. worker'[w].source = worker[w].source
    BY <1>3, DrawingStep
  <2>2. worker'[w].stage = "graph" /\ worker'[w].step \in {"seen", "writing", "written"}
    BY <1>3 DEF Drawing
  <2>3. CASE worker'[w] = worker[w]
    BY <1>0, <1>3, <2>3 DEF Drawing
  <2>4. ASSUME NEW u \in Workers \ {w}, NEW s \in Sources, WriteGraph(u, s), worker[w].stage = "graph",
               worker'[w].step = worker[w].step, worker'[w].lost = worker[w].lost \cup {s}
        PROVE  worker'[w].lost \subseteq {worker'[w].source}
    <3>1. Drawing(u) /\ worker[u].source = s
      BY <2>4 DEF WriteGraph, At, On, Drawing
    <3>2. Drawing(w)
      BY <2>2, <2>4 DEF Drawing
    <3>3. QED
      BY <1>0, <2>1, <2>4, <3>1, <3>2
  <2>5. WorkerMove(w)
    BY WorkerStep
  <2>6. worker'[w] # Rest
    BY <2>2, RestFacts
  <2>7. \A s \in Sources : Stays(w) => ~ReadInputs(w, s)
    BY <2>2 DEF ReadInputs, At, On, Stays
  <2>8. QED
    BY <2>2, <2>3, <2>4, <2>5, <2>6, <2>7 DEF WorkerMove, Left, Stays
<1>4. QED
  BY <1>2, <1>3

LEMMA SidedStep == TypeOK /\ SideInv /\ [Next]_vars => NoOneSided'
<1> SUFFICES ASSUME TypeOK, SideInv, [Next]_vars, ~crossed', NEW c \in contradictions' PROVE c.alive
  BY DEF NoOneSided
<1>0. ~crossed /\ \A d \in contradictions : d.alive /\ d \in Contradiction
  BY CrossedStays DEF SideInv, NoOneSided, TypeOK
<1>1. ASSUME NEW w \in Workers, NEW s \in Sources, WriteGraph(w, s) PROVE c.alive
  <2>1. worker[w].source = s /\ Drawing(w)
    BY <1>1 DEF WriteGraph, At, On, Drawing
  <2>2. s \notin worker[w].found /\ worker[w].lost \subseteq {s}
    BY <1>0, <2>1 DEF SideInv, Apart, OneFileDrawn
  <2>3. ASSUME NEW d \in Kept(s), c = [d EXCEPT !.alive = d.alive /\ d.to # s] PROVE c.alive
    <3>1. d \in Contradiction /\ d.alive /\ d.to # s
      BY <1>0, <2>3 DEF Kept
    <3>2. c.alive = (d.alive /\ d.to # s)
      BY <2>3, <3>1 DEF Contradiction
    <3>3. QED
      BY <3>1, <3>2
  <2>4. ASSUME NEW t \in worker[w].found, c = [by |-> s, to |-> t, alive |-> t \notin worker[w].lost]
        PROVE  c.alive
    <3>1. t \notin worker[w].lost
      BY <2>2
    <3>2. c.alive = (t \notin worker[w].lost)
      BY <2>4
    <3>3. QED
      BY <3>1, <3>2
  <2>5. QED
    BY <1>1, <2>3, <2>4 DEF WriteGraph
<1>2. QED
  BY <1>0, <1>1, FrameStep

LEMMA SideAlways == Spec => [](TInv /\ SideInv)
<1>1. Init => SideInv
  BY RestFacts DEF Init, SideInv, Apart, OneFileDrawn, NoOneSided, Drawing
<1>2. TInv /\ SideInv /\ [Next]_vars => SideInv'
  BY ApartStep, OneFileStep, SidedStep DEF SideInv, TInv
<1>3. QED
  BY <1>1, <1>2, InitT, TStep, PTL DEF Spec

\* A contradiction is only left without one of its Claims where two files were
\* written at once; retries and duplicated workers of one file do not do it.
THEOREM SidesKept == Spec => []NoOneSided
<1>1. SideInv => NoOneSided
  BY DEF SideInv
<1>2. QED
  BY <1>1, SideAlways, PTL

-----------------------------------------------------------------------------
(* Every divergence is drawn                                               *)

\* The comparison of s is over.
Reconciled(s) == job[s]["reconcile"].status \notin {"none", "pending"}

\* Nothing has gone wrong so far.
Orderly == TInv /\ Solo /\ InOrder /\ SideInv /\ OneDrawn /\ BothDrawn /\ ~overrun /\ ~crossed

LEMMA ReconciledStays ==
    ASSUME Orderly, [Next]_vars, NEW s \in Sources, Reconciled(s)
    PROVE  /\ Reconciled(s)'
           /\ \A w \in Workers : ~FinishReconcile(w, s) /\ ~FinishClaims(w, s)
<1>0. /\ TInv /\ Solo /\ InOrder /\ ~overrun /\ TypeOK /\ "reconcile" \in Late
  BY DEF Orderly, TInv, Late, Stages
<1>1. \A w \in Workers : ~FinishClaims(w, s)
  BY <1>0, ExtractionEnds DEF Reconciled
<1>2. \A w \in Workers : ~FinishReconcile(w, s)
  BY <1>0 DEF Reconciled, FinishReconcile, At, Solo
<1>3. Reconciled(s)'
  BY <1>0, <1>1, NotPendingMoves DEF Reconciled
<1>4. QED
  BY <1>1, <1>2, <1>3

\* Whoever writes a file to the graph does so alone, and after its comparison.
LEMMA DrawerFacts ==
    ASSUME Orderly, NEW w \in Workers, NEW s \in Sources, On(w, s, "graph")
    PROVE  /\ job[s]["graph"].status = "pending" /\ Reconciled(s)
           /\ \A v \in Workers : On(v, s, "graph") => v = w
           /\ Drawing(w) => worker[w].lost = {}
<1>0. Solo /\ InOrder /\ ~overrun /\ "graph" \in Late
  BY DEF Orderly, Late, Stages
<1>1. job[s]["graph"].status = "pending" /\ \A v \in Workers : On(v, s, "graph") => v = w
  BY <1>0 DEF Solo
<1>2. Reconciled(s)
  BY <1>0, <1>1 DEF InOrder, Reconciled
<1>3. Drawing(w) => worker[w].lost = {}
  <2>1. Drawing(w) => s \notin worker[w].lost
    BY DEF Orderly, OneDrawn
  <2>2. Drawing(w) => worker[w].lost \subseteq {s}
    BY DEF Orderly, SideInv, OneFileDrawn, On
  <2>3. QED
    BY <2>1, <2>2
<1>4. QED
  BY <1>1, <1>2, <1>3

\* No divergence appears between files whose comparisons are over.
LEMMA DivergeStep ==
    ASSUME Orderly, [Next]_vars, NEW s \in Sources, NEW t \in Sources,
           Reconciled(s), Reconciled(t), Diverge(s, t)'
    PROVE  Diverge(s, t)
<1>1. \A w \in Workers : ~FinishReconcile(w, s) /\ ~FinishReconcile(w, t)
  BY ReconciledStays
<1>2. <<s, t>> \in relations' \/ <<t, s>> \in relations'
  BY DEF Diverge
<1>3. ASSUME NEW w \in Workers, NEW u \in Sources, FinishReconcile(w, u)
      PROVE  Diverge(s, t)
  <2>1. u # s /\ u # t
    BY <1>1, <1>3
  <2>2. QED
    BY <1>2, <1>3, <2>1 DEF FinishReconcile, Diverge
<1>4. ASSUME NEW w \in Workers, NEW u \in Sources, FinishClaims(w, u)
      PROVE  Diverge(s, t)
  BY <1>2, <1>4 DEF FinishClaims, Diverge
<1>5. QED
  BY <1>2, <1>3, <1>4, FrameStep DEF Diverge

\* A contradiction between others stays when a file is written.
LEMMA DrawnStays ==
    ASSUME TypeOK, [Next]_vars, NEW s \in Sources, NEW t \in Sources, Drawn(s, t),
           \A w \in Workers : ~WriteGraph(w, s) /\ ~WriteGraph(w, t)
    PROVE  Drawn(s, t)'
<1>1. PICK c \in contradictions : {c.by, c.to} = {s, t} /\ c.alive
  BY DEF Drawn
<1>2. CASE contradictions' = contradictions
  BY <1>1, <1>2 DEF Drawn
<1>3. ASSUME NEW w \in Workers, NEW u \in Sources, WriteGraph(w, u)
      PROVE  Drawn(s, t)'
  <2>1. c.by # u /\ c.to # u
    BY <1>1, <1>3
  <2>2. c \in Kept(u)
    BY <1>1, <2>1 DEF Kept
  <2> DEFINE d == [c EXCEPT !.alive = c.alive /\ c.to # u]
  <2>3. d \in contradictions'
    BY <1>3, <2>2 DEF WriteGraph
  <2>4. d.by = c.by /\ d.to = c.to /\ d.alive = (c.alive /\ c.to # u)
    BY <1>1 DEF TypeOK, Contradiction
  <2> HIDE DEF d
  <2>5. d.alive /\ {d.by, d.to} = {s, t}
    BY <1>1, <2>1, <2>4
  <2>6. QED
    BY <2>3, <2>5 DEF Drawn
<1>4. QED
  BY <1>2, <1>3, FrameStep

\* Who joins the files whose claims have the ids of their Claims.
LEMMA LinkedStep ==
    ASSUME TypeOK, [Next]_vars, NEW s \in Sources, s \in linked'
    PROVE  /\ s \in linked \/ \E w \in Workers : RecordIds(w, s)
           /\ \A w \in Workers : ~FinishClaims(w, s) /\ ~WriteGraph(w, s)
<1>1. \A w \in Workers : ~FinishClaims(w, s) /\ ~WriteGraph(w, s)
  BY DEF FinishClaims, WriteGraph
<1>2. ASSUME NEW w \in Workers, NEW u \in Sources, FinishClaims(w, u) \/ WriteGraph(w, u)
      PROVE  s \in linked
  BY <1>2 DEF FinishClaims, WriteGraph
<1>3. ASSUME NEW w \in Workers, NEW u \in Sources, RecordIds(w, u), u # s
      PROVE  s \in linked
  BY <1>3 DEF RecordIds
<1>4. QED
  BY <1>1, <1>2, <1>3, FrameStep

\* ... and who leaves them.
LEMMA UnlinkedStep ==
    ASSUME TypeOK, [Next]_vars, NEW s \in Sources, s \in linked, s \notin linked'
    PROVE  \E w \in Workers : FinishClaims(w, s) \/ WriteGraph(w, s) \/ RecordIds(w, s)
<1>1. ASSUME NEW w \in Workers, NEW u \in Sources, FinishClaims(w, u) \/ WriteGraph(w, u) \/ RecordIds(w, u)
      PROVE  u = s
  BY <1>1 DEF FinishClaims, WriteGraph, RecordIds
<1>2. QED
  BY <1>1, FrameStep

\* The extraction and the Claim of a file change only with these.
LEMMA VersionStep ==
    ASSUME TypeOK, [Next]_vars, NEW s \in Sources
    PROVE  /\ claims'[s] = claims[s] \/ \E w \in Workers : FinishClaims(w, s)
           /\ drawn'[s] = drawn[s] \/ \E w \in Workers : WriteGraph(w, s)
<1>1. claims \in [Sources -> Versions] /\ drawn \in [Sources -> Versions]
  BY DEF TypeOK
<1>2. ASSUME NEW w \in Workers, NEW u \in Sources, FinishClaims(w, u), u # s
      PROVE  claims'[s] = claims[s]
  BY <1>1, <1>2 DEF FinishClaims
<1>3. ASSUME NEW w \in Workers, NEW u \in Sources, WriteGraph(w, u), u # s
      PROVE  drawn'[s] = drawn[s]
  BY <1>1, <1>3 DEF WriteGraph
<1>4. QED
  BY <1>2, <1>3, FrameStep

\* What a worker that writes s to the graph has done in a step.
DrawerMove(w, s) ==
    \/ worker'[w] = worker[w] /\ \A v \in Workers : ~WriteGraph(v, s) /\ ~RecordIds(v, s)
    \/ /\ \E u \in Workers, t \in Sources \ {s} :
              WriteGraph(u, t) /\ worker'[w].lost = worker[w].lost \cup {t}
       /\ \A v \in Workers : ~WriteGraph(v, s) /\ ~RecordIds(v, s)
       /\ Stays(w) /\ Knows(w) /\ worker'[w].step = worker[w].step
    \/ /\ ReadDivergences(w, s)
       /\ worker'[w].step = "seen" /\ worker'[w].found = {t \in linked : Diverge(s, t)}
       /\ worker'[w].lost = {} /\ worker'[w].version = claims[s]
    \/ /\ CheckOthers(w, s)
       /\ worker'[w].step = "writing" /\ worker'[w].found = worker[w].found
       /\ worker'[w].lost = {} /\ worker'[w].version = worker[w].version
    \/ WriteGraph(w, s) /\ Knows(w) /\ worker'[w].step = "written" /\ worker'[w].lost = {}
    \/ RecordIds(w, s) /\ Knows(w) /\ worker'[w].step = "recorded" /\ worker'[w].lost = worker[w].lost

LEMMA DrawerStep ==
    ASSUME Orderly, [Next]_vars, NEW w \in Workers, NEW s \in Sources, On(w, s, "graph")'
    PROVE  \/ worker'[w].step = "taken"
           \/ On(w, s, "graph") /\ DrawerMove(w, s)
<1>0. TypeOK /\ "graph" \in Stages
  BY DEF Orderly, TInv, Stages
<1>1. worker'[w].stage = "graph" /\ worker'[w].source = s /\ worker'[w] # Rest
  BY RestFacts DEF On
<1>2. WorkerMove(w)
  BY <1>0, WorkerStep
<1>3. CASE ~On(w, s, "graph")
  <2>1. ~Stays(w) /\ worker'[w] # worker[w]
    BY <1>1, <1>3 DEF Stays, On
  <2>2. QED
    BY <1>1, <1>2, <2>1 DEF WorkerMove, Left
<1>4. CASE On(w, s, "graph")
  <2>0. worker[w].stage = "graph" /\ worker[w].source = s
    BY <1>4 DEF On
  <2>1. \A v \in Workers : On(v, s, "graph") => v = w
    BY <1>4, DrawerFacts
  <2>2. \A v \in Workers : WriteGraph(v, s) \/ RecordIds(v, s) => v = w
    BY <2>1 DEF WriteGraph, RecordIds, At
  <2>3. RecordIds(w, s) => worker[w].step = "written" /\ worker'[w].step = "recorded"
    BY <1>0 DEF RecordIds, At, TypeOK, Worker
  <2>4. WriteGraph(w, s) => worker[w].step = "writing"
    BY DEF WriteGraph, At
  <2>5. WriteGraph(w, s) => worker'[w].step = "written"
    BY <1>0, LoseFacts DEF WriteGraph, TypeOK, Worker
  <2>6. CASE worker'[w] = worker[w]
    BY <1>4, <2>2, <2>3, <2>4, <2>5, <2>6 DEF DrawerMove
  <2>7. ASSUME NEW u \in Workers \ {w}, NEW t \in Sources, WriteGraph(u, t),
               Stays(w), Knows(w), worker'[w].step = worker[w].step, worker'[w].lost = worker[w].lost \cup {t}
        PROVE  DrawerMove(w, s)
    <3>1. t # s
      BY <2>2, <2>7
    <3>2. \A v \in Workers : ~WriteGraph(v, s) /\ ~RecordIds(v, s)
      BY <2>2, <2>3, <2>4, <2>5, <2>7
    <3>3. QED
      BY <2>7, <3>1, <3>2 DEF DrawerMove
  <2>8. ASSUME NEW t \in Sources
        PROVE  /\ ReadDivergences(w, t) \/ CheckOthers(w, t) \/ WriteGraph(w, t) \/ RecordIds(w, t) => t = s
               /\ ~ReadInputs(w, t)
    BY <2>0 DEF ReadDivergences, CheckOthers, WriteGraph, RecordIds, ReadInputs, At, On
  <2>9. CheckOthers(w, s) => worker[w].lost = {}
    BY <1>4, DrawerFacts DEF CheckOthers, At, On, Drawing
  <2>10. CASE \E u \in Workers \ {w}, t \in Sources :
                /\ \/ FinishClaims(u, t) /\ worker[w].stage = "reconcile"
                   \/ WriteGraph(u, t) /\ worker[w].stage = "graph"
                /\ Stays(w) /\ Knows(w) /\ worker'[w].step = worker[w].step
                /\ worker'[w].lost = worker[w].lost \cup {t}
    BY <1>4, <2>0, <2>7, <2>10
  <2>11. ASSUME NEW t \in Sources, ReadDivergences(w, t), worker'[w].step = "seen",
                worker'[w].found = {x \in linked : Diverge(t, x)}, worker'[w].lost = {},
                worker'[w].version = claims[t]
         PROVE  DrawerMove(w, s)
    <3>1. t = s
      BY <2>8, <2>11
    <3>2. QED
      BY <2>11, <3>1 DEF DrawerMove
  <2>12. ASSUME NEW t \in Sources, CheckOthers(w, t), worker'[w].step = "writing",
                worker'[w].found = worker[w].found \ worker[w].lost, worker'[w].lost = {},
                worker'[w].version = worker[w].version
         PROVE  DrawerMove(w, s)
    <3>1. t = s
      BY <2>8, <2>12
    <3>2. worker'[w].found = worker[w].found
      BY <2>9, <2>12, <3>1
    <3>3. QED
      BY <2>12, <3>1, <3>2 DEF DrawerMove
  <2>13. ASSUME NEW t \in Sources, WriteGraph(w, t) \/ RecordIds(w, t), Knows(w),
                \/ WriteGraph(w, t) /\ worker'[w].step = "written" /\ worker'[w].lost = {}
                \/ RecordIds(w, t) /\ worker'[w].step = "recorded" /\ worker'[w].lost = worker[w].lost
         PROVE  DrawerMove(w, s)
    <3>1. t = s
      BY <2>8, <2>13
    <3>2. QED
      BY <2>13, <3>1 DEF DrawerMove
  <2>14. QED
    BY <1>1, <1>2, <1>4, <2>6, <2>8, <2>10, <2>11, <2>12, <2>13 DEF WorkerMove, Left
<1>5. QED
  BY <1>3, <1>4

LEMMA OneDrawnStep == Orderly /\ [Next]_vars /\ ~overrun' /\ ~crossed' => OneDrawn'
<1> SUFFICES ASSUME Orderly, [Next]_vars PROVE OneDrawn'
  OBVIOUS
<1>0. TypeOK /\ TInv /\ Solo /\ OneDrawn /\ ~overrun /\ "graph" \in Late
  BY DEF Orderly, TInv, Late, Stages
<1>1. ASSUME NEW s \in Sources, s \in linked'
      PROVE  drawn'[s] = claims'[s] /\ job'[s]["reconcile"].status \notin {"none", "pending"}
  <2>1. /\ s \in linked \/ \E w \in Workers : RecordIds(w, s)
        /\ drawn'[s] = drawn[s] /\ claims'[s] = claims[s]
    BY <1>0, <1>1, LinkedStep, VersionStep
  <2>2. CASE s \in linked
    <3>1. drawn[s] = claims[s] /\ Reconciled(s)
      BY <1>0, <2>2 DEF OneDrawn, Reconciled
    <3>2. Reconciled(s)'
      BY <3>1, ReconciledStays
    <3>3. QED
      BY <2>1, <3>1, <3>2 DEF Reconciled
  <2>3. ASSUME NEW w \in Workers, RecordIds(w, s)
        PROVE  drawn[s] = claims[s] /\ Reconciled(s)
    BY <1>0, <2>3, DrawerFacts DEF RecordIds, At, OneDrawn
  <2>4. QED
    BY <2>1, <2>2, <2>3, ReconciledStays DEF Reconciled
<1>2. ASSUME NEW s \in Sources, Is(s, "graph", "done")'
      PROVE  s \in linked'
  <2>1. job'[s]["graph"].status = "done"
    BY <1>2 DEF Is
  <2>2. CASE \E w \in Workers : FinishGraph(w, s)
    BY <1>0, <2>2 DEF FinishGraph, At, OneDrawn, texts
  <2>3. CASE ~ \E w \in Workers : FinishGraph(w, s)
    <3>1. job[s]["graph"].status = "done"
      <4>1. LateMove(s, "graph")
        BY <1>0, JobStep
      <4>2. QED
        BY <2>1, <2>3, <4>1, QueuedFacts DEF LateMove
    <3>2. s \in linked /\ Reconciled(s)
      <4>1. job[s]["reconcile"].status \notin {"none", "pending"}
        BY <1>0, <3>1 DEF Orderly, InOrder
      <4>2. QED
        BY <1>0, <3>1, <4>1 DEF OneDrawn, Is, Reconciled
    <3>3. \A w \in Workers : ~On(w, s, "graph")
      BY <3>1, DrawerFacts
    <3>4. QED
      BY <1>0, <3>2, <3>3, UnlinkedStep, ReconciledStays DEF WriteGraph, RecordIds, At
  <2>4. QED
    BY <2>2, <2>3
<1>3. ASSUME NEW w \in Workers, NEW s \in Sources, On(w, s, "graph")'
      PROVE  /\ worker'[w].step # "taken" => worker'[w].version = claims'[s]
             /\ worker'[w].step \in {"written", "recorded"} => drawn'[s] = claims'[s]
             /\ worker'[w].step = "recorded" => s \in linked'
             /\ Drawing(w)' => s \notin worker'[w].lost
  <2>1. CASE worker'[w].step = "taken"
    BY <2>1 DEF Drawing
  <2>2. CASE On(w, s, "graph") /\ DrawerMove(w, s)
    <3>1. /\ worker[w].step # "taken" => worker[w].version = claims[s]
          /\ worker[w].step \in {"written", "recorded"} => drawn[s] = claims[s]
          /\ worker[w].step = "recorded" => s \in linked
          /\ Drawing(w) => s \notin worker[w].lost
      BY <1>0, <2>2 DEF OneDrawn
    <3>2. Reconciled(s)
      BY <2>2, DrawerFacts
    <3>3. \A v \in Workers : ~FinishClaims(v, s)
      BY <3>2, ReconciledStays
    <3>4. claims'[s] = claims[s]
      BY <1>0, <3>3, VersionStep
    <3>5. CASE /\ \A v \in Workers : ~WriteGraph(v, s) /\ ~RecordIds(v, s)
               /\ worker'[w].step = worker[w].step /\ worker'[w].version = worker[w].version
               /\ s \in worker'[w].lost => s \in worker[w].lost
      <4>1. drawn'[s] = drawn[s]
        BY <1>0, <3>5, VersionStep
      <4>2. s \in linked => s \in linked'
        BY <1>0, <3>3, <3>5, UnlinkedStep
      <4>3. Drawing(w)' => Drawing(w)
        BY <2>2, <3>5 DEF Drawing, On
      <4>4. QED
        BY <3>1, <3>4, <3>5, <4>1, <4>2, <4>3
    <3>6. CASE ReadDivergences(w, s) /\ worker'[w].step = "seen"
               /\ worker'[w].lost = {} /\ worker'[w].version = claims[s]
      BY <3>4, <3>6
    <3>7. CASE CheckOthers(w, s) /\ worker'[w].step = "writing"
               /\ worker'[w].lost = {} /\ worker'[w].version = worker[w].version
      BY <3>1, <3>4, <3>7 DEF CheckOthers, At
    <3>8. CASE WriteGraph(w, s) /\ Knows(w) /\ worker'[w].step = "written" /\ worker'[w].lost = {}
      <4>1. worker[w].version = claims[s]
        BY <3>1, <3>8 DEF WriteGraph, At
      <4>2. drawn'[s] = worker[w].version
        BY <1>0, <3>8 DEF WriteGraph, TypeOK
      <4>3. QED
        BY <3>4, <3>8, <4>1, <4>2 DEF Knows
    <3>9. CASE RecordIds(w, s) /\ Knows(w) /\ worker'[w].step = "recorded"
      <4>1. worker[w].step = "written" /\ Drawing(w)
        BY <3>9 DEF RecordIds, At, On, Drawing
      <4>2. s \in linked' /\ drawn' = drawn
        BY <3>1, <3>9, <4>1 DEF RecordIds, graph
      <4>3. QED
        BY <3>1, <3>4, <3>9, <4>1, <4>2 DEF Knows, Drawing
    <3>10. QED
      BY <2>2, <3>5, <3>6, <3>7, <3>8, <3>9 DEF DrawerMove, Stays, Knows
  <2>3. QED
    BY <1>3, <2>1, <2>2, DrawerStep
<1>4. linked' \subseteq Sources
  BY <1>0, TStep DEF TInv, TypeOK
<1>5. QED
  BY <1>1, <1>2, <1>3, <1>4 DEF OneDrawn

LEMMA BothDrawnStep == Orderly /\ [Next]_vars /\ ~overrun' /\ ~crossed' => BothDrawn'
<1> SUFFICES ASSUME Orderly, [Next]_vars PROVE BothDrawn'
  OBVIOUS
<1>0. TypeOK /\ OneDrawn /\ BothDrawn /\ linked \subseteq Sources /\ linked' \subseteq Sources
  <2>1. TypeOK /\ TypeOK'
    BY TStep DEF Orderly, TInv
  <2>2. QED
    BY <2>1 DEF Orderly, TypeOK
<1>1. \A s \in linked : Reconciled(s)
  BY <1>0 DEF OneDrawn, Reconciled
\* A file joins another that is there.
<1>2. ASSUME NEW s \in linked', NEW t \in linked', s # t, Diverge(s, t)', s \notin linked
      PROVE  Drawn(s, t)'
  <2>1. PICK w \in Workers : RecordIds(w, s)
    BY <1>0, <1>2, LinkedStep
  <2>2. t \in linked /\ relations' = relations /\ contradictions' = contradictions
    BY <1>2, <2>1 DEF RecordIds, graph
  <2>3. Diverge(s, t) /\ On(w, s, "graph") /\ worker[w].step = "written"
    BY <1>2, <2>1, <2>2 DEF Diverge, RecordIds, At
  <2>4. Drawn(s, t)
    BY <1>0, <1>2, <2>2, <2>3 DEF BothDrawn
  <2>5. QED
    BY <2>2, <2>4 DEF Drawn
<1>3. ASSUME NEW s \in linked', NEW t \in linked', s # t, Diverge(s, t)'
      PROVE  Drawn(s, t)'
  <2>1. CASE s \notin linked
    BY <1>2, <1>3, <2>1
  <2>2. CASE t \notin linked
    <3>1. Diverge(t, s)'
      BY <1>3 DEF Diverge
    <3>2. Drawn(t, s)'
      BY <1>2, <1>3, <2>2, <3>1
    <3>3. QED
      BY <3>2 DEF Drawn
  <2>3. CASE s \in linked /\ t \in linked
    <3>1. Diverge(s, t)
      BY <1>0, <1>1, <1>3, <2>3, DivergeStep
    <3>2. Drawn(s, t)
      BY <1>0, <1>3, <2>3, <3>1 DEF BothDrawn
    <3>3. QED
      BY <1>0, <1>3, <3>2, LinkedStep, DrawnStays
  <2>4. QED
    BY <2>1, <2>2, <2>3
<1>4. ASSUME NEW w \in Workers, NEW s \in Sources, NEW t \in linked',
             On(w, s, "graph")', s # t, Diverge(s, t)'
      PROVE  /\ worker'[w].step \in {"seen", "writing"} => t \in worker'[w].found
             /\ worker'[w].step = "written" => Drawn(s, t)'
  <2>1. CASE worker'[w].step = "taken"
    BY <2>1
  <2>2. CASE On(w, s, "graph") /\ DrawerMove(w, s) /\ t \notin linked
    <3>1. PICK u \in Workers : RecordIds(u, t)
      BY <1>0, <2>2, LinkedStep
    <3>2. u # w /\ Drawing(u) /\ worker[u].source = t /\ worker[w].source = s
      BY <1>4, <2>2, <3>1 DEF RecordIds, At, On, Drawing
    <3>3. worker'[w] = worker[w]
      BY <1>0, <3>1, <3>2 DEF RecordIds, TypeOK
    <3>4. ~Drawing(w)
      BY <1>4, <3>2 DEF Orderly, SideInv, OneFileDrawn
    <3>5. QED
      BY <2>2, <3>3, <3>4 DEF Drawing, On
  <2>3. CASE On(w, s, "graph") /\ DrawerMove(w, s) /\ t \in linked
    <3>1. Diverge(s, t)
      BY <1>1, <1>4, <2>3, <1>0, DrawerFacts, DivergeStep
    <3>2. /\ worker[w].step \in {"seen", "writing"} => t \in worker[w].found
          /\ worker[w].step = "written" => Drawn(s, t)
      BY <1>0, <1>4, <2>3, <3>1 DEF BothDrawn
    <3>3. CASE /\ \A v \in Workers : ~WriteGraph(v, s)
               /\ worker'[w].step = worker[w].step /\ worker'[w].found = worker[w].found
      <4>1. Drawn(s, t) => Drawn(s, t)'
        BY <1>0, <2>3, <3>3, LinkedStep, DrawnStays
      <4>2. QED
        BY <3>2, <3>3, <4>1
    <3>4. CASE worker'[w].step = "seen" /\ worker'[w].found = {x \in linked : Diverge(s, x)}
      BY <2>3, <3>1, <3>4
    <3>5. CASE CheckOthers(w, s) /\ worker'[w].step = "writing" /\ worker'[w].found = worker[w].found
      BY <3>2, <3>5 DEF CheckOthers, At
    <3>6. CASE WriteGraph(w, s) /\ worker'[w].step = "written"
      <4>1. t \in worker[w].found
        BY <3>2, <3>6 DEF WriteGraph, At
      <4>2. worker[w].lost = {}
        BY <2>3, <3>6, DrawerFacts DEF WriteGraph, At, On, Drawing
      <4> DEFINE c == [by |-> s, to |-> t, alive |-> t \notin worker[w].lost]
      <4>3. c \in contradictions'
        BY <3>6, <4>1 DEF WriteGraph
      <4>4. {c.by, c.to} = {s, t} /\ c.alive
        BY <4>2
      <4>5. QED
        BY <3>6, <4>3, <4>4 DEF Drawn
    <3>7. CASE worker'[w].step = "recorded"
      BY <3>7
    <3>8. QED
      BY <2>3, <3>3, <3>4, <3>5, <3>6, <3>7 DEF DrawerMove, Knows
  <2>4. QED
    BY <1>0, <1>4, <2>1, <2>2, <2>3, DrawerStep
<1>5. QED
  BY <1>3, <1>4 DEF BothDrawn

LEMMA InitDrawn == Init => DrawnInv
<1> SUFFICES ASSUME Init PROVE OneDrawn /\ BothDrawn
  BY DEF DrawnInv
<1>1. linked = {} /\ \A s \in Sources : job[s]["graph"].status # "done"
  BY DEF Init, Stages
<1>2. \A w \in Workers, s \in Sources : ~On(w, s, "graph")
  BY RestFacts DEF Init, On
<1>3. QED
  BY <1>1, <1>2 DEF OneDrawn, BothDrawn, Is

\* Two files in the graph that diverge have their contradiction there, between the
\* claims they make now, in whatever order they were written and written again.
THEOREM NoDivergenceUndrawn == Spec => []DivergencesDrawn
<1> DEFINE All == FoundInv /\ SideInv /\ DrawnInv
<1>1. All /\ [Next]_vars => DrawnInv'
  <2> SUFFICES ASSUME All, [Next]_vars, ~overrun', ~crossed' PROVE OneDrawn' /\ BothDrawn'
    BY DEF DrawnInv
  <2>1. ~overrun /\ ~crossed
    BY OverrunStays, CrossedStays DEF FoundInv, TInv
  <2>2. Orderly
    BY <2>1 DEF Orderly, FoundInv, DrawnInv
  <2>3. QED
    BY <2>2, OneDrawnStep, BothDrawnStep
<1>2. DrawnInv => DivergencesDrawn
  <2> SUFFICES ASSUME OneDrawn, BothDrawn, NEW s \in Sources, NEW t \in Sources, s # t,
                      Is(s, "graph", "done"), Is(t, "graph", "done"), Diverge(s, t)
               PROVE  /\ drawn[s] = claims[s] /\ drawn[t] = claims[t]
                      /\ \E c \in contradictions : {c.by, c.to} = {s, t} /\ c.alive
    BY DEF DrawnInv, DivergencesDrawn
  <2>1. s \in linked /\ t \in linked
    BY DEF OneDrawn
  <2>2. Drawn(s, t)
    BY <2>1 DEF BothDrawn
  <2>3. QED
    BY <2>1, <2>2 DEF OneDrawn, Drawn
<1> HIDE DEF All
<1>3. FoundInv /\ SideInv /\ DrawnInv => All
  BY DEF All
<1>4. QED
  BY <1>1, <1>2, <1>3, InitDrawn, FoundAlways, SideAlways, PTL DEF Spec
=============================================================================
