------------------------------ MODULE BpmnReview ------------------------------
(***************************************************************************)
(* One BPMN model: its drawing, its plan and the check of one against the  *)
(* other (backend/workspace_database/bpmn.py, reviews.py, conformance.py,  *)
(* workers/conformance_worker.py, agents/conformance_audit.py).            *)
(*                                                                         *)
(* The drawing is a sequence of versions.  Who draws locks the row of the  *)
(* model until the commit; who saves from a canvas says which version it   *)
(* started from, and is refused if that is not the last one any more.  The *)
(* plan is the review row, with a snapshot of every version of it; nobody  *)
(* locks it, and two writers that loaded the same version collide on the   *)
(* snapshot.  A change of either asks for a check, which a worker claims   *)
(* with a lease, makes with model calls of minutes, and records.           *)
(*                                                                         *)
(* The review is loaded without a lock and written at the flush, only in   *)
(* the columns whose value differs from the loaded one: two actions, and   *)
(* "seen" is the row as it was loaded.  A refused save changes nothing and *)
(* is no action.  Leases run out at any moment.                            *)
(***************************************************************************)
EXTENDS Naturals

CONSTANTS
    Consultants,   \* browser windows: saves are checked, the rest is not
    Turns,         \* agent turns: whatever they draw is checked
    Workers,       \* conformance workers
    Compares,      \* requests that compare while the caller waits
    MaxDrawings,   \* bound: versions of the drawing
    MaxVersions,   \* bound: versions of the plan
    CONFORMANCE_MAX_ATTEMPTS,
    NoOne

Writers  == Consultants \cup Turns
Auditors == Workers \cup Compares
Drawings == 0 .. MaxDrawings
Versions == 0 .. MaxVersions
Attempts == 0 .. CONFORMANCE_MAX_ATTEMPTS

ASSUME ReviewAssumption ==
    /\ {MaxDrawings, MaxVersions, CONFORMANCE_MAX_ATTEMPTS} \subseteq Nat \ {0}
    /\ Consultants \cap Turns = {} /\ Workers \cap Compares = {}
    /\ NoOne \notin Auditors

VARIABLES
    drawing,  \* the last version of the drawing (0: none yet)
    lock,     \* the writers that have the row of the model locked
    review,   \* the review row: see Review
    snap,     \* per version of the plan, its snapshot: see Snapshot
    writer,   \* per window and turn: see Writer
    auditor   \* per worker and comparing request: see Auditor

vars == <<drawing, lock, review, snap, writer, auditor>>

\* text: the version in which the plan was last rewritten, which identifies what
\* it says; answers: whose questions are answered; check: "none" is the NULL of a
\* review older than the checks; report: what the last recorded check looked at.
Review == [version  : Versions,
           text     : Versions,
           answers  : SUBSET Writers,
           status   : {"pending", "approved"},
           check    : {"none", "pending", "running", "done", "failed", "unavailable"},
           attempts : Attempts,
           lease    : Workers \cup {NoOne},
           overdue  : BOOLEAN,
           report   : [drawing : Drawings, text : Versions]]

NoReview == [version |-> 0, text |-> 0, answers |-> {}, status |-> "pending", check |-> "none",
             attempts |-> 0, lease |-> NoOne, overdue |-> FALSE,
             report |-> [drawing |-> 0, text |-> 0]]

\* A review older than its snapshots and its checks.
LegacyReview == [NoReview EXCEPT !.version = 1, !.text = 1]

\* What of the review a writer has loaded, which it decides and writes from.
Columns == [version  : Versions,
            text     : Versions,
            answers  : SUBSET Writers,
            status   : {"pending", "approved"},
            check    : {"none", "pending", "running", "done", "failed", "unavailable"},
            attempts : Attempts]

Loaded(row) == [version |-> row.version, text |-> row.text, answers |-> row.answers,
                status |-> row.status, check |-> row.check, attempts |-> row.attempts]

Snapshot   == [status : {"none", "pending", "approved"}, text : Versions]
NoSnapshot == [status |-> "none", text |-> 0]

Drawing   == {"save", "restore", "redraw", "approve"}
Rewriting == {"prepare", "revise", "answer", "brief"}

\* base: the version of the drawing the window or the turn works on.
Writer == [op : {"none"} \cup Drawing \cup Rewriting, base : Drawings, seen : Columns]

\* What a check has read so far.
Auditor == [pc : {"idle", "plan", "canvas", "audited", "sweep"},
            drawing : Drawings, text : Versions]
Resting == [pc |-> "idle", drawing |-> 0, text |-> 0]

-----------------------------------------------------------------------------
(* The queue of checks is three columns of the review                      *)

\* _queue_conformance on a row loaded as "seen".
Queued(seen, row) ==
    [row EXCEPT !.check = IF seen.check = "pending" THEN @ ELSE "pending",
                !.attempts = IF seen.attempts = 0 THEN @ ELSE 0]

Restanding(seen, row, status) ==
    [row EXCEPT !.status = IF seen.status = status THEN @ ELSE status]

-----------------------------------------------------------------------------
(* Drawing                                                                 *)

Rests(w)    == writer[w].op = "none"
Does(w, op) == writer[w].op = op
Finished(w) == [writer[w] EXCEPT !.op = "none", !.seen = Loaded(NoReview)]

\* The canvas is loaded; a turn starts with the canvas the window sent.
Open(w) ==
    /\ Rests(w)
    /\ writer' = [writer EXCEPT ![w].base = drawing]
    /\ UNCHANGED <<drawing, lock, review, snap, auditor>>

\* Seeded fault: the row is read without FOR UPDATE.
NeverWaits == TRUE

Unlocked == lock = {}

\* _assert_bpmn_not_changed_underneath.
Unchanged(w, op) == (w \in Turns \/ op = "save") => writer[w].base = drawing

Loads(w, op) == writer' = [writer EXCEPT ![w].op = op, ![w].seen = Loaded(review)]

\* update_bpmn_model and restore_bpmn_version: lock, check, load the review.  A
\* window redraws without a precondition: drafts, marks of provenance.
LockToDraw(w, op) ==
    /\ Rests(w)
    /\ op = "redraw" => w \in Consultants
    /\ op = "restore" => drawing > 0
    /\ drawing < MaxDrawings
    /\ Unlocked /\ Unchanged(w, op)
    /\ lock' = lock \cup {w}
    /\ Loads(w, op)
    /\ UNCHANGED <<drawing, review, snap, auditor>>

\* approve_bpmn_review loads the review first, and locks the model afterwards.
LoadToApprove(w) ==
    /\ Rests(w)
    /\ review.version > 0
    /\ Loads(w, "approve")
    /\ UNCHANGED <<drawing, lock, review, snap, auditor>>

LockToApprove(w) ==
    /\ Does(w, "approve") /\ w \notin lock
    /\ drawing < MaxDrawings
    /\ Unlocked /\ Unchanged(w, "approve")
    /\ lock' = lock \cup {w}
    /\ UNCHANGED <<drawing, review, snap, writer, auditor>>

\* _mark_review_version_approved; a review without a snapshot gets one.
Approved(seen) ==
    [snap EXCEPT ![seen.version] =
        IF @.status = "none" THEN [status |-> "approved", text |-> seen.text]
        ELSE [@ EXCEPT !.status = "approved"]]

\* The flush and commit of a drawing.
Draw(w) ==
    LET seen == writer[w].seen IN
    /\ w \in lock
    /\ drawing' = drawing + 1
    /\ lock' = lock \ {w}
    /\ \/ /\ Does(w, "approve")
          /\ review' = Queued(seen, Restanding(seen, review, "approved"))
          /\ snap' = Approved(seen)
       \/ /\ ~Does(w, "approve")
          /\ review' = IF seen.version > 0 THEN Queued(seen, review) ELSE review
          /\ UNCHANGED snap
    /\ writer' = [writer EXCEPT ![w] = [Finished(w) EXCEPT !.base = drawing']]
    /\ UNCHANGED auditor

-----------------------------------------------------------------------------
(* Rewriting the plan                                                      *)

\* prepare_bpmn_review, revise_bpmn_review, answer_bpmn_review_question and
\* update_bpmn_review_brief load the review.
LoadToRewrite(w, op) ==
    /\ Rests(w)
    /\ op # "prepare" => review.version > 0
    /\ op = "brief" => review.status = "pending"
    /\ review.version < MaxVersions
    /\ Loads(w, op)
    /\ UNCHANGED <<drawing, lock, review, snap, auditor>>

\* Seeded fault: no uq_bpmn_review_version.
NeverCollides(v) == FALSE

\* uq_bpmn_review_version: that version has a snapshot already.
Collides(v) == snap[v].status # "none"

\* What a loaded review is rewritten to, in the columns each writer touches.
Raised(seen)     == [review EXCEPT !.version = seen.version + 1]
Reproposed(seen) ==
    Queued(seen, Restanding(seen, [Raised(seen) EXCEPT !.text = seen.version + 1], "pending"))
Answered(seen, w) == [Raised(seen) EXCEPT !.answers = seen.answers \cup {w}]

Rewritten(w) ==
    LET seen == writer[w].seen
    IN  CASE writer[w].op \in {"prepare", "revise"} -> Reproposed(seen)
          [] Does(w, "answer") -> Answered(seen, w)
          [] Does(w, "brief")  -> Raised(seen)

\* The snapshot is taken from the row in memory.
Taken(w) ==
    LET op   == writer[w].op
        seen == writer[w].seen
    IN  IF op \in {"prepare", "revise"}
        THEN [status |-> "pending", text |-> seen.version + 1]
        ELSE [status |-> seen.status, text |-> seen.text]

Rewrite(w) ==
    LET v == writer[w].seen.version + 1 IN
    /\ writer[w].op \in Rewriting
    /\ ~Collides(v)
    /\ review' = Rewritten(w)
    /\ snap' = [snap EXCEPT ![v] = Taken(w)]
    /\ writer' = [writer EXCEPT ![w] = Finished(w)]
    /\ UNCHANGED <<drawing, lock, auditor>>

\* A transaction that is rolled back: a collision, an invalid drawing, a model
\* call that fails, a process that dies.
Abandon(w) ==
    /\ ~Rests(w)
    /\ lock' = lock \ {w}
    /\ writer' = [writer EXCEPT ![w] = Finished(w)]
    /\ UNCHANGED <<drawing, review, snap, auditor>>

-----------------------------------------------------------------------------
(* Checks                                                                  *)

At(a, pc)    == auditor[a].pc = pc
Move(a, new) == auditor' = [auditor EXCEPT ![a] = new]

\* Seeded fault: a claim whose worker died is never taken again.
DueWhilePending == review.check = "pending"

Due == \/ review.check = "pending"
       \/ review.check = "running" /\ (review.lease = NoOne \/ review.overdue)

\* due_conformance_checks; a check that was tried enough leaves the queue.
Claim(w) ==
    /\ At(w, "idle") /\ Due
    /\ \/ /\ review.attempts = CONFORMANCE_MAX_ATTEMPTS
          /\ review' = [review EXCEPT !.check = "failed", !.lease = NoOne, !.overdue = FALSE]
          /\ UNCHANGED auditor
       \/ /\ review.attempts < CONFORMANCE_MAX_ATTEMPTS
          /\ review' = [review EXCEPT !.check = "running", !.lease = w, !.overdue = FALSE,
                                      !.attempts = @ + 1]
          /\ Move(w, [Resting EXCEPT !.pc = "plan"])
    /\ UNCHANGED <<drawing, lock, snap, writer>>

\* The lease of the check in progress runs out.
TimePasses ==
    /\ review.check = "running" /\ ~review.overdue
    /\ review' = [review EXCEPT !.overdue = TRUE]
    /\ UNCHANGED <<drawing, lock, snap, writer, auditor>>

\* «Confronta ora», and the check that follows a draft: nothing is claimed.
StartCompare(a) ==
    /\ At(a, "idle")
    /\ review.version > 0
    /\ Move(a, [Resting EXCEPT !.pc = "plan"])
    /\ UNCHANGED <<drawing, lock, review, snap, writer>>

\* audit_process_conformance: the plan, then the drawing, then the model calls.
ReadPlan(a) ==
    /\ At(a, "plan")
    /\ Move(a, [auditor[a] EXCEPT !.pc = "canvas", !.text = review.text])
    /\ UNCHANGED <<drawing, lock, review, snap, writer>>

ReadCanvas(a) ==
    /\ At(a, "canvas")
    /\ Move(a, [auditor[a] EXCEPT !.pc = "audited", !.drawing = drawing])
    /\ UNCHANGED <<drawing, lock, review, snap, writer>>

\* Seeded fault: the report is recorded whoever has the claim.
HoldsAnyway(a) == TRUE

\* The claim of a worker is the last one; a comparing request presents none.
Holds(a) == a \in Workers => review.lease = a

\* record_conformance_report, with the row locked.
Record(a) ==
    /\ At(a, "audited")
    /\ review' =
         IF ~Holds(a) THEN review
         ELSE LET reported == [review EXCEPT !.report =
                                 [drawing |-> auditor[a].drawing, text |-> auditor[a].text]]
              IN  IF a \in Compares \/ review.check = "running"
                  THEN [reported EXCEPT !.check = "done", !.lease = NoOne, !.overdue = FALSE]
                  ELSE reported
    /\ Move(a, Resting)
    /\ UNCHANGED <<drawing, lock, snap, writer>>

\* UnreadableReviewError: release_conformance_check, if the claim still stands.
Unreadable(w) ==
    /\ At(w, "plan")
    /\ review' = IF review.check = "running" /\ review.lease = w
                 THEN [review EXCEPT !.check = "unavailable", !.lease = NoOne, !.overdue = FALSE]
                 ELSE review
    /\ Move(w, Resting)
    /\ UNCHANGED <<drawing, lock, snap, writer>>

\* The check fails, or its process dies: the claim is left to run out.
Fail(a) ==
    /\ ~At(a, "idle")
    /\ Move(a, Resting)
    /\ UNCHANGED <<drawing, lock, review, snap, writer>>

\* enqueue_unchecked_conformance: drawings from before there were checks.
SweepLoads(w) ==
    /\ At(w, "idle") /\ ~Due
    /\ review.version > 0 /\ review.check = "none" /\ drawing > 0
    /\ Move(w, [Resting EXCEPT !.pc = "sweep"])
    /\ UNCHANGED <<drawing, lock, review, snap, writer>>

SweepWrites(w) ==
    /\ At(w, "sweep")
    /\ review' = [review EXCEPT !.check = "pending"]
    /\ Move(w, Resting)
    /\ UNCHANGED <<drawing, lock, snap, writer>>

-----------------------------------------------------------------------------
Init ==
    /\ \/ review = NoReview /\ drawing = 0
       \/ review = LegacyReview /\ drawing = 1
    /\ lock = {}
    /\ snap = [v \in Versions |-> NoSnapshot]
    /\ writer = [w \in Writers |-> [op |-> "none", base |-> 0, seen |-> Loaded(NoReview)]]
    /\ auditor = [a \in Auditors |-> Resting]

Writes(w) ==
    \/ Open(w) \/ LoadToApprove(w) \/ LockToApprove(w) \/ Draw(w) \/ Rewrite(w) \/ Abandon(w)
    \/ \E op \in Drawing \ {"approve"} : LockToDraw(w, op)
    \/ \E op \in Rewriting : LoadToRewrite(w, op)

Audits(a) == ReadPlan(a) \/ ReadCanvas(a) \/ Record(a) \/ Fail(a)
Works(w)  == Claim(w) \/ Unreadable(w) \/ SweepLoads(w) \/ SweepWrites(w)

Next ==
    \/ \E w \in Writers : Writes(w)
    \/ \E a \in Auditors : Audits(a)
    \/ \E w \in Workers : Works(w)
    \/ \E a \in Compares : StartCompare(a)
    \/ TimePasses

Spec == Init /\ [][Next]_vars

\* The worker's loop runs for ever and its checks end, well or badly; leases run
\* out; a sweep that is begun again and again does not die every time before its
\* one statement.  Nobody is obliged to draw, to write, to compare or to commit.
FairSpec ==
    /\ Spec
    /\ WF_vars(TimePasses)
    /\ \A w \in Workers : WF_vars(Works(w) \/ Audits(w)) /\ SF_vars(SweepWrites(w))

-----------------------------------------------------------------------------
(* Properties                                                              *)

TypeOK ==
    /\ drawing \in Drawings
    /\ lock \subseteq Writers
    /\ review \in Review
    /\ snap \in [Versions -> Snapshot]
    /\ writer \in [Writers -> Writer]
    /\ auditor \in [Auditors -> Auditor]
    /\ \A w \in Writers :
          /\ w \in lock => writer[w].op \in Drawing /\ drawing < MaxDrawings
          /\ writer[w].op \in Rewriting => writer[w].seen.version < MaxVersions

\* The plan one reads is the last version of its history, and every version but
\* that of a review older than the history is there: writers that loaded the
\* same version without a lock never leave a plan its history does not tell.
HeadIsRecorded ==
    /\ \A v \in 2 .. review.version : snap[v].status # "none"
    /\ \A v \in review.version + 1 .. MaxVersions : snap[v].status = "none"
    /\ snap[review.version].status # "none" => snap[review.version].text = review.text

\* An answer of the consultant survives whatever is written at the same time:
\* answers are a column that is read, extended and written without a lock.
AnswersAreKept == [][review.answers \subseteq review'.answers]_vars

\* Who says which drawing it started from replaces that drawing and no other.
SavesReplaceTheirBase ==
    [][\A w \in Writers :
          w \in lock /\ w \notin lock' /\ drawing' # drawing /\ (w \in Turns \/ Does(w, "save"))
          => writer[w].base = drawing]_vars

\* A worker never replaces a report with one of an older drawing or plan, however
\* late it records and whoever compared meanwhile.
WorkersNeverGoBack ==
    [][\A w \in Workers :
          At(w, "audited") /\ ~At(w, "audited")' /\ review'.report # review.report
          => /\ review'.report.drawing >= review.report.drawing
             /\ review'.report.text >= review.report.text]_vars

\* A drawing with a plan does not stay unchecked, nor "in corso", for ever:
\* when drawings and plans come to rest, their check has ended or was given up.
EveryCheckEnds ==
    <>[](review.version > 0 /\ drawing > 0
         => review.check \in {"done", "failed", "unavailable"})

\* Loads, locks and collisions are invisible to who works on the model: it is as if
\* each drew, proposed, answered and edited with drawing and plan to itself.
Serial == INSTANCE SerialReview
    WITH base    <- [w \in Writers |-> writer[w].base],
         version <- review.version, text <- review.text, answers <- review.answers,
         history <- [v \in 1 .. MaxVersions |-> IF snap[v].status = "none" THEN 0 ELSE snap[v].text]

ImplementsSerial == Serial!Spec
=============================================================================
