-------------------------- MODULE BpmnReview_proofs --------------------------
(***************************************************************************)
(* Theorems about BpmnReview, for any number of windows, turns, workers,   *)
(* versions and attempts.  One inductive invariant carries them all.  Its  *)
(* parts:                                                                  *)
(*                                                                         *)
(*   LockIsExclusive, LockersKnowTheirBase: who draws is alone, and what   *)
(*     it checked when it locked still holds when it commits;              *)
(*   SeenIsOld: what a writer has loaded is the review, or older; and if   *)
(*     it is older, its next version has a snapshot, so it collides;       *)
(*   ReportIsOld, ReadingIsOld: reports and checks in progress speak of    *)
(*     drawings and plans that exist;                                      *)
(*   ClaimIsAhead: the last claim reads at least what the report read.     *)
(*                                                                         *)
(* The refinement of SerialReview, at the end, adds TextInv.               *)
(***************************************************************************)
EXTENDS BpmnReview, TLAPS

LockIsExclusive == \A v, w \in lock : v = w

LockersKnowTheirBase ==
    \A w \in lock : w \in Turns \/ Does(w, "save") => writer[w].base = drawing

SeenIsOld ==
    \A w \in Writers : ~Rests(w) =>
        /\ writer[w].seen.version <= review.version
        /\ writer[w].seen.version = review.version =>
              writer[w].seen.text = review.text /\ writer[w].seen.answers = review.answers
        /\ writer[w].seen.version = 0 /\ review.version > 0 => snap[1].status # "none"

ReportIsOld ==
    /\ review.text <= review.version
    /\ review.report.text <= review.text
    /\ review.report.drawing <= drawing

ReadingIsOld ==
    \A a \in Auditors :
        /\ auditor[a].pc \in {"canvas", "audited"} => auditor[a].text <= review.text
        /\ At(a, "audited") => auditor[a].drawing <= drawing

ClaimIsAhead ==
    \A w \in Workers : review.lease = w =>
        /\ auditor[w].pc \in {"canvas", "audited"} => review.report.text <= auditor[w].text
        /\ At(w, "audited") => review.report.drawing <= auditor[w].drawing

IInv ==
    /\ TypeOK
    /\ LockIsExclusive
    /\ LockersKnowTheirBase
    /\ HeadIsRecorded
    /\ SeenIsOld
    /\ ReportIsOld
    /\ ReadingIsOld
    /\ ClaimIsAhead

-----------------------------------------------------------------------------
(* The operators the actions are built from                                *)

\* The parts of TypeOK, so that a step proves the ones it disturbs.
DrawingOK == drawing \in Drawings
ReviewOK  == review \in Review
SnapOK    == snap \in [Versions -> Snapshot]
AuditorOK == auditor \in [Auditors -> Auditor]
WritersOK ==
    /\ lock \subseteq Writers
    /\ writer \in [Writers -> Writer]
    /\ \A w \in Writers :
          /\ w \in lock => writer[w].op \in Drawing /\ drawing < MaxDrawings
          /\ writer[w].op \in Rewriting => writer[w].seen.version < MaxVersions

LEMMA TypeParts == TypeOK <=> DrawingOK /\ ReviewOK /\ SnapOK /\ AuditorOK /\ WritersOK
BY DEF TypeOK, DrawingOK, ReviewOK, SnapOK, AuditorOK, WritersOK

LEMMA TypePartsNext ==
    TypeOK' <=> DrawingOK' /\ ReviewOK' /\ SnapOK' /\ AuditorOK' /\ WritersOK'
BY DEF TypeOK, DrawingOK, ReviewOK, SnapOK, AuditorOK, WritersOK

LEMMA Bounds ==
    /\ MaxDrawings \in Nat /\ MaxVersions \in Nat /\ CONFORMANCE_MAX_ATTEMPTS \in Nat
    /\ 0 \in Drawings /\ 0 \in Versions /\ 1 \in Versions /\ 0 \in Attempts
    /\ Versions \subseteq Nat /\ Drawings \subseteq Nat
BY ReviewAssumption DEF Drawings, Versions, Attempts

\* Two rows with the same plan, two rows with the same claim and report.
SamePlan(r, q)  == q.version = r.version /\ q.text = r.text /\ q.answers = r.answers
SameCheck(r, q) == q.lease = r.lease /\ q.report = r.report

LEMMA QueuedFacts ==
    ASSUME NEW seen \in Columns, NEW row \in Review
    PROVE  /\ Queued(seen, row) \in Review
           /\ SamePlan(row, Queued(seen, row)) /\ SameCheck(row, Queued(seen, row))
BY Bounds DEF Queued, Columns, Review, SamePlan, SameCheck

LEMMA RestandingFacts ==
    ASSUME NEW seen \in Columns, NEW row \in Review, NEW status \in {"pending", "approved"}
    PROVE  /\ Restanding(seen, row, status) \in Review
           /\ SamePlan(row, Restanding(seen, row, status))
           /\ SameCheck(row, Restanding(seen, row, status))
BY DEF Restanding, Columns, Review, SamePlan, SameCheck

LEMMA LoadedFacts ==
    ASSUME NEW row \in Review
    PROVE  Loaded(row) \in Columns /\ SamePlan(row, Loaded(row))
BY DEF Loaded, Columns, Review, SamePlan

LEMMA NoReviewType == NoReview \in Review /\ LegacyReview \in Review
BY Bounds DEF NoReview, LegacyReview, Review

-----------------------------------------------------------------------------
(* What is left alone                                                      *)

LEMMA PlanUntouched ==
    ASSUME IInv, UNCHANGED <<drawing, review, snap, auditor>>
    PROVE  /\ DrawingOK' /\ ReviewOK' /\ SnapOK' /\ AuditorOK'
           /\ HeadIsRecorded' /\ ReportIsOld' /\ ReadingIsOld' /\ ClaimIsAhead'
BY TypeParts DEF IInv, DrawingOK, ReviewOK, SnapOK, AuditorOK, HeadIsRecorded, ReportIsOld,
                 ReadingIsOld, ClaimIsAhead, At

LEMMA WritersUntouched ==
    ASSUME IInv, UNCHANGED <<drawing, lock, snap, writer>>, ReviewOK', SamePlan(review, review')
    PROVE  /\ DrawingOK' /\ SnapOK' /\ WritersOK'
           /\ LockIsExclusive' /\ LockersKnowTheirBase' /\ HeadIsRecorded' /\ SeenIsOld'
<1>1. DrawingOK' /\ SnapOK' /\ WritersOK'
  BY TypeParts DEF IInv, DrawingOK, SnapOK, WritersOK
<1>2. LockIsExclusive' /\ LockersKnowTheirBase'
  BY DEF IInv, LockIsExclusive, LockersKnowTheirBase, Does
<1>3. HeadIsRecorded'
  BY DEF IInv, HeadIsRecorded, SamePlan
<1>4. SeenIsOld'
  BY DEF IInv, SeenIsOld, SamePlan, Rests
<1> QED BY <1>1, <1>2, <1>3, <1>4

-----------------------------------------------------------------------------
(* Writers                                                                 *)

LEMMA OpenKeeps ==
    ASSUME IInv, NEW w \in Writers, Open(w)
    PROVE  IInv'
<1>1. /\ Rests(w) /\ w \notin lock
      /\ writer' = [writer EXCEPT ![w].base = drawing]
      /\ UNCHANGED <<drawing, lock, review, snap, auditor>>
  BY DEF IInv, TypeOK, Open, Rests, Drawing
<1>2. WritersOK'
  BY <1>1, TypeParts DEF IInv, WritersOK, DrawingOK, Writer
<1>3. LockIsExclusive' /\ LockersKnowTheirBase'
  BY <1>1, TypeParts DEF IInv, LockIsExclusive, LockersKnowTheirBase, Does, WritersOK, Writer
<1>4. SeenIsOld'
  BY <1>1, TypeParts DEF IInv, SeenIsOld, Rests, WritersOK, Writer
<1> QED BY <1>1, <1>2, <1>3, <1>4, PlanUntouched, TypePartsNext DEF IInv

\* A writer that loads the review has seen the review as it is.
LEMMA LoadsKeeps ==
    ASSUME IInv, NEW w \in Writers, NEW op, Loads(w, op), UNCHANGED <<review, snap>>
    PROVE  SeenIsOld'
<1>1. /\ writer' = [writer EXCEPT ![w].op = op, ![w].seen = Loaded(review)]
      /\ writer \in [Writers -> Writer] /\ review \in Review
  BY DEF IInv, TypeOK, Loads
<1>2. \A v \in Writers : v # w => writer'[v] = writer[v]
  BY <1>1
<1>3. SamePlan(review, writer'[w].seen)
  BY <1>1, LoadedFacts DEF Writer
<1>4. review.version \in Nat
  BY <1>1, Bounds DEF Review
<1>5. review.version = 0 \/ review.version > 0
  BY <1>4
<1> QED BY <1>1, <1>2, <1>3, <1>4, <1>5 DEF IInv, SeenIsOld, Rests, SamePlan

LEMMA LockToDrawKeeps ==
    ASSUME IInv, NEW w \in Writers, NEW op \in Drawing \ {"approve"}, LockToDraw(w, op)
    PROVE  IInv'
<1>1. /\ Rests(w) /\ lock = {} /\ lock' = {w} /\ drawing < MaxDrawings
      /\ w \in Turns \/ op = "save" => writer[w].base = drawing
      /\ Loads(w, op)
      /\ UNCHANGED <<drawing, review, snap, auditor>>
  BY DEF LockToDraw, Unlocked, Unchanged
<1>2. writer' = [writer EXCEPT ![w].op = op, ![w].seen = Loaded(review)]
  BY <1>1 DEF Loads
<1>3. WritersOK'
  BY <1>1, <1>2, TypeParts, LoadedFacts
     DEF IInv, WritersOK, ReviewOK, Writer, Drawing, Rewriting
<1>4. LockIsExclusive' /\ LockersKnowTheirBase'
  BY <1>1, <1>2, TypeParts DEF IInv, LockIsExclusive, LockersKnowTheirBase, Does, WritersOK, Writer
<1>5. SeenIsOld'
  BY <1>1, LoadsKeeps
<1> QED BY <1>1, <1>3, <1>4, <1>5, PlanUntouched, TypePartsNext DEF IInv

LEMMA LoadToApproveKeeps ==
    ASSUME IInv, NEW w \in Writers, LoadToApprove(w)
    PROVE  IInv'
<1>1. /\ Rests(w) /\ w \notin lock
      /\ Loads(w, "approve")
      /\ UNCHANGED <<drawing, lock, review, snap, auditor>>
  BY DEF IInv, TypeOK, LoadToApprove, Rests, Drawing
<1>2. writer' = [writer EXCEPT ![w].op = "approve", ![w].seen = Loaded(review)]
  BY <1>1 DEF Loads
<1>3. WritersOK'
  BY <1>1, <1>2, TypeParts, LoadedFacts
     DEF IInv, WritersOK, ReviewOK, Writer, Drawing, Rewriting
<1>4. LockIsExclusive' /\ LockersKnowTheirBase'
  BY <1>1, <1>2, TypeParts DEF IInv, LockIsExclusive, LockersKnowTheirBase, Does, WritersOK, Writer
<1>5. SeenIsOld'
  BY <1>1, LoadsKeeps
<1> QED BY <1>1, <1>3, <1>4, <1>5, PlanUntouched, TypePartsNext DEF IInv

LEMMA LockToApproveKeeps ==
    ASSUME IInv, NEW w \in Writers, LockToApprove(w)
    PROVE  IInv'
<1>1. /\ writer[w].op = "approve" /\ lock = {} /\ lock' = {w} /\ drawing < MaxDrawings
      /\ w \in Turns => writer[w].base = drawing
      /\ UNCHANGED <<drawing, review, snap, writer, auditor>>
  BY DEF LockToApprove, Unlocked, Unchanged, Does
<1>2. WritersOK'
  BY <1>1, TypeParts DEF IInv, WritersOK, Drawing
<1>3. LockIsExclusive' /\ LockersKnowTheirBase'
  BY <1>1 DEF LockIsExclusive, LockersKnowTheirBase, Does
<1>4. SeenIsOld'
  BY <1>1 DEF IInv, SeenIsOld, Rests
<1> QED BY <1>1, <1>2, <1>3, <1>4, PlanUntouched, TypePartsNext DEF IInv

LEMMA LoadToRewriteKeeps ==
    ASSUME IInv, NEW w \in Writers, NEW op \in Rewriting, LoadToRewrite(w, op)
    PROVE  IInv'
<1>1. /\ Rests(w) /\ w \notin lock /\ review.version < MaxVersions
      /\ Loads(w, op)
      /\ UNCHANGED <<drawing, lock, review, snap, auditor>>
  BY DEF IInv, TypeOK, LoadToRewrite, Rests, Drawing
<1>2. writer' = [writer EXCEPT ![w].op = op, ![w].seen = Loaded(review)]
  BY <1>1 DEF Loads
<1>3. WritersOK'
  BY <1>1, <1>2, TypeParts, LoadedFacts
     DEF IInv, WritersOK, ReviewOK, Writer, Drawing, Rewriting, SamePlan
<1>4. LockIsExclusive' /\ LockersKnowTheirBase'
  BY <1>1, <1>2, TypeParts DEF IInv, LockIsExclusive, LockersKnowTheirBase, Does, WritersOK, Writer
<1>5. SeenIsOld'
  BY <1>1, LoadsKeeps
<1> QED BY <1>1, <1>3, <1>4, <1>5, PlanUntouched, TypePartsNext DEF IInv

LEMMA FinishedFacts ==
    ASSUME TypeOK, NEW w \in Writers
    PROVE  /\ Finished(w) \in Writer
           /\ Finished(w).op = "none" /\ Finished(w).seen.version = 0
BY NoReviewType, LoadedFacts DEF TypeOK, Finished, Writer, Loaded, NoReview

LEMMA AbandonKeeps ==
    ASSUME IInv, NEW w \in Writers, Abandon(w)
    PROVE  IInv'
<1>1. /\ lock' = lock \ {w}
      /\ writer' = [writer EXCEPT ![w] = Finished(w)]
      /\ UNCHANGED <<drawing, review, snap, auditor>>
  BY DEF Abandon
<1>2. Finished(w) \in Writer /\ Finished(w).op = "none"
  BY FinishedFacts DEF IInv
<1>3. WritersOK'
  BY <1>1, <1>2, TypeParts DEF IInv, WritersOK, Rewriting
<1>4. LockIsExclusive' /\ LockersKnowTheirBase'
  BY <1>1, <1>2, TypeParts DEF IInv, LockIsExclusive, LockersKnowTheirBase, Does, WritersOK
<1>5. SeenIsOld'
  BY <1>1, <1>2, TypeParts DEF IInv, SeenIsOld, Rests, WritersOK
<1> QED BY <1>1, <1>3, <1>4, <1>5, PlanUntouched, TypePartsNext DEF IInv

\* What a drawing leaves of the plan, and of its history.
LEMMA DrawFacts ==
    ASSUME IInv, NEW w \in Writers, Draw(w)
    PROVE  /\ ReviewOK' /\ SnapOK' /\ SamePlan(review, review') /\ SameCheck(review, review')
           /\ \A v \in Versions : snap[v].status # "none" =>
                 snap'[v].status # "none" /\ snap'[v].text = snap[v].text
           /\ \A v \in Versions : snap[v].status = "none" /\ snap'[v].status # "none" =>
                 v = writer[w].seen.version /\ snap'[v].text = writer[w].seen.text
<1> DEFINE seen == writer[w].seen
<1>1. seen \in Columns /\ review \in Review /\ snap \in [Versions -> Snapshot]
  BY DEF IInv, TypeOK, Writer
<1>2. CASE Does(w, "approve")
  <2>1. /\ review' = Queued(seen, Restanding(seen, review, "approved"))
        /\ snap' = Approved(seen)
    BY <1>2 DEF Draw
  <2>2. ReviewOK' /\ SamePlan(review, review') /\ SameCheck(review, review')
    <3>1. /\ Restanding(seen, review, "approved") \in Review
          /\ SamePlan(review, Restanding(seen, review, "approved"))
          /\ SameCheck(review, Restanding(seen, review, "approved"))
      BY <1>1, RestandingFacts
    <3> QED BY <1>1, <2>1, <3>1, QueuedFacts DEF ReviewOK, SamePlan, SameCheck
  <2>3. seen.version \in Versions /\ seen.text \in Versions
    BY <1>1 DEF Columns
  <2> QED BY <1>1, <2>1, <2>2, <2>3 DEF Approved, Snapshot, SnapOK
<1>3. CASE ~Does(w, "approve")
  <2>1. /\ review' = IF seen.version > 0 THEN Queued(seen, review) ELSE review
        /\ snap' = snap
    BY <1>3 DEF Draw
  <2>2. ReviewOK' /\ SamePlan(review, review') /\ SameCheck(review, review')
    BY <1>1, <2>1, QueuedFacts DEF ReviewOK, SamePlan, SameCheck
  <2> QED BY <1>1, <2>1, <2>2 DEF SnapOK
<1> QED BY <1>2, <1>3

LEMMA DrawKeeps ==
    ASSUME IInv, NEW w \in Writers, Draw(w)
    PROVE  IInv'
<1>1. /\ w \in lock /\ lock' = lock \ {w} /\ drawing' = drawing + 1
      /\ writer' = [writer EXCEPT ![w] = [Finished(w) EXCEPT !.base = drawing']]
      /\ UNCHANGED auditor
  BY DEF Draw
<1>2. lock' = {} /\ drawing < MaxDrawings
  BY <1>1 DEF IInv, LockIsExclusive, TypeOK
<1>3. Finished(w) \in Writer /\ Finished(w).op = "none"
  BY FinishedFacts DEF IInv
<1>4. DrawingOK' /\ drawing \in Nat
  BY <1>1, <1>2, Bounds DEF IInv, TypeOK, DrawingOK, Drawings
<1>5. WritersOK'
  BY <1>1, <1>2, <1>3, <1>4, TypeParts DEF IInv, WritersOK, DrawingOK, Writer, Rewriting
<1>6. AuditorOK'
  BY <1>1, TypeParts DEF IInv, AuditorOK
<1>7. LockIsExclusive' /\ LockersKnowTheirBase'
  BY <1>2 DEF LockIsExclusive, LockersKnowTheirBase
<1>8. /\ writer[w].seen.version <= review.version
      /\ writer[w].seen.version = review.version => writer[w].seen.text = review.text
  BY <1>1 DEF IInv, SeenIsOld, TypeOK, Drawing, Rests
<1>9. HeadIsRecorded'
  <2>1. /\ review.version \in Versions
        /\ 2 .. review.version \subseteq Versions
        /\ review.version + 1 .. MaxVersions \subseteq Versions
        /\ \A v \in review.version + 1 .. MaxVersions : v # writer[w].seen.version
    BY <1>8, Bounds DEF IInv, TypeOK, Review, Versions, Writer, Columns
  <2> QED BY <2>1, <1>8, DrawFacts DEF IInv, HeadIsRecorded, SamePlan
<1>10. SeenIsOld'
  <2>1. \A v \in Writers : v # w => writer'[v] = writer[v]
    BY <1>1 DEF IInv, TypeOK
  <2>2. writer'[w].op = "none"
    BY <1>1, <1>3 DEF IInv, TypeOK, Writer
  <2> QED BY <2>1, <2>2, DrawFacts, Bounds DEF IInv, SeenIsOld, Rests, SamePlan
<1>11. ReportIsOld'
  BY <1>1, <1>4, DrawFacts, Bounds DEF IInv, TypeOK, ReportIsOld, SamePlan, SameCheck, Review
<1>12. ReadingIsOld'
  <2>1. \A a \in Auditors : auditor[a].drawing \in Nat
    BY Bounds DEF IInv, TypeOK, Auditor
  <2> QED BY <1>1, <1>4, <2>1, DrawFacts DEF IInv, ReadingIsOld, SamePlan, At
<1>13. ClaimIsAhead'
  BY <1>1, DrawFacts DEF IInv, ClaimIsAhead, SameCheck, At
<1> QED BY <1>4, <1>5, <1>6, <1>7, <1>9, <1>10, <1>11, <1>12, <1>13, DrawFacts, TypePartsNext
       DEF IInv

\* A rewriting that does not collide has seen the plan as it is, and records it.
LEMMA RewriteFacts ==
    ASSUME IInv, NEW w \in Writers, Rewrite(w)
    PROVE  /\ writer[w].seen.version = review.version
           /\ review.version < MaxVersions
           /\ ReviewOK' /\ SameCheck(review, review')
           /\ review'.version = review.version + 1
           /\ review'.text \in {review.text, review'.version}
           /\ \/ review'.text = review'.version /\ review'.answers = review.answers
              \/ /\ review'.text = review.text /\ writer[w].op \in {"answer", "brief"}
                 /\ review'.answers \in {review.answers, review.answers \cup {w}}
           /\ snap' = [snap EXCEPT ![review'.version] = Taken(w)]
           /\ Taken(w) \in Snapshot /\ Taken(w).status # "none" /\ Taken(w).text = review'.text
<1> DEFINE seen == writer[w].seen
           op   == writer[w].op
<1>1. seen \in Columns /\ review \in Review /\ op \in Rewriting
  BY DEF IInv, TypeOK, Writer, Rewrite
<1>2. seen.version \in Nat /\ review.version \in Nat /\ seen.version < MaxVersions
  BY <1>1, Bounds DEF IInv, TypeOK, Columns, Review
<1>3. ~Collides(seen.version + 1)
  BY DEF Rewrite
<1>4. seen.version <= review.version
  BY <1>1 DEF IInv, SeenIsOld, Rests, Rewriting
<1>5. seen.version = review.version
  <2>1. SUFFICES ASSUME seen.version + 1 <= review.version PROVE FALSE
    BY <1>2, <1>4
  <2>2. CASE seen.version = 0
    <3>1. seen.version + 1 = 1 /\ review.version > 0
      BY <1>2, <2>1, <2>2
    <3>2. snap[1].status # "none"
      BY <1>1, <2>2, <3>1 DEF IInv, SeenIsOld, Rests, Rewriting
    <3> QED BY <1>3, <3>1, <3>2 DEF Collides
  <2>3. CASE seen.version # 0
    <3>1. seen.version + 1 \in 2 .. review.version
      BY <1>2, <2>1, <2>3
    <3> QED BY <1>3, <3>1 DEF IInv, HeadIsRecorded, Collides
  <2> QED BY <2>2, <2>3
<1>6. seen.text = review.text /\ seen.answers = review.answers
  BY <1>1, <1>5 DEF IInv, SeenIsOld, Rests, Rewriting
<1>7. seen.version + 1 \in Versions /\ w \in Writers
  BY <1>2, Bounds DEF Versions
<1> DEFINE next == [review EXCEPT !.version = seen.version + 1]
<1>8. next \in Review
  BY <1>1, <1>7 DEF Review
<1>9. CASE op \in {"prepare", "revise"}
  <2> DEFINE text == [next EXCEPT !.text = seen.version + 1]
  <2>1. review' = Queued(seen, Restanding(seen, text, "pending"))
    <3>1. Rewritten(w) = Reproposed(seen)
      BY <1>9 DEF Rewritten, Does
    <3> QED BY <3>1 DEF Rewrite, Reproposed, Raised
  <2>2. text \in Review /\ text.version = seen.version + 1 /\ text.text = seen.version + 1
        /\ text.answers = review.answers /\ SameCheck(review, text)
    BY <1>1, <1>7 DEF Review, SameCheck
  <2>3. /\ Restanding(seen, text, "pending") \in Review
        /\ SamePlan(text, Restanding(seen, text, "pending"))
        /\ SameCheck(text, Restanding(seen, text, "pending"))
    BY <1>1, <2>2, RestandingFacts
  <2>4. review' \in Review /\ SamePlan(text, review') /\ SameCheck(review, review')
    BY <1>1, <2>1, <2>2, <2>3, QueuedFacts DEF SamePlan, SameCheck
  <2>5. /\ Taken(w) \in Snapshot /\ Taken(w).status # "none"
        /\ Taken(w).text = seen.version + 1
    BY <1>7, <1>9 DEF Taken, Snapshot
  <2> QED BY <1>2, <1>5, <2>2, <2>4, <2>5 DEF Rewrite, SamePlan, ReviewOK
<1>10. CASE op = "answer"
  <2>1. review' = [next EXCEPT !.answers = seen.answers \cup {w}]
    BY <1>10 DEF Rewrite, Rewritten, Does, Answered, Raised
  <2>2. /\ Taken(w) \in Snapshot /\ Taken(w).status # "none" /\ Taken(w).text = seen.text
    BY <1>1, <1>10 DEF Taken, Snapshot, Columns
  <2>3. seen.answers \cup {w} \in SUBSET Writers
    BY <1>1 DEF Columns
  <2>4. /\ review' \in Review /\ SameCheck(review, review')
        /\ review'.version = seen.version + 1 /\ review'.text = review.text
        /\ review'.answers = seen.answers \cup {w}
    BY <1>8, <2>1, <2>3 DEF Review, SameCheck
  <2> QED BY <1>2, <1>5, <1>6, <1>10, <2>2, <2>4 DEF Rewrite, ReviewOK
<1>11. CASE op = "brief"
  <2>1. review' = next
    BY <1>11 DEF Rewrite, Rewritten, Does, Raised
  <2>2. /\ Taken(w) \in Snapshot /\ Taken(w).status # "none" /\ Taken(w).text = seen.text
    BY <1>1, <1>11 DEF Taken, Snapshot, Columns
  <2> QED BY <1>1, <1>2, <1>5, <1>6, <1>8, <1>11, <2>1, <2>2
         DEF Rewrite, Review, ReviewOK, SameCheck
<1> QED BY <1>1, <1>9, <1>10, <1>11 DEF Rewriting

LEMMA RewriteKeeps ==
    ASSUME IInv, NEW w \in Writers, Rewrite(w)
    PROVE  IInv'
<1>1. /\ w \notin lock
      /\ writer' = [writer EXCEPT ![w] = Finished(w)]
      /\ UNCHANGED <<drawing, lock, auditor>>
  BY DEF IInv, TypeOK, Rewrite, Rewriting, Drawing
<1>2. Finished(w) \in Writer /\ Finished(w).op = "none"
  BY FinishedFacts DEF IInv
<1>3. /\ review.version \in Nat /\ review.text \in Nat
      /\ review'.version = review.version + 1 /\ review'.version \in Versions
  BY RewriteFacts, Bounds DEF IInv, TypeOK, Review, Versions
<1>4. DrawingOK' /\ SnapOK' /\ AuditorOK'
  BY <1>1, <1>3, RewriteFacts, TypeParts DEF IInv, DrawingOK, SnapOK, AuditorOK
<1>5. WritersOK'
  BY <1>1, <1>2, TypeParts DEF IInv, WritersOK, Rewriting
<1>6. LockIsExclusive' /\ LockersKnowTheirBase'
  BY <1>1, TypeParts DEF IInv, LockIsExclusive, LockersKnowTheirBase, Does, WritersOK
<1>7. HeadIsRecorded'
  <2>1. snap'[review'.version] = Taken(w) /\ Taken(w).status # "none"
        /\ Taken(w).text = review'.text
    BY <1>3, RewriteFacts DEF IInv, TypeOK
  <2>2. \A v \in Versions : v # review'.version => snap'[v] = snap[v]
    BY <1>3, RewriteFacts DEF IInv, TypeOK
  <2>3. /\ \A v \in 2 .. review'.version : v = review'.version \/ v \in 2 .. review.version
        /\ \A v \in review'.version + 1 .. MaxVersions :
              v \in review.version + 1 .. MaxVersions /\ v # review'.version
        /\ 2 .. review'.version \subseteq Versions
        /\ review'.version + 1 .. MaxVersions \subseteq Versions
    BY <1>3, Bounds DEF Versions
  <2> QED BY <2>1, <2>2, <2>3 DEF IInv, HeadIsRecorded
<1>8. SeenIsOld'
  <2>1. \A v \in Writers : v # w => writer'[v] = writer[v]
    BY <1>1 DEF IInv, TypeOK
  <2>2. writer'[w].op = "none"
    BY <1>1, <1>2 DEF IInv, TypeOK
  <2>3. \A v \in Writers : writer[v].seen.version \in Nat
    BY Bounds DEF IInv, TypeOK, Writer, Columns
  <2>4. snap'[1].status # "none" \/ (review.version > 0 /\ snap'[1] = snap[1])
    <3>1. snap \in [Versions -> Snapshot] /\ snap' = [snap EXCEPT ![review'.version] = Taken(w)]
          /\ Taken(w).status # "none"
      BY RewriteFacts DEF IInv, TypeOK
    <3>2. CASE review'.version = 1
      <4>1. snap' = [snap EXCEPT ![1] = Taken(w)] /\ 1 \in Versions
        BY <3>1, <3>2, Bounds
      <4> QED BY <3>1, <4>1
    <3>3. CASE review'.version # 1
      <4>1. review.version > 0
        BY <1>3, <3>3
      <4> QED BY <3>1, <3>3, <4>1, Bounds
    <3> QED BY <3>2, <3>3
  <2> QED BY <1>3, <2>1, <2>2, <2>3, <2>4 DEF IInv, SeenIsOld, Rests
<1>9. review.text <= review'.text
  BY <1>3, RewriteFacts DEF IInv, ReportIsOld
<1>10. ReportIsOld'
  <2>1. review.report.text \in Nat /\ review'.report = review.report
    BY RewriteFacts, Bounds DEF IInv, TypeOK, Review, SameCheck
  <2> QED BY <1>1, <1>3, <1>9, <2>1, RewriteFacts DEF IInv, ReportIsOld
<1>11. ReadingIsOld'
  <2>1. \A a \in Auditors : auditor[a].text \in Nat
    BY Bounds DEF IInv, TypeOK, Auditor
  <2>2. review'.text \in Nat
    BY <1>3, RewriteFacts
  <2> QED BY <1>1, <1>3, <1>9, <2>1, <2>2 DEF IInv, ReadingIsOld, At
<1>12. ClaimIsAhead'
  BY <1>1, RewriteFacts DEF IInv, ClaimIsAhead, SameCheck, At
<1> QED BY <1>4, <1>5, <1>6, <1>7, <1>8, <1>10, <1>11, <1>12, RewriteFacts, TypePartsNext
       DEF IInv

-----------------------------------------------------------------------------
(* Checks                                                                  *)

\* A check that goes on without touching the review, and has read no less than
\* the last report if it still holds the claim.
LEMMA AuditKeeps ==
    ASSUME IInv, NEW a \in Auditors, NEW new \in Auditor, Move(a, new),
           UNCHANGED <<drawing, lock, review, snap, writer>>,
           new.pc \in {"canvas", "audited"} => new.text <= review.text,
           new.pc = "audited" => new.drawing <= drawing,
           review.lease = a => /\ new.pc \in {"canvas", "audited"} => review.report.text <= new.text
                               /\ new.pc = "audited" => review.report.drawing <= new.drawing
    PROVE  IInv'
<1>1. /\ auditor' = [auditor EXCEPT ![a] = new]
      /\ auditor \in [Auditors -> Auditor]
  BY DEF IInv, TypeOK, Move
<1>2. auditor'[a] = new /\ \A b \in Auditors : b # a => auditor'[b] = auditor[b]
  BY <1>1
<1>3. ReviewOK' /\ SamePlan(review, review')
  BY DEF IInv, TypeOK, ReviewOK, SamePlan
<1>4. AuditorOK'
  BY <1>1 DEF AuditorOK
<1>5. ReportIsOld'
  BY DEF IInv, ReportIsOld
<1>6. ReadingIsOld'
  BY <1>2 DEF IInv, ReadingIsOld, At
<1>7. ClaimIsAhead'
  BY <1>2 DEF IInv, ClaimIsAhead, At, Auditors
<1> QED BY <1>3, <1>4, <1>5, <1>6, <1>7, WritersUntouched, TypePartsNext DEF IInv

\* A row that changes in its check only, and a check that comes to rest or starts.
LEMMA RestKeeps ==
    ASSUME IInv, NEW row \in Review, review' = row, SamePlan(review, row),
           UNCHANGED <<drawing, lock, snap, writer>>,
           NEW a \in Auditors, NEW new \in Auditor, Move(a, new),
           new.pc \notin {"canvas", "audited"},
           /\ row.report.text <= row.text
           /\ row.report.drawing <= drawing,
           row.lease \in Workers =>
               \/ row.lease = a
               \/ row.lease = review.lease /\ row.report = review.report
    PROVE  IInv'
<1>1. /\ auditor' = [auditor EXCEPT ![a] = new]
      /\ auditor \in [Auditors -> Auditor]
  BY DEF IInv, TypeOK, Move
<1>2. auditor'[a] = new /\ \A b \in Auditors : b # a => auditor'[b] = auditor[b]
  BY <1>1
<1>3. ReviewOK'
  BY DEF ReviewOK
<1>4. AuditorOK'
  BY <1>1 DEF AuditorOK
<1>5. ReportIsOld'
  BY DEF IInv, ReportIsOld, SamePlan
<1>6. ReadingIsOld'
  BY <1>2 DEF IInv, ReadingIsOld, At, SamePlan
<1>7. ClaimIsAhead'
  BY <1>2 DEF IInv, ClaimIsAhead, At, Auditors
<1> QED BY <1>3, <1>4, <1>5, <1>6, <1>7, WritersUntouched, TypePartsNext DEF IInv

LEMMA AuditorFacts ==
    /\ NoOne \notin Workers /\ Workers \subseteq Auditors
    /\ Resting \in Auditor /\ Resting.pc = "idle"
    /\ \A pc \in {"plan", "sweep"} : [Resting EXCEPT !.pc = pc] \in Auditor
                                     /\ [Resting EXCEPT !.pc = pc].pc = pc
BY Bounds, ReviewAssumption DEF Resting, Auditor, Auditors

LEMMA ReviewFacts ==
    ASSUME IInv
    PROVE  /\ review \in Review /\ SamePlan(review, review)
           /\ review.version \in Nat /\ review.text \in Nat /\ review.report.text \in Nat
           /\ review.report.text <= review.text /\ review.report.drawing <= drawing
BY Bounds DEF IInv, TypeOK, Review, SamePlan, ReportIsOld

LEMMA ClaimKeeps ==
    ASSUME IInv, NEW w \in Workers, Claim(w)
    PROVE  IInv'
<1>1. UNCHANGED <<drawing, lock, snap, writer>> /\ w \in Auditors
  BY DEF Claim, Auditors
<1>2. CASE /\ review' = [review EXCEPT !.check = "failed", !.lease = NoOne, !.overdue = FALSE]
           /\ UNCHANGED auditor
  <2>1. auditor[w] \in Auditor /\ At(w, "idle") /\ Move(w, auditor[w])
    BY <1>1, <1>2 DEF IInv, TypeOK, Claim, Move
  <2>2. /\ review' \in Review /\ SamePlan(review, review')
        /\ review'.report = review.report /\ review'.text = review.text
        /\ review'.lease \notin Workers
    BY <1>2, ReviewFacts, AuditorFacts DEF Review, SamePlan
  <2> QED BY <1>1, <2>1, <2>2, ReviewFacts, RestKeeps DEF At
<1>3. CASE /\ review.attempts < CONFORMANCE_MAX_ATTEMPTS
           /\ review' = [review EXCEPT !.check = "running", !.lease = w, !.overdue = FALSE,
                                       !.attempts = @ + 1]
           /\ Move(w, [Resting EXCEPT !.pc = "plan"])
  <2>1. review.attempts + 1 \in Attempts
    BY <1>3, ReviewFacts, Bounds DEF Review, Attempts
  <2>2. /\ review' \in Review /\ SamePlan(review, review')
        /\ review'.report = review.report /\ review'.text = review.text
        /\ review'.lease = w
    BY <1>3, <2>1, ReviewFacts DEF Review, SamePlan
  <2>3. /\ [Resting EXCEPT !.pc = "plan"] \in Auditor
        /\ [Resting EXCEPT !.pc = "plan"].pc \notin {"canvas", "audited"}
    BY AuditorFacts
  <2> QED BY <1>1, <1>3, <2>2, <2>3, ReviewFacts, RestKeeps
<1> QED BY <1>2, <1>3 DEF Claim

LEMMA TimePassesKeeps ==
    ASSUME IInv, TimePasses
    PROVE  IInv'
<1>1. /\ UNCHANGED <<drawing, lock, snap, writer, auditor>>
      /\ review' = [review EXCEPT !.overdue = TRUE]
  BY DEF TimePasses
<1>2. review' \in Review /\ SamePlan(review, review') /\ SameCheck(review, review')
  BY <1>1, ReviewFacts DEF Review, SamePlan, SameCheck
<1>3. ReviewOK' /\ AuditorOK'
  BY <1>1, <1>2, TypeParts DEF IInv, ReviewOK, AuditorOK
<1>4. ReportIsOld' /\ ReadingIsOld' /\ ClaimIsAhead'
  BY <1>1, <1>2 DEF IInv, ReportIsOld, ReadingIsOld, ClaimIsAhead, At, SamePlan, SameCheck
<1> QED BY <1>1, <1>2, <1>3, <1>4, WritersUntouched, TypePartsNext DEF IInv

LEMMA RecordKeeps ==
    ASSUME IInv, NEW a \in Auditors, Record(a)
    PROVE  IInv'
<1>1. /\ UNCHANGED <<drawing, lock, snap, writer>> /\ Move(a, Resting)
      /\ auditor[a] \in Auditor /\ auditor[a].pc = "audited"
  BY DEF IInv, TypeOK, Record, At
<1> DEFINE reported == [review EXCEPT !.report =
                          [drawing |-> auditor[a].drawing, text |-> auditor[a].text]]
<1>2. auditor[a].text <= review.text /\ auditor[a].drawing <= drawing
  BY <1>1 DEF IInv, ReadingIsOld, At
<1>3. /\ reported \in Review /\ SamePlan(review, reported) /\ reported.lease = review.lease
      /\ reported.report.text <= reported.text /\ reported.report.drawing <= drawing
  BY <1>1, <1>2, ReviewFacts DEF Review, SamePlan, Auditor
<1>4. CASE ~Holds(a)
  <2>1. review' = review
    BY <1>4 DEF Record
  <2> QED BY <1>1, <2>1, ReviewFacts, AuditorFacts, RestKeeps
<1>5. CASE Holds(a) /\ review' = [reported EXCEPT !.check = "done", !.lease = NoOne,
                                                  !.overdue = FALSE]
  <2>1. /\ review' \in Review /\ SamePlan(review, review')
        /\ review'.report = reported.report /\ review'.text = reported.text
        /\ review'.lease \notin Workers
    BY <1>3, <1>5, AuditorFacts DEF Review, SamePlan
  <2> QED BY <1>1, <1>3, <2>1, AuditorFacts, RestKeeps
<1>6. CASE Holds(a) /\ a \notin Compares /\ review' = reported
  <2>1. reported.lease = a
    BY <1>3, <1>6 DEF Holds, Auditors
  <2> QED BY <1>1, <1>3, <1>6, <2>1, AuditorFacts, RestKeeps
<1> QED BY <1>4, <1>5, <1>6 DEF Record

LEMMA UnreadableKeeps ==
    ASSUME IInv, NEW w \in Workers, Unreadable(w)
    PROVE  IInv'
<1>1. UNCHANGED <<drawing, lock, snap, writer>> /\ Move(w, Resting) /\ w \in Auditors
  BY DEF Unreadable, Auditors
<1>2. CASE review' = review
  BY <1>1, <1>2, ReviewFacts, AuditorFacts, RestKeeps
<1>3. CASE review' = [review EXCEPT !.check = "unavailable", !.lease = NoOne, !.overdue = FALSE]
  <2>1. /\ review' \in Review /\ SamePlan(review, review')
        /\ review'.report = review.report /\ review'.text = review.text
        /\ review'.lease \notin Workers
    BY <1>3, ReviewFacts, AuditorFacts DEF Review, SamePlan
  <2> QED BY <1>1, <2>1, ReviewFacts, AuditorFacts, RestKeeps
<1> QED BY <1>2, <1>3 DEF Unreadable

LEMMA SweepWritesKeeps ==
    ASSUME IInv, NEW w \in Workers, SweepWrites(w)
    PROVE  IInv'
<1>1. /\ UNCHANGED <<drawing, lock, snap, writer>> /\ Move(w, Resting) /\ w \in Auditors
      /\ review' = [review EXCEPT !.check = "pending"]
  BY DEF SweepWrites, Auditors
<1>2. /\ review' \in Review /\ SamePlan(review, review') /\ SameCheck(review, review')
      /\ review'.text = review.text
  BY <1>1, ReviewFacts DEF Review, SamePlan, SameCheck
<1> QED BY <1>1, <1>2, ReviewFacts, AuditorFacts, RestKeeps DEF SameCheck

\* The steps of a check that only read.
LEMMA ReadsKeep ==
    ASSUME IInv, NEW a \in Auditors,
           ReadPlan(a) \/ ReadCanvas(a) \/ Fail(a) \/ StartCompare(a) \/ SweepLoads(a)
    PROVE  IInv'
<1>1. UNCHANGED <<drawing, lock, review, snap, writer>> /\ auditor[a] \in Auditor
  BY DEF IInv, TypeOK, ReadPlan, ReadCanvas, Fail, StartCompare, SweepLoads
<1>2. CASE ReadPlan(a)
  <2> DEFINE new == [auditor[a] EXCEPT !.pc = "canvas", !.text = review.text]
  <2>1. new \in Auditor /\ new.pc = "canvas" /\ new.text = review.text /\ Move(a, new)
    BY <1>1, <1>2, ReviewFacts DEF ReadPlan, Auditor, Review
  <2> HIDE DEF new
  <2> QED BY <1>1, <2>1, ReviewFacts, AuditKeeps
<1>3. CASE ReadCanvas(a)
  <2> DEFINE new == [auditor[a] EXCEPT !.pc = "audited", !.drawing = drawing]
  <2>1. new \in Auditor /\ new.pc = "audited" /\ new.drawing = drawing /\ Move(a, new)
        /\ new.text = auditor[a].text /\ auditor[a].pc = "canvas"
    BY <1>1, <1>3, TypeParts DEF IInv, DrawingOK, ReadCanvas, Auditor, At
  <2>2. new.text <= review.text
    BY <2>1 DEF IInv, ReadingIsOld
  <2>3. drawing \in Nat /\ review.report.drawing <= new.drawing
    BY <2>1, ReviewFacts, Bounds DEF IInv, TypeOK
  <2>4. review.lease = a => review.report.text <= new.text
    <3>1. review.lease = a => a \in Workers
      BY ReviewAssumption, ReviewFacts DEF Review, Auditors
    <3> QED BY <2>1, <3>1 DEF IInv, ClaimIsAhead
  <2> HIDE DEF new
  <2> QED BY <1>1, <2>1, <2>2, <2>3, <2>4, AuditKeeps
<1>4. CASE Fail(a)
  BY <1>1, <1>4, AuditorFacts, AuditKeeps DEF Fail
<1>5. CASE StartCompare(a)
  BY <1>1, <1>5, AuditorFacts, AuditKeeps DEF StartCompare
<1>6. CASE SweepLoads(a)
  BY <1>1, <1>6, AuditorFacts, AuditKeeps DEF SweepLoads
<1> QED BY <1>2, <1>3, <1>4, <1>5, <1>6

-----------------------------------------------------------------------------
(* The invariant                                                           *)

LEMMA InitEstablishes == Init => IInv
<1> SUFFICES ASSUME Init PROVE IInv
  OBVIOUS
<1>1. /\ drawing \in {0, 1} /\ drawing \in Drawings /\ lock = {}
      /\ review \in {NoReview, LegacyReview}
      /\ drawing = 0 => review = NoReview
      /\ snap = [v \in Versions |-> NoSnapshot]
      /\ writer = [w \in Writers |-> [op |-> "none", base |-> 0, seen |-> Loaded(NoReview)]]
      /\ auditor = [a \in Auditors |-> Resting]
  BY ReviewAssumption DEF Init, Drawings
<1>2. /\ review \in Review /\ review.version \in {0, 1} /\ review.text = review.version
      /\ review.report.text = 0 /\ review.report.drawing = 0 /\ review.lease = NoOne
  <2>1. CASE review = NoReview
    BY <2>1, NoReviewType DEF NoReview
  <2>2. CASE review = LegacyReview
    BY <2>2, NoReviewType DEF NoReview, LegacyReview
  <2> QED BY <1>1, <2>1, <2>2
<1>3. WritersOK
  BY <1>1, Bounds, NoReviewType, LoadedFacts DEF WritersOK, Writer, Rewriting
<1>4. SnapOK /\ AuditorOK
  BY <1>1, Bounds, AuditorFacts DEF SnapOK, AuditorOK, NoSnapshot, Snapshot
<1>5. TypeOK
  BY <1>1, <1>2, <1>3, <1>4, TypeParts DEF DrawingOK, ReviewOK
<1>6. HeadIsRecorded
  BY <1>1, <1>2, Bounds DEF HeadIsRecorded, NoSnapshot, Versions
<1>7. LockIsExclusive /\ LockersKnowTheirBase /\ SeenIsOld
  BY <1>1 DEF LockIsExclusive, LockersKnowTheirBase, SeenIsOld, Rests
<1>8. ReportIsOld /\ ReadingIsOld /\ ClaimIsAhead
  BY <1>1, <1>2, AuditorFacts DEF ReportIsOld, ReadingIsOld, ClaimIsAhead, At
<1> QED BY <1>5, <1>6, <1>7, <1>8 DEF IInv

LEMMA StepKeeps == IInv /\ [Next]_vars => IInv'
<1> SUFFICES ASSUME IInv, [Next]_vars PROVE IInv'
  OBVIOUS
<1>1. ASSUME NEW w \in Writers, Writes(w) PROVE IInv'
  <2>1. CASE \E op \in Drawing \ {"approve"} : LockToDraw(w, op)
    BY <2>1, LockToDrawKeeps
  <2>2. CASE \E op \in Rewriting : LoadToRewrite(w, op)
    BY <2>2, LoadToRewriteKeeps
  <2> QED BY <1>1, <2>1, <2>2, OpenKeeps, LoadToApproveKeeps, LockToApproveKeeps, DrawKeeps,
             RewriteKeeps, AbandonKeeps DEF Writes
<1>2. ASSUME NEW a \in Auditors, Audits(a) PROVE IInv'
  BY <1>2, ReadsKeep, RecordKeeps DEF Audits
<1>3. ASSUME NEW w \in Workers, Works(w) PROVE IInv'
  BY <1>3, AuditorFacts, ReadsKeep, ClaimKeeps, UnreadableKeeps, SweepWritesKeeps DEF Works
<1>4. ASSUME NEW a \in Compares, StartCompare(a) PROVE IInv'
  BY <1>4, ReadsKeep DEF Auditors
<1>5. CASE TimePasses
  BY <1>5, TimePassesKeeps
<1>6. CASE UNCHANGED vars
  <2>1. ReviewOK' /\ AuditorOK' /\ SamePlan(review, review')
    BY <1>6, TypeParts DEF IInv, vars, ReviewOK, AuditorOK, SamePlan
  <2> QED BY <1>6, <2>1, PlanUntouched, WritersUntouched, TypePartsNext DEF IInv, vars
<1> QED BY <1>1, <1>2, <1>3, <1>4, <1>5, <1>6 DEF Next

LEMMA Invariance == Spec => []IInv
<1>1. Init => IInv
  BY InitEstablishes
<1>2. IInv /\ [Next]_vars => IInv'
  BY StepKeeps
<1> QED BY <1>1, <1>2, PTL DEF Spec

-----------------------------------------------------------------------------
(* The theorems                                                            *)

\* Types; who has the model locked is drawing, and there is room for the version.
THEOREM TypeCorrect == Spec => []TypeOK
<1>1. IInv => TypeOK
  BY DEF IInv
<1> QED BY <1>1, Invariance, PTL

\* The plan one reads is the last version of its history, and none is missing,
\* though nobody locks it: two writers of the same version collide.
THEOREM HeadRecorded == Spec => []HeadIsRecorded
<1>1. IInv => HeadIsRecorded
  BY DEF IInv
<1> QED BY <1>1, Invariance, PTL

\* Who draws leaves the checks alone, and no answer is lost.
LEMMA WritesFacts ==
    ASSUME IInv, NEW w \in Writers, Writes(w)
    PROVE  /\ UNCHANGED auditor /\ review'.report = review.report
           /\ review.answers \subseteq review'.answers
<1>1. CASE Draw(w)
  BY <1>1, DrawFacts DEF Draw, SamePlan, SameCheck
<1>2. CASE Rewrite(w)
  BY <1>2, RewriteFacts DEF Rewrite, SameCheck
<1>3. CASE ~Draw(w) /\ ~Rewrite(w)
  <2>1. UNCHANGED <<review, auditor>>
    BY <1>3 DEF Writes, Open, LoadToApprove, LockToApprove, Abandon, LockToDraw, LoadToRewrite
  <2> QED BY <2>1
<1> QED BY <1>1, <1>2, <1>3

\* Checks leave the plan alone, and only Record changes a report.
LEMMA AuditsFacts ==
    ASSUME IInv,
           \/ \E a \in Auditors : Audits(a)
           \/ \E w \in Workers : Works(w)
           \/ \E a \in Compares : StartCompare(a)
           \/ TimePasses
    PROVE  /\ review'.answers = review.answers
           /\ review'.report # review.report => \E a \in Auditors : Record(a)
<1>1. review \in Review
  BY DEF IInv, TypeOK
<1>2. ASSUME NEW a \in Auditors, Record(a) PROVE review'.answers = review.answers
  BY <1>1, <1>2 DEF Record, Review
<1>3. ASSUME NEW a \in Auditors, Audits(a), ~Record(a) PROVE review' = review
  BY <1>3 DEF Audits, ReadPlan, ReadCanvas, Fail
<1>4. ASSUME NEW w \in Workers, Works(w)
      PROVE  review'.answers = review.answers /\ review'.report = review.report
  BY <1>1, <1>4 DEF Works, Claim, Unreadable, SweepLoads, SweepWrites, Review
<1>5. ASSUME NEW a \in Compares, StartCompare(a) PROVE review' = review
  BY <1>5 DEF StartCompare
<1>6. CASE TimePasses
  BY <1>1, <1>6 DEF TimePasses, Review
<1> QED BY <1>2, <1>3, <1>4, <1>5, <1>6

\* Answers are a column that is read, extended and written without a lock, and
\* none is ever overwritten: who loaded the column before it changed collides.
THEOREM AnswersKept == Spec => AnswersAreKept
<1>1. IInv /\ [Next]_vars => [review.answers \subseteq review'.answers]_vars
  <2> SUFFICES ASSUME IInv, Next PROVE review.answers \subseteq review'.answers
    OBVIOUS
  <2> QED BY WritesFacts, AuditsFacts DEF Next
<1> QED BY <1>1, Invariance, PTL DEF Spec, AnswersAreKept

\* Who says which drawing it started from replaces that drawing and no other,
\* however many draw at the same time.
THEOREM BaseReplaced == Spec => SavesReplaceTheirBase
<1>1. IInv /\ [Next]_vars =>
        [\A w \in Writers :
            w \in lock /\ w \notin lock' /\ drawing' # drawing /\ (w \in Turns \/ Does(w, "save"))
            => writer[w].base = drawing]_vars
  BY DEF IInv, LockersKnowTheirBase
<1> QED BY <1>1, Invariance, PTL DEF Spec, SavesReplaceTheirBase

\* A worker that records late, after its lease ran out or after someone compared
\* while it read, never replaces a report with one of an older drawing or plan.
THEOREM WorkersGoForward == Spec => WorkersNeverGoBack
<1> DEFINE Forward ==
      \A w \in Workers :
          At(w, "audited") /\ ~At(w, "audited")' /\ review'.report # review.report
          => /\ review'.report.drawing >= review.report.drawing
             /\ review'.report.text >= review.report.text
<1>1. IInv /\ [Next]_vars => [Forward]_vars
  <2> SUFFICES ASSUME IInv, Next, NEW w \in Workers,
                      At(w, "audited"), ~At(w, "audited")', review'.report # review.report
               PROVE  /\ review'.report.drawing >= review.report.drawing
                      /\ review'.report.text >= review.report.text
    OBVIOUS
  <2>1. PICK a \in Auditors : Record(a)
    BY WritesFacts, AuditsFacts DEF Next
  <2>2. a = w
    <3>1. auditor' = [auditor EXCEPT ![a] = Resting] /\ auditor \in [Auditors -> Auditor]
      BY <2>1 DEF IInv, TypeOK, Record, Move
    <3> QED BY <3>1, AuditorFacts DEF At
  <2>3. /\ review.lease = w
        /\ review'.report = [drawing |-> auditor[w].drawing, text |-> auditor[w].text]
    BY <2>1, <2>2, ReviewFacts DEF Record, Holds, Review
  <2>4. review.report.text <= auditor[w].text /\ review.report.drawing <= auditor[w].drawing
    BY <2>3 DEF IInv, ClaimIsAhead, At
  <2> QED BY <2>3, <2>4
<1> QED BY <1>1, Invariance, PTL DEF Spec, WorkersNeverGoBack

-----------------------------------------------------------------------------
(* As if each had the model to itself                                      *)

History == [v \in 1 .. MaxVersions |-> IF snap[v].status = "none" THEN 0 ELSE snap[v].text]
Bases   == [w \in Writers |-> writer[w].base]

\* A plan has a text, and so has what a writer has loaded of it: this is why an
\* approval that finds its version unrecorded can only complete the first one.
Amending == {"revise", "answer", "brief"}
TextInv ==
    /\ review.version > 0 => review.text > 0
    /\ \A w \in Writers :
          /\ writer[w].seen.version > 0 => writer[w].seen.text > 0
          /\ writer[w].seen.text <= writer[w].seen.version
          /\ writer[w].op \in Amending => writer[w].seen.version > 0

LEMMA ChecksApart ==
    ASSUME IInv,
           \/ \E a \in Auditors : Audits(a)
           \/ \E w \in Workers : Works(w)
           \/ \E a \in Compares : StartCompare(a)
           \/ TimePasses \/ UNCHANGED vars
    PROVE  SamePlan(review, review') /\ UNCHANGED <<drawing, lock, snap, writer>>
<1>1. review \in Review
  BY DEF IInv, TypeOK
<1>2. ASSUME NEW a \in Auditors, Audits(a)
      PROVE  SamePlan(review, review') /\ UNCHANGED <<drawing, lock, snap, writer>>
  <2>1. CASE Record(a)
    BY <1>1, <2>1 DEF Record, Review, SamePlan
  <2>2. CASE ~Record(a)
    BY <1>2, <2>2 DEF Audits, ReadPlan, ReadCanvas, Fail, SamePlan
  <2> QED BY <2>1, <2>2
<1>3. ASSUME NEW w \in Workers, Works(w)
      PROVE  SamePlan(review, review') /\ UNCHANGED <<drawing, lock, snap, writer>>
  BY <1>1, <1>3 DEF Works, Claim, Unreadable, SweepLoads, SweepWrites, Review, SamePlan
<1>4. ASSUME NEW a \in Compares, StartCompare(a)
      PROVE  SamePlan(review, review') /\ UNCHANGED <<drawing, lock, snap, writer>>
  BY <1>4 DEF StartCompare, SamePlan
<1>5. CASE TimePasses
  BY <1>1, <1>5 DEF TimePasses, Review, SamePlan
<1>6. CASE UNCHANGED vars
  BY <1>6 DEF vars, SamePlan
<1> QED BY <1>2, <1>3, <1>4, <1>5, <1>6

\* What a writer has loaded and what it has looked at.
LEMMA WriterStep ==
    ASSUME IInv, NEW w \in Writers, Writes(w)
    PROVE  /\ \A v \in Writers \ {w} : writer'[v] = writer[v]
           /\ writer'[w].seen \in {writer[w].seen, Loaded(review), Loaded(NoReview)}
           /\ writer'[w].op \in Amending =>
                 \/ writer[w].op \in Amending /\ writer'[w].seen = writer[w].seen
                 \/ review.version > 0 /\ writer'[w].seen = Loaded(review)
           /\ writer'[w].base = IF Open(w) THEN drawing
                                ELSE IF Draw(w) THEN drawing' ELSE writer[w].base
<1> DEFINE Good ==
       /\ \A v \in Writers \ {w} : writer'[v] = writer[v]
       /\ writer'[w].seen \in {writer[w].seen, Loaded(review), Loaded(NoReview)}
       /\ writer'[w].op \in Amending =>
             \/ writer[w].op \in Amending /\ writer'[w].seen = writer[w].seen
             \/ review.version > 0 /\ writer'[w].seen = Loaded(review)
       /\ writer'[w].base = IF Open(w) THEN drawing
                            ELSE IF Draw(w) THEN drawing' ELSE writer[w].base
<1>1. writer \in [Writers -> Writer] /\ writer[w] \in Writer
  BY DEF IInv, TypeOK
<1>2. ASSUME drawing' = drawing PROVE ~Draw(w)
  BY <1>2, Bounds DEF Draw, IInv, TypeOK
<1>3. CASE Open(w)
  <2>1. Open(w) /\ writer' = [writer EXCEPT ![w].base = drawing] /\ Rests(w)
    BY <1>3 DEF Open
  <2>2. /\ \A v \in Writers \ {w} : writer'[v] = writer[v]
        /\ writer'[w].base = drawing /\ writer'[w].seen = writer[w].seen
        /\ writer'[w].op = "none"
    BY <1>1, <2>1 DEF Writer, Rests
  <2> QED BY <2>1, <2>2 DEF Amending
<1>4. CASE Draw(w)
  <2>1. ~Open(w) /\ Draw(w) /\ writer' = [writer EXCEPT ![w] = [Finished(w) EXCEPT !.base = drawing']]
    <3>1. drawing' # drawing
      BY <1>2, <1>4
    <3> QED BY <1>4, <3>1 DEF Draw, Open
  <2>2. writer'[w] = [Finished(w) EXCEPT !.base = drawing']
    BY <1>1, <2>1
  <2>3. writer'[w].seen = Loaded(NoReview) /\ writer'[w].base = drawing' /\ writer'[w].op = "none"
    BY <1>1, <2>2 DEF Finished, Writer
  <2> QED BY <1>1, <2>1, <2>3 DEF Amending
<1>5. CASE Rewrite(w) \/ Abandon(w)
  <2>1. ~Open(w) /\ ~Draw(w)
    BY <1>2, <1>5 DEF Open, Rewrite, Abandon, Rewriting, Rests
  <2>2. writer' = [writer EXCEPT ![w] = Finished(w)]
    BY <1>5 DEF Rewrite, Abandon
  <2>3. /\ Finished(w).seen = Loaded(NoReview) /\ Finished(w).base = writer[w].base
        /\ Finished(w).op = "none"
    BY <1>1 DEF Finished, Writer
  <2> QED BY <1>1, <2>1, <2>2, <2>3 DEF Amending
<1>6. ASSUME NEW op, Loads(w, op), Rests(w), drawing' = drawing, op # "none",
             op \in Amending => review.version > 0
      PROVE  Good
  <2>1. writer' = [writer EXCEPT ![w].op = op, ![w].seen = Loaded(review)]
    BY <1>6 DEF Loads
  <2>2. writer'[w].op = op /\ writer'[w].seen = Loaded(review) /\ writer'[w].base = writer[w].base
    BY <1>1, <2>1 DEF Writer
  <2>3. ~Open(w)
    <3>1. Open(w) => writer'[w].op = writer[w].op
      BY <1>1 DEF Open, Writer
    <3> QED BY <1>6, <2>2, <3>1 DEF Rests
  <2> QED BY <1>1, <1>2, <1>6, <2>1, <2>2, <2>3
<1>7. CASE LoadToApprove(w) \/ \E op \in Drawing \ {"approve"} : LockToDraw(w, op)
  BY <1>6, <1>7 DEF LoadToApprove, LockToDraw, Drawing, Amending
<1>8. CASE \E op \in Rewriting : LoadToRewrite(w, op)
  BY <1>6, <1>8 DEF LoadToRewrite, Rewriting, Amending
<1>9. CASE LockToApprove(w)
  <2>1. writer' = writer /\ ~Open(w) /\ ~Draw(w)
    BY <1>2, <1>9 DEF LockToApprove, Open, Does, Rests
  <2> QED BY <2>1
<1> QED BY <1>3, <1>4, <1>5, <1>7, <1>8, <1>9 DEF Writes

LEMMA TextStep == IInv /\ TextInv /\ [Next]_vars => TextInv'
<1> SUFFICES ASSUME IInv, TextInv, [Next]_vars PROVE TextInv'
  OBVIOUS
<1>1. /\ review \in Review /\ review.version \in Nat /\ review.text \in Nat
      /\ review.text <= review.version
  BY Bounds DEF IInv, TypeOK, Review, ReportIsOld
<1>2. /\ Loaded(review).version = review.version /\ Loaded(review).text = review.text
      /\ Loaded(NoReview).version = 0 /\ Loaded(NoReview).text = 0
  BY DEF Loaded, NoReview
<1>3. ASSUME NEW w \in Writers, Writes(w) PROVE TextInv'
  <2>1. ASSUME NEW v \in Writers
        PROVE  /\ writer'[v].seen.version > 0 => writer'[v].seen.text > 0
               /\ writer'[v].seen.text <= writer'[v].seen.version
               /\ writer'[v].op \in Amending => writer'[v].seen.version > 0
    <3>1. CASE v # w
      BY <1>3, <3>1, WriterStep DEF TextInv
    <3>2. CASE v = w
      <4>1. /\ writer'[w].seen \in {writer[w].seen, Loaded(review), Loaded(NoReview)}
            /\ writer'[w].op \in Amending =>
                  \/ writer[w].op \in Amending /\ writer'[w].seen = writer[w].seen
                  \/ review.version > 0 /\ writer'[w].seen = Loaded(review)
        BY <1>3, WriterStep
      <4> QED BY <1>1, <1>2, <3>2, <4>1 DEF TextInv
    <3> QED BY <3>1, <3>2
  <2>2. review'.version > 0 => review'.text > 0
    <3>1. CASE Rewrite(w)
      <4>1. /\ writer[w].seen.version = review.version
            /\ review'.version = review.version + 1
            /\ \/ review'.text = review'.version
               \/ review'.text = review.text /\ writer[w].op \in Amending
        BY <3>1, RewriteFacts DEF Amending
      <4> QED BY <1>1, <4>1 DEF TextInv
    <3>2. CASE Draw(w)
      BY <3>2, DrawFacts DEF SamePlan, TextInv
    <3>3. CASE ~Draw(w) /\ ~Rewrite(w)
      <4>1. review' = review
        BY <1>3, <3>3 DEF Writes, Open, LoadToApprove, LockToApprove, Abandon, LockToDraw, LoadToRewrite
      <4> QED BY <4>1 DEF TextInv
    <3> QED BY <3>1, <3>2, <3>3
  <2> QED BY <2>1, <2>2 DEF TextInv
<1>4. CASE ~\E w \in Writers : Writes(w)
  BY <1>4, ChecksApart DEF Next, TextInv, SamePlan
<1> QED BY <1>3, <1>4

LEMMA InitText == Init => TextInv /\ Serial!Init
<1> SUFFICES ASSUME Init PROVE TextInv /\ Serial!Init
  OBVIOUS
<1>1. /\ \/ review = NoReview /\ drawing = 0
         \/ review = LegacyReview /\ drawing = 1
      /\ snap = [v \in Versions |-> NoSnapshot]
      /\ writer = [w \in Writers |-> [op |-> "none", base |-> 0, seen |-> Loaded(NoReview)]]
  BY DEF Init
<1>2. /\ NoReview.version = 0 /\ NoReview.text = 0 /\ NoReview.answers = {}
      /\ LegacyReview.version = 1 /\ LegacyReview.text = 1 /\ LegacyReview.answers = {}
      /\ Loaded(NoReview).version = 0 /\ Loaded(NoReview).text = 0
  BY DEF NoReview, LegacyReview, Loaded
<1>3. TextInv
  BY <1>1, <1>2 DEF TextInv, Amending
<1>4. Bases = [w \in Writers |-> 0]
  BY <1>1 DEF Bases
<1>5. History = [v \in 1 .. MaxVersions |-> 0]
  BY <1>1, Bounds DEF History, Versions, NoSnapshot
<1> QED BY <1>1, <1>2, <1>3, <1>4, <1>5 DEF Serial!Init, Serial!Writers, Writers, Bases, History

LEMMA Unrecorded ==
    ASSUME UNCHANGED drawing, UNCHANGED Bases, UNCHANGED History, SamePlan(review, review')
    PROVE  [Serial!Next]_Serial!working
BY DEF Serial!working, Serial!plan, Bases, History, SamePlan

\* A drawing leaves the history as it is, or completes it with the only version
\* that may be missing.
LEMMA DrawHistory ==
    ASSUME IInv, TextInv, NEW w \in Writers, Draw(w)
    PROVE  \/ History' = History
           \/ /\ review.version > 0 /\ History[1] = 0
              /\ History' = [History EXCEPT ![1] = 1]
<1> DEFINE seen == writer[w].seen
<1>1. /\ review.version \in Nat /\ seen.version \in Nat /\ seen.text \in Nat
      /\ MaxVersions \in Nat \ {0} /\ 1 .. MaxVersions \subseteq Versions
  BY Bounds, ReviewAssumption DEF IInv, TypeOK, Review, Writer, Columns, Versions
<1>2. seen.version <= review.version
  BY DEF IInv, SeenIsOld, Draw, TypeOK, Drawing, Rests
<1>3. \A v \in 1 .. MaxVersions : snap[v].status = "none" /\ snap'[v].status # "none" =>
         v = 1 /\ seen.version = 1 /\ review.version > 0 /\ snap'[v].text = 1
  <2> SUFFICES ASSUME NEW v \in 1 .. MaxVersions, snap[v].status = "none", snap'[v].status # "none"
               PROVE  v = 1 /\ seen.version = 1 /\ review.version > 0 /\ snap'[v].text = 1
    OBVIOUS
  <2>1. v = seen.version /\ snap'[v].text = seen.text
    BY <1>1, DrawFacts
  <2>2. v \notin 2 .. review.version
    BY DEF IInv, HeadIsRecorded
  <2>3. v = 1 /\ review.version > 0
    BY <1>1, <1>2, <2>1, <2>2
  <2>4. seen.text = 1
    <3>1. (seen.version > 0 => seen.text > 0) /\ seen.text <= seen.version
      BY DEF TextInv
    <3>2. seen.version = 1
      BY <2>1, <2>3
    <3> HIDE DEF seen
    <3> QED BY <1>1, <3>1, <3>2
  <2> QED BY <2>1, <2>3, <2>4
<1>4. \A v \in 1 .. MaxVersions : snap[v].status # "none" =>
         snap'[v].status # "none" /\ snap'[v].text = snap[v].text
  BY <1>1, DrawFacts
<1>5. CASE \E v \in 1 .. MaxVersions : snap[v].status = "none" /\ snap'[v].status # "none"
  <2>1. /\ snap[1].status = "none" /\ snap'[1].status # "none" /\ snap'[1].text = 1
        /\ review.version > 0 /\ 1 \in 1 .. MaxVersions
    BY <1>1, <1>3, <1>5
  <2>2. History' = [History EXCEPT ![1] = 1]
    BY <1>3, <1>4, <2>1 DEF History
  <2> QED BY <2>1, <2>2 DEF History
<1>6. CASE ~\E v \in 1 .. MaxVersions : snap[v].status = "none" /\ snap'[v].status # "none"
  BY <1>4, <1>6 DEF History
<1> QED BY <1>5, <1>6

LEMMA DrawsSerially ==
    ASSUME IInv, TextInv, NEW w \in Writers, Draw(w)
    PROVE  Serial!Draw(w)
<1>1. /\ drawing' = drawing + 1 /\ SamePlan(review, review')
      /\ w \in Turns => Bases[w] = drawing
  BY DrawFacts DEF IInv, LockersKnowTheirBase, Draw, Bases
<1>2. Bases' = [Bases EXCEPT ![w] = drawing + 1]
  <2>1. writer'[w].base = drawing' /\ \A v \in Writers \ {w} : writer'[v] = writer[v]
    <3>1. ~Open(w)
      BY <1>1, Bounds DEF Open, IInv, TypeOK
    <3> QED BY <3>1, WriterStep DEF Writes
  <2> QED BY <1>1, <2>1 DEF Bases
<1> QED BY <1>1, <1>2, DrawHistory
       DEF Serial!Draw, Serial!Completed, Serial!plan, Bases, History, SamePlan

\* A rewriting that does not collide is of the plan as it stands.
LEMMA RewritesSerially ==
    ASSUME IInv, NEW w \in Writers, Rewrite(w)
    PROVE  Serial!Propose \/ Serial!Answer(w) \/ Serial!Edit
<1>1. review.version \in Nat /\ MaxVersions \in Nat /\ snap \in [Versions -> Snapshot]
  BY Bounds DEF IInv, TypeOK, Review
<1>2. /\ review.version < MaxVersions /\ review'.version = review.version + 1
      /\ snap' = [snap EXCEPT ![review'.version] = Taken(w)]
      /\ Taken(w).status # "none" /\ Taken(w).text = review'.text
  BY RewriteFacts
<1>3. History' = [History EXCEPT ![review.version + 1] = review'.text]
  <2>1. review'.version \in Versions /\ 1 .. MaxVersions \subseteq Versions
    BY <1>1, <1>2 DEF Versions
  <2>2. \A v \in 1 .. MaxVersions :
           snap'[v] = IF v = review.version + 1 THEN Taken(w) ELSE snap[v]
    BY <1>1, <1>2, <2>1
  <2>3. \A v \in 1 .. MaxVersions :
           (IF snap'[v].status = "none" THEN 0 ELSE snap'[v].text)
             = IF v = review.version + 1 THEN review'.text
               ELSE IF snap[v].status = "none" THEN 0 ELSE snap[v].text
    BY <1>2, <2>2
  <2> QED BY <2>3 DEF History
<1>4. Bases' = Bases /\ drawing' = drawing
  <2>1. /\ writer \in [Writers -> Writer] /\ writer' = [writer EXCEPT ![w] = Finished(w)]
        /\ drawing' = drawing
    BY DEF IInv, TypeOK, Rewrite
  <2>2. Finished(w).base = writer[w].base
    BY <2>1 DEF Finished, Writer
  <2> QED BY <2>1, <2>2 DEF Bases
<1>5. CASE review'.text = review'.version /\ review'.answers = review.answers
  BY <1>2, <1>3, <1>4, <1>5 DEF Serial!Propose, Serial!Put, Bases, History
<1>6. CASE review'.text = review.text /\ review'.answers = review.answers
  BY <1>2, <1>3, <1>4, <1>6 DEF Serial!Edit, Serial!Put, Bases, History
<1>7. CASE review'.text = review.text /\ review'.answers = review.answers \cup {w}
  BY <1>2, <1>3, <1>4, <1>7 DEF Serial!Answer, Serial!Put, Bases, History
<1> QED BY <1>5, <1>6, <1>7, RewriteFacts

LEMMA SerialStep == IInv /\ TextInv /\ [Next]_vars => [Serial!Next]_Serial!working
<1> SUFFICES ASSUME IInv, TextInv, [Next]_vars PROVE [Serial!Next]_Serial!working
  OBVIOUS
<1>1. Serial!Writers = Writers
  BY DEF Serial!Writers, Writers
<1>2. ASSUME NEW w \in Writers, Writes(w) PROVE [Serial!Next]_Serial!working
  <2>1. CASE Draw(w)
    BY <1>1, <2>1, DrawsSerially DEF Serial!Next
  <2>2. CASE Rewrite(w)
    BY <1>1, <2>2, RewritesSerially DEF Serial!Next
  <2>3. CASE Open(w)
    <3>1. Bases' = [Bases EXCEPT ![w] = drawing]
      BY <1>2, <2>3, WriterStep DEF Bases
    <3>2. Serial!Look(w)
      BY <2>3, <3>1 DEF Open, Serial!Look, Serial!plan, Bases, History
    <3> QED BY <1>1, <3>2 DEF Serial!Next
  <2>4. CASE ~Draw(w) /\ ~Rewrite(w) /\ ~Open(w)
    <3>1. UNCHANGED <<drawing, review, snap>>
      BY <1>2, <2>4 DEF Writes, LoadToApprove, LockToApprove, Abandon, LockToDraw, LoadToRewrite
    <3>2. \A v \in Writers : writer'[v].base = writer[v].base
      BY <1>2, <2>4, WriterStep
    <3> QED BY <3>1, <3>2, Unrecorded DEF Bases, History, SamePlan
  <2> QED BY <2>1, <2>2, <2>3, <2>4
<1>3. CASE ~\E w \in Writers : Writes(w)
  <2>1. SamePlan(review, review') /\ UNCHANGED <<drawing, lock, snap, writer>>
    BY <1>3, ChecksApart DEF Next
  <2> QED BY <2>1, Unrecorded DEF Bases, History
<1> QED BY <1>2, <1>3

\* Whoever loads, waits, collides or dies in between: drawing and plan are what
\* they would be if each writer had worked on both alone, and every version of
\* the plan is told by its history.  Every behaviour is one of SerialReview.
THEOREM ReviewImplementsSerial == Spec => ImplementsSerial
<1>1. ImplementsSerial <=> Serial!Init /\ [][Serial!Next]_Serial!working
  BY DEF ImplementsSerial, Serial!Spec
<1> QED BY <1>1, InitEstablishes, StepKeeps, InitText, TextStep, SerialStep, PTL DEF Spec
=============================================================================
