------------------------------ MODULE SerialReview ------------------------------
(***************************************************************************)
(* What a drawing and its plan are to the people and the agents who work   *)
(* on them at the same time: each draws, proposes, answers and edits as if *)
(* it had both to itself, without locks, loads, flushes or collisions.     *)
(*                                                                         *)
(* Every rewriting is of the plan as it stands and leaves one version more *)
(* in its history; no answer is lost; a turn draws only over the drawing   *)
(* it has seen.  What was approved is not told here.                       *)
(***************************************************************************)
EXTENDS Naturals

CONSTANTS Consultants, Turns, MaxVersions

Writers == Consultants \cup Turns

VARIABLES
    drawing,  \* the last version of the drawing
    base,     \* per writer, the version of it that was looked at
    version,  \* the last version of the plan (0: none)
    text,     \* the version in which it was last proposed
    answers,  \* whose questions are answered
    history   \* per version of the plan, its text (0: not recorded)

plan    == <<version, text, answers>>
working == <<drawing, base, plan, history>>

\* Nothing is there, or a drawing with a plan older than the history.
Init ==
    /\ \/ drawing = 0 /\ version = 0 /\ text = 0
       \/ drawing = 1 /\ version = 1 /\ text = 1
    /\ base = [w \in Writers |-> 0]
    /\ answers = {}
    /\ history = [v \in 1 .. MaxVersions |-> 0]

Look(w) ==
    /\ base' = [base EXCEPT ![w] = drawing]
    /\ UNCHANGED <<drawing, plan, history>>

\* An approval may find that the plan it approves was never recorded.
Completed == IF version > 0 /\ history[1] = 0 THEN [history EXCEPT ![1] = 1] ELSE history

Draw(w) ==
    /\ w \in Turns => base[w] = drawing
    /\ drawing' = drawing + 1
    /\ base' = [base EXCEPT ![w] = drawing + 1]
    /\ history' = history \/ history' = Completed
    /\ UNCHANGED plan

\* The plan as it stands, changed to say t, is the next version.
Put(t) ==
    /\ version < MaxVersions
    /\ version' = version + 1
    /\ text' = t
    /\ history' = [history EXCEPT ![version + 1] = t]
    /\ UNCHANGED <<drawing, base>>

Propose   == Put(version + 1) /\ UNCHANGED answers
Answer(w) == Put(text) /\ answers' = answers \cup {w}
Edit      == Put(text) /\ UNCHANGED answers

Next ==
    \/ \E w \in Writers : Look(w) \/ Draw(w) \/ Answer(w)
    \/ Propose \/ Edit

Spec == Init /\ [][Next]_working
=============================================================================
