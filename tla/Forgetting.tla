------------------------------ MODULE Forgetting -------------------------------
(***************************************************************************)
(* Remembering and forgetting (memory/semantic/semantic_store.py,          *)
(* memory/canonical_memory.py, memory/forget.py, memory/gateway/memory.py, *)
(* workers/mem0_worker.py), on top of the confirmations of PendingAction.  *)
(*                                                                         *)
(* A fact is a row of the canonical memory and one or more documents of    *)
(* Mem0.  Mem0 keeps the fact as it was saved, under a header ("headed"),  *)
(* or, when the worker adds it from the log, its bare statement ("bare"),  *)
(* which Mem0 may put in other words ("reworded").  The log is applied in  *)
(* one transaction of the whole batch, so a document may be added again.   *)
(*                                                                         *)
(* Mem0 is a service: what it stores and finds is taken from its use.      *)
(***************************************************************************)
EXTENDS PendingAction

CONSTANTS
    Facts,
    MaxDocs    \* bound: documents ever added

ASSUME ForgettingAssumption == MaxDocs \in Nat

VARIABLES
    docs,      \* documents of Mem0, by id: see Doc
    canonical, \* per fact, its row: none, active, rejected
    log,       \* per fact, its row of the projection log: none, pending, applied
    tombs,     \* documents with a tombstone
    blind,     \* ... whose text could not be read when it was written
    deleted    \* history: documents a deletion removed from Mem0

memory == <<docs, canonical, log>>
graves == <<tombs, blind, deleted>>
vars   == <<pending, memory, graves>>

Texts == Facts \X {"headed", "bare", "reworded"}
Doc   == [text : Texts, present : BOOLEAN]
Ids   == 1 .. MaxDocs

\* What is to be forgotten: a document, and whether its text could be read.
Targets == Ids \X BOOLEAN
Items   == Writes \cup Targets

Present == {d \in DOMAIN docs : docs[d].present}
Text(d) == docs[d].text

\* The ids and the texts of targets; a text that was not read is not known.
IdsOf(targets)   == {t[1] : t \in targets}
TextsOf(targets) == {Text(t[1]) : t \in {u \in targets : u[2]}}

\* Seeded fault: tombstones by id only.
ForgottenById(d) == d \in tombs

\* is_forgotten: by id, or by what it says.
Forgotten(d) == d \in tombs \/ Text(d) \in {Text(e) : e \in tombs \ blind}
Recalled     == {d \in Present : ~Forgotten(d)}

Kept      == UNCHANGED <<rows, asked, written, claims, overtaken>>
Unasked   == Kept /\ UNCHANGED call
Add(text) == docs' = Append(docs, [text |-> text, present |-> TRUE])

-----------------------------------------------------------------------------
(* Remembering                                                             *)

\* save_structured_consultant_memory: Mem0 first, then the mirror, which may
\* fail; without an id of the document the log is left to the worker.  Once per fact.
Save(f, mirrored, known) ==
    /\ canonical[f] = "none" /\ <<f, "headed">> \notin {Text(d) : d \in DOMAIN docs}
    /\ Len(docs) < MaxDocs
    /\ Add(<<f, "headed">>)
    /\ IF mirrored
       THEN /\ canonical' = [canonical EXCEPT ![f] = "active"]
            /\ log' = [log EXCEPT ![f] = IF known THEN "applied" ELSE "pending"]
       ELSE UNCHANGED <<canonical, log>>
    /\ Unasked /\ UNCHANGED mishaps
    /\ UNCHANGED graves

\* drain_once: the document is added before the row is marked.
Project(f, wording, committed) ==
    /\ log[f] = "pending" /\ Len(docs) < MaxDocs
    /\ Add(<<f, wording>>)
    /\ log' = IF committed THEN [log EXCEPT ![f] = "applied"] ELSE log
    /\ Unasked /\ MishapIf(~committed)
    /\ UNCHANGED <<canonical, graves>>

-----------------------------------------------------------------------------
(* Forgetting                                                              *)

\* resolve_targets: what the search found, or the ids that were given; an id
\* that cannot be read is kept without its text.
Resolve(c, targets) ==
    /\ Idle(c) /\ targets # {}
    /\ Goes(c, [Nothing EXCEPT !.step = "gated", !.kind = "forget", !.items = targets])
    /\ MishapIf(\E t \in targets : ~t[2])
    /\ Kept /\ UNCHANGED <<memory, graves>>

Forgets(c, step) == call[c].kind = "forget" /\ call[c].step = step
Then(c, step)    == Goes(c, [call[c] EXCEPT !.step = step])

\* Seeded fault: the tombstones are left to a deletion that fails.
BuryNothing(c) ==
    /\ Forgets(c, "doing")
    /\ Then(c, "buried")
    /\ UNCHANGED <<tombs, blind, mishaps>>

\* _write_tombstones: one for each document; one that is there already is kept
\* as it is, also without its text.
Bury(c) ==
    /\ Forgets(c, "doing")
    /\ Then(c, "buried")
    /\ tombs' = tombs \cup IdsOf(call[c].items)
    /\ blind' = blind \cup (IdsOf({t \in call[c].items : ~t[2]}) \ tombs)
    /\ UNCHANGED mishaps

\* _reject_canonical_rows: rows that state what a target says.
Reject(c) ==
    /\ Forgets(c, "buried")
    /\ Then(c, "rejected")
    /\ canonical' = [f \in Facts |->
           IF canonical[f] = "active" /\ <<f, "bare">> \in TextsOf(call[c].items)
           THEN "rejected" ELSE canonical[f]]
    /\ UNCHANGED mishaps

\* ... then the documents, one by one; a deletion may fail.
Delete(c, t, fails) ==
    /\ Forgets(c, "rejected") /\ t \in call[c].items
    /\ docs' = IF fails THEN docs ELSE [docs EXCEPT ![t[1]].present = FALSE]
    /\ deleted' = IF fails THEN deleted ELSE deleted \cup {t[1]}
    /\ Goes(c, [call[c] EXCEPT !.items = @ \ {t}])
    /\ MishapIf(fails)

Forget(c) ==
    \/ Bury(c) /\ Kept /\ UNCHANGED <<memory, deleted>>
    \/ Reject(c) /\ Kept /\ UNCHANGED <<docs, log, graves>>
    \/ \E t \in Targets, fails \in BOOLEAN :
          Delete(c, t, fails) /\ Kept /\ UNCHANGED <<canonical, log, tombs, blind>>

-----------------------------------------------------------------------------
Init ==
    /\ InitPending
    /\ docs = <<>>
    /\ canonical = [f \in Facts |-> "none"] /\ log = [f \in Facts |-> "none"]
    /\ tombs = {} /\ blind = {} /\ deleted = {}

Remember(f) ==
    \/ \E mirrored, known \in BOOLEAN : Save(f, mirrored, known)
    \/ \E wording \in {"bare", "reworded"}, committed \in BOOLEAN : Project(f, wording, committed)

Next ==
    \/ PendingNext /\ UNCHANGED <<memory, graves>>
    \/ \E f \in Facts : Remember(f)
    \/ \E c \in Calls : Forget(c) \/ \E targets \in SUBSET (Present \X BOOLEAN) : Resolve(c, targets)

Spec == Init /\ [][Next]_vars

-----------------------------------------------------------------------------
TypeOK ==
    /\ PendingTypeOK(Items)
    /\ docs \in Seq(Doc) /\ Len(docs) <= MaxDocs
    /\ canonical \in [Facts -> {"none", "active", "rejected"}]
    /\ log \in [Facts -> {"none", "pending", "applied"}]
    /\ tombs \subseteq Ids /\ blind \subseteq tombs /\ deleted \subseteq tombs

\* A text that a deletion has removed from Mem0 is not recalled under another id,
\* whatever the worker adds afterwards, unless its tombstone was written without it.
\* The same fact in other words, or with its header, is another text.
DeletedIsNotRecalled ==
    \A d \in Recalled, e \in deleted \ blind : Text(d) # Text(e)

\* A fact the canonical memory has given up is not recalled in the words of its row,
\* under any id and wherever the deletion has stopped, unless a tombstone for these
\* words was written without them.  Its headed and reworded copies are other texts.
RejectedIsNotRecalled ==
    \A f \in Facts, d \in Recalled : canonical[f] = "rejected" /\ Text(d) = <<f, "bare">> =>
        \E e \in blind : Text(e) = Text(d)

\* Calls that ask, answer, race and die keep what the thread promises: a write is
\* done, a memory hidden or deleted, only as an item of a proposal that was open,
\* alone, when it was confirmed, and each item of it is tried once.
Busy(c) == call[c].step \in {"doing", "buried", "rejected"}
Mine(c) == IF Busy(c) THEN {call[c].read} \X call[c].items ELSE {}
Shown(row) == [kind  |-> row.kind, items |-> row.items,
               state |-> IF row.status = "pending" THEN "open"
                         ELSE IF row.status = "confirmed" THEN "granted" ELSE "closed"]

Thread == INSTANCE Consent
    WITH proposals <- [r \in DOMAIN rows |-> Shown(rows[r])],
         due       <- UNION {Mine(c) : c \in Calls},
         hidden    <- tombs

ImplementsConsent == Thread!Spec
================================================================================
