----------------------------- MODULE PendingAction -----------------------------
(***************************************************************************)
(* What a thread is waiting for its consultant to confirm                  *)
(* (memory/pending_actions.py), as the tools that ask and answer use it    *)
(* (toolsets/workspace.py, toolsets/memory.py).                            *)
(*                                                                         *)
(* A proposal freezes what is to be done and replaces the proposal that is *)
(* open; a unique index keeps one open row per thread.  Calls of one round *)
(* run in threads of their own, and each takes more than one transaction:  *)
(* a gate that asks for a write reads the open proposal, adds to it and    *)
(* proposes the sum; an answer finds the open row and then closes it.      *)
(*                                                                         *)
(* One thread.  A row that is out of time is closed at once.               *)
(***************************************************************************)
EXTENDS Naturals, Sequences

CONSTANTS
    Calls,     \* calls of tools that may run at the same time
    Writes,    \* writes to the workspace that are asked for, each once
    MaxRows,   \* bound: proposals in the life of the thread
    MaxMishaps \* bound: deaths, failures and proposals out of time

ASSUME PendingAssumption == MaxRows \in Nat /\ MaxMishaps \in Nat

VARIABLES
    rows,      \* the table: see Row
    call,      \* what each call is doing: see Call
    asked,     \* bound: writes that were asked for
    written,   \* per write, how often it was done
    claims,    \* history, per row: calls that took it to be done
    overtaken, \* history: a proposal was taken while a call was adding to it
    mishaps    \* bound: what has gone wrong so far

pending == <<rows, call, asked, written, claims, overtaken, mishaps>>

Kinds == {"write", "forget"}

Row(Items) == [kind   : Kinds,
               items  : SUBSET Items,
               status : {"pending", "confirmed", "cancelled", "expired", "superseded"}]

\* read: the row it answers; seen: the open row when it writes its own.
Call(Items) == [step  : {"idle", "gated", "proposing", "answering", "doing",
                         "buried", "rejected"},
                kind  : Kinds,
                read  : 0 .. MaxRows,
                seen  : 0 .. MaxRows,
                items : SUBSET Items]

Nothing == [step |-> "idle", kind |-> "write", read |-> 0, seen |-> 0, items |-> {}]

Idle(c) == call[c].step = "idle"
Is(r, status) == rows[r].status = status
Pending == {r \in DOMAIN rows : Is(r, "pending")}
Open    == IF Pending = {} THEN 0 ELSE CHOOSE r \in Pending : \A q \in Pending : q <= r
Frozen(r) == IF r = 0 THEN {} ELSE rows[r].items

Goes(c, to) == call' = [call EXCEPT ![c] = to]
Ends(c)     == Goes(c, Nothing)

MishapIf(bad) == IF bad THEN mishaps < MaxMishaps /\ mishaps' = mishaps + 1 ELSE UNCHANGED mishaps

-----------------------------------------------------------------------------
(* Asking                                                                  *)

\* Writes asked for in one round add up to one proposal.
Sum(r, w) == Frozen(r) \cup {w}

\* The gate of a write; another kind of proposal that is open stops it.  Nothing
\* keeps the row it has read: what it proposes may replace another one.
Ask(c, w) ==
    /\ Idle(c) /\ w \in Writes \ asked
    /\ Open # 0 => rows[Open].kind = "write"
    /\ asked' = asked \cup {w}
    /\ Goes(c, [Nothing EXCEPT !.step = "gated", !.items = Sum(Open, w)])
    /\ UNCHANGED <<rows, written, claims, overtaken, mishaps>>

\* propose: from here its UPDATE sees the row that is open now.
Propose(c) ==
    /\ call[c].step = "gated" /\ Len(rows) < MaxRows
    /\ Goes(c, [call[c] EXCEPT !.step = "proposing", !.seen = Open])
    /\ UNCHANGED <<rows, asked, written, claims, overtaken, mishaps>>

\* Seeded fault: the table does not refuse a second open row.
CollidesNever(c) == FALSE

\* The unique index: another proposal was committed meanwhile.
Collides(c) == Pending \ {call[c].seen} # {}

Insert(c) ==
    /\ call[c].step = "proposing" /\ ~Collides(c) /\ Len(rows) < MaxRows
    /\ rows' = Append([r \in DOMAIN rows |-> IF r = call[c].seen /\ Is(r, "pending")
                                             THEN [rows[r] EXCEPT !.status = "superseded"] ELSE rows[r]],
                      [kind |-> call[c].kind, items |-> call[c].items, status |-> "pending"])
    /\ claims' = Append(claims, 0)
    /\ Ends(c)
    /\ UNCHANGED <<asked, written, overtaken, mishaps>>

Refused(c) ==
    /\ call[c].step = "proposing" /\ Collides(c)
    /\ Ends(c)
    /\ UNCHANGED <<rows, asked, written, claims, overtaken, mishaps>>

-----------------------------------------------------------------------------
(* Answering                                                               *)

\* open_action, of the kind this tool is for.
Answer(c, kind) ==
    /\ Idle(c) /\ Open # 0 /\ rows[Open].kind = kind
    /\ Goes(c, [Nothing EXCEPT !.step = "answering", !.kind = kind, !.read = Open])
    /\ UNCHANGED <<rows, asked, written, claims, overtaken, mishaps>>

\* Seeded fault: whoever has found the row open may take it.
ClaimableTwice(r) == Is(r, "pending") \/ Is(r, "confirmed")

Claimable(r) == Is(r, "pending")

\* claim: only one call gets the row.
Claim(c) ==
    /\ call[c].step = "answering" /\ Claimable(call[c].read)
    /\ LET r == call[c].read
       IN  /\ rows' = [rows EXCEPT ![r].status = "confirmed"]
           /\ claims' = [claims EXCEPT ![r] = @ + 1]
           /\ Goes(c, [call[c] EXCEPT !.step = "doing", !.items = rows[r].items])
           /\ overtaken' = (overtaken \/ \E d \in Calls \ {c} :
                 call[d].step \in {"gated", "proposing"} /\ call[d].items \cap rows[r].items # {})
    /\ UNCHANGED <<asked, written, mishaps>>

ClaimedAlready(c) ==
    /\ call[c].step = "answering" /\ ~Claimable(call[c].read)
    /\ Ends(c)
    /\ UNCHANGED <<rows, asked, written, claims, overtaken, mishaps>>

\* cancel: without an id, it closes the row that is open by now.
Cancel(c) ==
    /\ call[c].step = "answering"
    /\ rows' = [r \in DOMAIN rows |-> IF r \in Pending THEN [rows[r] EXCEPT !.status = "cancelled"] ELSE rows[r]]
    /\ Ends(c)
    /\ UNCHANGED <<asked, written, claims, overtaken, mishaps>>

Expire(r) ==
    /\ r \in Pending
    /\ rows' = [rows EXCEPT ![r].status = "expired"]
    /\ MishapIf(TRUE)
    /\ UNCHANGED <<call, asked, written, claims, overtaken>>

\* The writes of a proposal are done one after the other; one may fail.
Write(c, w, fails) ==
    /\ call[c].step = "doing" /\ call[c].kind = "write" /\ w \in call[c].items
    /\ written' = IF fails THEN written ELSE [written EXCEPT ![w] = @ + 1]
    /\ Goes(c, [call[c] EXCEPT !.items = @ \ {w}])
    /\ MishapIf(fails)
    /\ UNCHANGED <<rows, asked, claims, overtaken>>

\* The outcome is recorded.
Finish(c) ==
    /\ call[c].step \in {"doing", "rejected"} /\ call[c].items = {}
    /\ call[c].kind = "write" \/ call[c].step = "rejected"
    /\ Ends(c)
    /\ UNCHANGED <<rows, asked, written, claims, overtaken, mishaps>>

\* The call, or the process, dies.
Die(c) ==
    /\ ~Idle(c)
    /\ Ends(c)
    /\ MishapIf(TRUE)
    /\ UNCHANGED <<rows, asked, written, claims, overtaken>>

-----------------------------------------------------------------------------
InitPending ==
    /\ rows = <<>> /\ claims = <<>>
    /\ call = [c \in Calls |-> Nothing]
    /\ asked = {} /\ written = [w \in Writes |-> 0]
    /\ overtaken = FALSE /\ mishaps = 0

Asks(c)    == (\E w \in Writes : Ask(c, w)) \/ Propose(c) \/ Insert(c) \/ Refused(c)
Answers(c) == \/ \E kind \in Kinds : Answer(c, kind)
              \/ Claim(c) \/ ClaimedAlready(c) \/ Cancel(c)
Does(c)    == (\E w \in Writes, fails \in BOOLEAN : Write(c, w, fails)) \/ Finish(c)

PendingNext ==
    \/ \E c \in Calls : Asks(c) \/ Answers(c) \/ Does(c) \/ Die(c)
    \/ \E r \in DOMAIN rows : Expire(r)

-----------------------------------------------------------------------------
(* Properties                                                              *)

\* A thread waits for one answer at a time, however many calls ask.
OneOpen == \A r, q \in Pending : r = q

PendingTypeOK(Items) ==
    /\ rows \in Seq(Row(Items)) /\ Len(rows) <= MaxRows
    /\ claims \in Seq(Nat) /\ Len(claims) = Len(rows)
    /\ call \in [Calls -> Call(Items)]
    /\ asked \subseteq Writes /\ written \in [Writes -> Nat]
    /\ overtaken \in BOOLEAN /\ mishaps \in 0 .. MaxMishaps
    /\ OneOpen

\* What was confirmed is taken once, however often the answer is given.
ConfirmedOnce == \A r \in DOMAIN rows : claims[r] <= 1 /\ (claims[r] = 1 => Is(r, "confirmed"))

\* A write the consultant confirmed is done once, also when it went through
\* several proposals, unless one was taken while a call was adding to it.
WrittenOnce == ~overtaken => \A w \in Writes : written[w] <= 1
================================================================================
