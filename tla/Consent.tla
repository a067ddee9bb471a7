-------------------------------- MODULE Consent --------------------------------
(***************************************************************************)
(* What a thread promises about things that need a yes, without the calls  *)
(* that ask, answer and die, and without the rows they race for: at most   *)
(* one proposal is open, a new one closes it, and only an open one can be  *)
(* granted, once.  What is in a granted proposal becomes due; nothing is   *)
(* written, hidden or deleted that is not due, nothing that is due is      *)
(* tried twice, and a memory is hidden before it is deleted.               *)
(*                                                                         *)
(* What is due may fail, or be dropped when whoever does it dies: a yes is *)
(* a permission, not a promise that the thing is done.                     *)
(***************************************************************************)
EXTENDS Naturals, Sequences

CONSTANTS Writes, Targets

VARIABLES
    proposals,  \* all of them, in order: see Proposal
    due,        \* pairs of a granted proposal and an item of it
    written,    \* per write, how often it was done
    hidden,     \* memories that are not recalled any more
    deleted     \* ... and those removed from the index

consent == <<proposals, due, written, hidden, deleted>>

Proposal == [kind  : {"write", "forget"},
             items : SUBSET (Writes \cup Targets),
             state : {"open", "granted", "closed"}]

Closed(p) == IF proposals[p].state = "open"
             THEN [proposals[p] EXCEPT !.state = "closed"] ELSE proposals[p]

DueOf(p) == {x \in due : x[1] = p}

Init ==
    /\ proposals = <<>> /\ due = {}
    /\ written = [w \in Writes |-> 0] /\ hidden = {} /\ deleted = {}

\* A new proposal, which closes the one that is open.
Offer ==
    /\ proposals' \in Seq(Proposal) /\ Len(proposals') = Len(proposals) + 1
    /\ \A p \in DOMAIN proposals : proposals'[p] = Closed(p)
    /\ proposals'[Len(proposals')].state = "open"
    /\ UNCHANGED <<due, written, hidden, deleted>>

\* Refused, or out of time.
Close(p) ==
    /\ proposals[p].state = "open"
    /\ proposals' = [proposals EXCEPT ![p].state = "closed"]
    /\ UNCHANGED <<due, written, hidden, deleted>>

Grant(p) ==
    /\ proposals[p].state = "open"
    /\ proposals' = [proposals EXCEPT ![p].state = "granted"]
    /\ due' = due \cup ({p} \X proposals[p].items)
    /\ UNCHANGED <<written, hidden, deleted>>

\* The memories of a granted proposal are hidden together.
Hide(p) ==
    /\ proposals[p].kind = "forget"
    /\ hidden' = hidden \cup {x[2][1] : x \in DueOf(p)}
    /\ UNCHANGED <<proposals, due, written, deleted>>

\* One thing that is due is tried, with success or without.
Do(x) ==
    /\ due' = due \ {x}
    /\ \/ /\ x[2] \in Writes /\ proposals[x[1]].kind = "write"
          /\ written' = [written EXCEPT ![x[2]] = @ + 1]
          /\ UNCHANGED deleted
       \/ /\ x[2] \in Targets /\ proposals[x[1]].kind = "forget" /\ x[2][1] \in hidden
          /\ deleted' = deleted \cup {x[2][1]}
          /\ UNCHANGED written
       \/ UNCHANGED <<written, deleted>>
    /\ UNCHANGED <<proposals, hidden>>

\* Whoever had it to do is gone.
Drop(p) ==
    /\ due' = due \ DueOf(p)
    /\ UNCHANGED <<proposals, written, hidden, deleted>>

Next ==
    \/ Offer
    \/ \E p \in DOMAIN proposals : Close(p) \/ Grant(p) \/ Hide(p) \/ Drop(p)
    \/ \E x \in due : Do(x)

Spec == Init /\ [][Next]_consent
================================================================================
