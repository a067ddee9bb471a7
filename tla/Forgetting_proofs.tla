--------------------------- MODULE Forgetting_proofs ---------------------------
(***************************************************************************)
(* Proofs about Forgetting and the confirmations it uses, for any calls,   *)
(* writes, facts and bounds.                                               *)
(***************************************************************************)
EXTENDS Forgetting, TLAPS

-----------------------------------------------------------------------------
(* The rows                                                                *)

\* Only the last row of the thread may wait for an answer.
LastWaits == \A r \in Pending : r = Len(rows)

LEMMA OpenIsLast ==
    ASSUME rows \in Seq(Row(Items)), LastWaits, Open # 0
    PROVE  /\ Open = Len(rows) /\ Open \in DOMAIN rows /\ Is(Open, "pending")
           /\ Open \in 1 .. Len(rows)
<1>1. Pending # {}
  BY DEF Open
<1>2. PICK p \in Pending : TRUE
  BY <1>1
<1>3. Pending = {Len(rows)}
  BY <1>2 DEF LastWaits
<1>4. \E r \in Pending : \A q \in Pending : q <= r
  BY <1>3 DEF Pending
<1>5. Open = CHOOSE r \in Pending : \A q \in Pending : q <= r
  BY <1>1 DEF Open
<1>6. Open \in Pending
  BY <1>4, <1>5
<1> QED BY <1>3, <1>6 DEF Pending

LEMMA SameLength ==
    ASSUME NEW S, NEW s \in Seq(S), NEW t \in [1 .. Len(s) -> S]
    PROVE  t \in Seq(S) /\ Len(t) = Len(s)
OBVIOUS

LEMMA Inserted ==
    ASSUME rows \in Seq(Row(Items)), call \in [Calls -> Call(Items)], NEW c \in Calls, Insert(c)
    PROVE  /\ rows' \in Seq(Row(Items)) /\ Len(rows') = Len(rows) + 1
           /\ rows'[Len(rows) + 1] = [kind |-> call[c].kind, items |-> call[c].items, status |-> "pending"]
           /\ \A r \in DOMAIN rows :
                 /\ rows'[r].kind = rows[r].kind /\ rows'[r].items = rows[r].items
                 /\ rows'[r].status = IF r = call[c].seen /\ Is(r, "pending") THEN "superseded" ELSE rows[r].status
<1> DEFINE Old(r) == IF r = call[c].seen /\ Is(r, "pending")
                     THEN [rows[r] EXCEPT !.status = "superseded"] ELSE rows[r]
           old == [r \in 1 .. Len(rows) |-> Old(r)]
           new == [kind |-> call[c].kind, items |-> call[c].items, status |-> "pending"]
<1>1. rows' = Append(old, new)
  <2>1. DOMAIN rows = 1 .. Len(rows)
    OBVIOUS
  <2> QED BY <2>1 DEF Insert
<1>2. \A r \in 1 .. Len(rows) : rows[r] \in Row(Items)
  OBVIOUS
<1>3. \A r \in 1 .. Len(rows) : Old(r) \in Row(Items)
  BY <1>2 DEF Row
<1>4. old \in Seq(Row(Items)) /\ Len(old) = Len(rows)
  <2> HIDE DEF Old
  <2>1. old \in [1 .. Len(rows) -> Row(Items)]
    BY <1>3
  <2> QED BY <2>1, SameLength
<1>5. new \in Row(Items)
  BY DEF Row, Call
<1> HIDE DEF old, new
<1>6. /\ rows' \in Seq(Row(Items)) /\ Len(rows') = Len(rows) + 1
      /\ rows'[Len(rows) + 1] = new
      /\ \A r \in 1 .. Len(rows) : rows'[r] = old[r]
  BY <1>1, <1>4, <1>5
<1>7. \A r \in DOMAIN rows :
         /\ old[r].kind = rows[r].kind /\ old[r].items = rows[r].items
         /\ old[r].status = IF r = call[c].seen /\ Is(r, "pending") THEN "superseded" ELSE rows[r].status
  BY <1>2 DEF old, Row
<1> QED BY <1>6, <1>7 DEF new

LEMMA Inserting ==
    ASSUME rows \in Seq(Row(Items)), call \in [Calls -> Call(Items)], LastWaits, NEW c \in Calls, Insert(c)
    PROVE  LastWaits'
<1>1. rows' \in Seq(Row(Items)) /\ Len(rows') = Len(rows) + 1
  BY Inserted
<1>2. ASSUME NEW r \in DOMAIN rows, Is(r, "pending")' PROVE FALSE
  <2>1. rows'[r].status = IF r = call[c].seen /\ Is(r, "pending") THEN "superseded" ELSE rows[r].status
    BY Inserted
  <2>2. r \in Pending /\ r # call[c].seen
    BY <1>2, <2>1 DEF Is, Pending
  <2> QED BY <2>2 DEF Insert, Collides
<1>3. \A r \in DOMAIN rows' : r \in DOMAIN rows \/ r = Len(rows')
  BY <1>1
<1> QED BY <1>2, <1>3 DEF LastWaits, Pending

\* Steps that write a status, and those that leave the rows alone.
LEMMA Closing ==
    ASSUME rows \in Seq(Row(Items)), LastWaits,
           rows' \in Seq(Row(Items)), Len(rows') = Len(rows),
           \A r \in DOMAIN rows : Is(r, "pending")' => Is(r, "pending")
    PROVE  LastWaits'
BY DEF LastWaits, Pending

-----------------------------------------------------------------------------
(* Types                                                                   *)

RowsOK  == rows \in Seq(Row(Items)) /\ Len(rows) <= MaxRows /\ LastWaits
CallOK  == call \in [Calls -> Call(Items)]
CountOK == claims \in Seq(Nat) /\ Len(claims) = Len(rows)
FlagsOK == /\ asked \subseteq Writes /\ written \in [Writes -> Nat]
           /\ overtaken \in BOOLEAN /\ mishaps \in 0 .. MaxMishaps
DocsOK  == docs \in Seq(Doc) /\ Len(docs) <= MaxDocs
FactsOK == /\ canonical \in [Facts -> {"none", "active", "rejected"}]
           /\ log \in [Facts -> {"none", "pending", "applied"}]

\* What calls and rows are about is there, and has its tombstone before it is deleted.
Answered == {"answering", "doing", "buried", "rejected"}
CallsFit == \A c \in Calls :
    /\ call[c].step \in Answered => /\ call[c].read \in DOMAIN rows
                                    /\ rows[call[c].read].kind = call[c].kind
    /\ call[c].kind = "forget" => IdsOf(call[c].items) \subseteq DOMAIN docs
    /\ call[c].step \in {"buried", "rejected"} => IdsOf(call[c].items) \subseteq tombs
RowsFit  == \A r \in DOMAIN rows : rows[r].kind = "forget" => IdsOf(rows[r].items) \subseteq DOMAIN docs
GravesOK == tombs \subseteq DOMAIN docs /\ blind \subseteq tombs /\ deleted \subseteq tombs

IInv == RowsOK /\ CallOK /\ CountOK /\ FlagsOK /\ DocsOK /\ FactsOK /\ CallsFit /\ RowsFit /\ GravesOK

LEMMA IInvTypes == IInv => TypeOK
<1> SUFFICES ASSUME IInv PROVE TypeOK
  OBVIOUS
<1>1. OneOpen
  BY DEF IInv, RowsOK, LastWaits, OneOpen
<1>2. PendingTypeOK(Items)
  BY <1>1 DEF IInv, RowsOK, CallOK, CountOK, FlagsOK, PendingTypeOK
<1>3. DOMAIN docs \subseteq Ids
  BY ForgettingAssumption DEF IInv, DocsOK, Ids
<1> QED BY <1>2, <1>3 DEF IInv, DocsOK, FactsOK, GravesOK, TypeOK

LEMMA Starts == Init => IInv
<1> SUFFICES ASSUME Init PROVE IInv
  OBVIOUS
<1> USE DEF Init, InitPending
<1>1. Nothing \in Call(Items)
  BY PendingAssumption DEF Nothing, Call, Kinds
<1>2. RowsOK /\ CountOK /\ DocsOK
  BY PendingAssumption, ForgettingAssumption DEF RowsOK, CountOK, DocsOK, LastWaits, Pending
<1>3. CallOK
  BY <1>1 DEF CallOK
<1>4. FlagsOK /\ FactsOK
  <2>1. mishaps \in 0 .. MaxMishaps /\ written \in [Writes -> Nat] /\ FactsOK
    BY PendingAssumption DEF FactsOK
  <2>2. overtaken \in BOOLEAN /\ asked \subseteq Writes
    BY Zenon
  <2> QED BY <2>1, <2>2 DEF FlagsOK
<1>5. CallsFit
  BY DEF CallsFit, Answered, Nothing
<1>6. RowsFit /\ GravesOK
  BY DEF RowsFit, GravesOK
<1> QED BY <1>2, <1>3, <1>4, <1>5, <1>6 DEF IInv

\* A call goes on, the rows stay.
LEMMA Going ==
    ASSUME call \in [Calls -> Call(Items)], NEW c \in Calls, NEW x \in Call(Items), Goes(c, x)
    PROVE  /\ call' \in [Calls -> Call(Items)] /\ call'[c] = x
           /\ \A d \in Calls \ {c} : call'[d] = call[d]
BY DEF Goes

LEMMA Mishaps ==
    ASSUME mishaps \in 0 .. MaxMishaps, NEW bad \in BOOLEAN, MishapIf(bad)
    PROVE  mishaps' \in 0 .. MaxMishaps
BY PendingAssumption DEF MishapIf

LEMMA Same ==
    ASSUME UNCHANGED <<rows, docs, tombs>>, CallsFit, NEW c \in Calls,
           \A d \in Calls \ {c} : call'[d] = call[d],
           call'[c].step \in Answered => /\ call'[c].read \in DOMAIN rows
                                         /\ rows[call'[c].read].kind = call'[c].kind,
           call'[c].kind = "forget" => IdsOf(call'[c].items) \subseteq DOMAIN docs,
           call'[c].step \in {"buried", "rejected"} => IdsOf(call'[c].items) \subseteq tombs
    PROVE  CallsFit'
BY DEF CallsFit, IdsOf

LEMMA Frames ==
    ASSUME IInv, UNCHANGED <<rows, claims, memory, graves>>
    PROVE  RowsOK' /\ CountOK' /\ DocsOK' /\ FactsOK' /\ RowsFit' /\ GravesOK'
<1> USE DEF IInv, memory, graves
<1>1. RowsOK' /\ CountOK'
  BY DEF RowsOK, CountOK, LastWaits, Pending, Is
<1>2. DocsOK' /\ FactsOK' /\ GravesOK'
  BY DEF DocsOK, FactsOK, GravesOK
<1>3. RowsFit'
  BY DEF RowsFit, IdsOf
<1> QED BY <1>1, <1>2, <1>3

\* A call goes on to x, and nothing else moves but the flags.
LEMMA GoesOn ==
    ASSUME IInv, NEW c \in Calls, NEW x \in Call(Items), Goes(c, x),
           UNCHANGED <<rows, claims, memory, graves>>, FlagsOK',
           x.step \in Answered => x.read \in DOMAIN rows /\ rows[x.read].kind = x.kind,
           x.kind = "forget" => IdsOf(x.items) \subseteq DOMAIN docs,
           x.step \in {"buried", "rejected"} => IdsOf(x.items) \subseteq tombs
    PROVE  IInv'
<1>1. CallOK' /\ call'[c] = x /\ \A d \in Calls \ {c} : call'[d] = call[d]
  BY Going DEF IInv, CallOK
<1>2. CallsFit'
  BY <1>1, Same DEF IInv, memory, graves
<1>3. RowsOK' /\ CountOK' /\ DocsOK' /\ FactsOK' /\ RowsFit' /\ GravesOK'
  BY Frames
<1> QED BY <1>1, <1>2, <1>3 DEF IInv

LEMMA Idles == Nothing \in Call(Items) /\ Nothing.step \notin Answered /\ Nothing.kind # "forget"
BY PendingAssumption DEF Nothing, Call, Kinds, Answered

\* Calls that ask: each step keeps the types and what calls are about.
LEMMA StepAsks ==
    ASSUME IInv, NEW c \in Calls, Asks(c), UNCHANGED <<memory, graves>>
    PROVE  IInv'
<1> USE DEF IInv
<1>1. ASSUME NEW w \in Writes, Ask(c, w) PROVE IInv'
  <2> DEFINE x == [Nothing EXCEPT !.step = "gated", !.items = Sum(Open, w)]
  <2>1. Open \in 0 .. MaxRows /\ Frozen(Open) \subseteq Items
    <3>1. CASE Open = 0
      BY <3>1, PendingAssumption DEF Frozen
    <3>2. CASE Open # 0
      <4>1. Open \in 1 .. Len(rows)
        BY <3>2, OpenIsLast DEF RowsOK
      <4>2. rows[Open] \in Row(Items)
        BY <4>1 DEF RowsOK
      <4> QED BY <3>2, <4>1, <4>2, PendingAssumption DEF Frozen, Row, RowsOK
    <3> QED BY <3>1, <3>2
  <2>2. x \in Call(Items) /\ x.step \notin Answered /\ x.kind # "forget"
    <3>1. Sum(Open, w) \subseteq Items /\ 0 \in 0 .. MaxRows
      BY <2>1, PendingAssumption DEF Sum, Items
    <3>2. x \in Call(Items) /\ x.step = "gated"
      BY <2>1, <3>1, Idles DEF Call
    <3>3. x.kind = "write"
      BY DEF Nothing
    <3> QED BY <3>2, <3>3 DEF Answered
  <2>3. Goes(c, x) /\ UNCHANGED <<rows, claims>>
    BY <1>1 DEF Ask
  <2>4. FlagsOK'
    BY <1>1 DEF Ask, FlagsOK
  <2> QED BY <2>2, <2>3, <2>4, GoesOn DEF Answered
<1>2. CASE Propose(c)
  <2> DEFINE x == [call[c] EXCEPT !.step = "proposing", !.seen = Open]
  <2>1. Open \in 0 .. MaxRows
    BY OpenIsLast, PendingAssumption DEF RowsOK
  <2>2. call[c] \in Call(Items)
    BY DEF CallOK
  <2>3. /\ x \in Call(Items) /\ x.step \notin Answered /\ x.step \notin {"buried", "rejected"}
        /\ x.kind = call[c].kind /\ x.items = call[c].items
    BY <2>1, <2>2 DEF Call, Answered
  <2>4. Goes(c, x) /\ UNCHANGED <<rows, claims>>
    BY <1>2 DEF Propose
  <2>5. x.kind = "forget" => IdsOf(x.items) \subseteq DOMAIN docs
    BY <2>3 DEF CallsFit
  <2>6. FlagsOK'
    BY <1>2 DEF Propose, FlagsOK
  <2> HIDE DEF x
  <2> QED BY <2>3, <2>4, <2>5, <2>6, GoesOn
<1>3. CASE Insert(c)
  <2>1. /\ rows' \in Seq(Row(Items)) /\ Len(rows') = Len(rows) + 1
        /\ rows'[Len(rows) + 1] = [kind |-> call[c].kind, items |-> call[c].items, status |-> "pending"]
        /\ \A r \in DOMAIN rows : rows'[r].kind = rows[r].kind /\ rows'[r].items = rows[r].items
    BY <1>3, Inserted DEF RowsOK, CallOK
  <2>2. RowsOK'
    <3>1. LastWaits'
      BY <1>3, Inserting DEF RowsOK, CallOK
    <3>2. Len(rows) < MaxRows /\ Len(rows) \in Nat
      BY <1>3 DEF Insert, RowsOK
    <3> QED BY <2>1, <3>1, <3>2, PendingAssumption DEF RowsOK
  <2>3. CountOK'
    BY <1>3, <2>1 DEF CountOK, Insert
  <2>4. CallOK' /\ call'[c] = Nothing /\ \A d \in Calls \ {c} : call'[d] = call[d]
    BY <1>3, Going, Idles DEF Insert, Ends, CallOK
  <2>5. UNCHANGED <<docs, canonical, log, tombs, blind, deleted>>
    BY DEF memory, graves
  <2>6. DocsOK' /\ FactsOK' /\ GravesOK'
    BY <2>5 DEF DocsOK, FactsOK, GravesOK
  <2>7. DOMAIN rows' = DOMAIN rows \cup {Len(rows) + 1}
    BY <2>1 DEF RowsOK
  <2>8. RowsFit'
    <3> SUFFICES ASSUME NEW r \in DOMAIN rows', rows'[r].kind = "forget"
                 PROVE  IdsOf(rows'[r].items) \subseteq DOMAIN docs
      BY <2>5 DEF RowsFit, IdsOf
    <3>1. CASE r \in DOMAIN rows
      BY <2>1, <3>1 DEF RowsFit
    <3>2. CASE r = Len(rows) + 1
      BY <2>1, <3>2 DEF CallsFit
    <3> QED BY <2>7, <3>1, <3>2
  <2>9. CallsFit'
    <3> SUFFICES ASSUME NEW d \in Calls \ {c}
                 PROVE  /\ call[d].step \in Answered => /\ call[d].read \in DOMAIN rows'
                                                         /\ rows'[call[d].read].kind = call[d].kind
                        /\ call[d].kind = "forget" => IdsOf(call[d].items) \subseteq DOMAIN docs
                        /\ call[d].step \in {"buried", "rejected"} => IdsOf(call[d].items) \subseteq tombs
      BY <2>4, <2>5, Idles DEF CallsFit, IdsOf, Answered
    <3> QED BY <2>1, <2>7 DEF CallsFit
  <2>10. mishaps' \in 0 .. MaxMishaps /\ written' \in [Writes -> Nat] /\ asked' \subseteq Writes
    BY <1>3 DEF Insert, FlagsOK
  <2>11. overtaken' \in BOOLEAN
    BY <1>3, Zenon DEF Insert, FlagsOK
  <2> QED BY <2>2, <2>3, <2>4, <2>6, <2>8, <2>9, <2>10, <2>11 DEF FlagsOK
<1>4. CASE Refused(c)
  <2>1. Goes(c, Nothing) /\ UNCHANGED <<rows, claims>> /\ FlagsOK'
    BY <1>4 DEF Refused, Ends, FlagsOK
  <2> QED BY <2>1, Idles, GoesOn DEF Answered
<1> QED BY <1>1, <1>2, <1>3, <1>4 DEF Asks

LEMMA Rests ==
    ASSUME IInv, NEW c \in Calls, Ends(c), UNCHANGED <<rows, claims, memory, graves>>, FlagsOK'
    PROVE  IInv'
BY Idles, GoesOn DEF Ends, Answered

\* Rows are closed, and nothing else about them changes.
LEMMA Closes ==
    ASSUME IInv, rows' \in Seq(Row(Items)), Len(rows') = Len(rows),
           \A r \in DOMAIN rows : rows'[r].kind = rows[r].kind /\ rows'[r].items = rows[r].items,
           \A r \in DOMAIN rows : Is(r, "pending")' => Is(r, "pending"),
           UNCHANGED <<memory, graves>>, CountOK', FlagsOK',
           CallOK', \A d \in Calls : \/ call'[d] = call[d]
                                     \/ call'[d].step = "idle" /\ call'[d].kind # "forget"
                                     \/ /\ call'[d].step = "doing" /\ call[d].step = "answering"
                                        /\ call'[d].read = call[d].read /\ call'[d].kind = call[d].kind
                                        /\ call'[d].items = rows[call[d].read].items
    PROVE  IInv'
<1>1. RowsOK' /\ DOMAIN rows' = DOMAIN rows
  BY Closing DEF IInv, RowsOK
<1>2. DocsOK' /\ FactsOK' /\ GravesOK' /\ UNCHANGED <<docs, tombs>>
  BY DEF IInv, DocsOK, FactsOK, GravesOK, memory, graves
<1>3. RowsFit'
  BY <1>1, <1>2 DEF IInv, RowsFit, IdsOf
<1>4. CallsFit'
  <2> SUFFICES ASSUME NEW d \in Calls
               PROVE  /\ call'[d].step \in Answered => /\ call'[d].read \in DOMAIN rows
                                                       /\ rows'[call'[d].read].kind = call'[d].kind
                      /\ call'[d].kind = "forget" => IdsOf(call'[d].items) \subseteq DOMAIN docs
                      /\ call'[d].step \in {"buried", "rejected"} => IdsOf(call'[d].items) \subseteq tombs
    BY <1>1, <1>2 DEF CallsFit, IdsOf
  <2>1. CASE call'[d] = call[d]
    BY <2>1 DEF IInv, CallsFit
  <2>2. CASE call'[d].step = "idle" /\ call'[d].kind # "forget"
    BY <2>2 DEF Answered
  <2>3. CASE /\ call'[d].step = "doing" /\ call[d].step = "answering"
             /\ call'[d].read = call[d].read /\ call'[d].kind = call[d].kind
             /\ call'[d].items = rows[call[d].read].items
    <3>1. call[d].read \in DOMAIN rows /\ rows[call[d].read].kind = call[d].kind
      BY <2>3 DEF IInv, CallsFit, Answered
    <3> QED BY <2>3, <3>1 DEF IInv, RowsFit
  <2> QED BY <2>1, <2>2, <2>3
<1> QED BY <1>1, <1>2, <1>3, <1>4 DEF IInv

\* Calls that answer: each step keeps the types and what calls are about.
LEMMA StepAnswers ==
    ASSUME IInv, NEW c \in Calls, Answers(c), UNCHANGED <<memory, graves>>
    PROVE  IInv'
<1>1. ASSUME NEW kind \in Kinds, Answer(c, kind) PROVE IInv'
  <2> DEFINE x == [Nothing EXCEPT !.step = "answering", !.kind = kind, !.read = Open]
  <2>1. Open \in DOMAIN rows /\ rows[Open].kind = kind /\ Open \in 0 .. MaxRows
    BY <1>1, OpenIsLast, PendingAssumption DEF Answer, IInv, RowsOK
  <2>2. x.step = "answering" /\ x.kind = kind /\ x.read = Open /\ x.items = {}
    BY DEF Nothing
  <2>3. Goes(c, x) /\ UNCHANGED <<rows, claims>> /\ FlagsOK'
    BY <1>1 DEF Answer, IInv, FlagsOK
  <2>4. x \in Call(Items)
    BY <2>1, Idles DEF Call
  <2> HIDE DEF x
  <2>5. IdsOf(x.items) = {}
    BY <2>2 DEF IdsOf
  <2> QED BY <2>1, <2>2, <2>3, <2>4, <2>5, GoesOn
<1>2. CASE Claim(c)
  <2> DEFINE r == call[c].read
             x == [call[c] EXCEPT !.step = "doing", !.items = rows[r].items]
  <2>1. r \in 1 .. Len(rows) /\ rows[r] \in Row(Items) /\ call[c] \in Call(Items)
    BY <1>2 DEF Claim, IInv, CallsFit, Answered, RowsOK, CallOK
  <2>2. rows' = [rows EXCEPT ![r].status = "confirmed"]
    BY <1>2 DEF Claim
  <2>3. /\ rows' \in Seq(Row(Items)) /\ Len(rows') = Len(rows)
        /\ \A q \in DOMAIN rows : rows'[q].kind = rows[q].kind /\ rows'[q].items = rows[q].items
        /\ \A q \in DOMAIN rows : Is(q, "pending")' => Is(q, "pending")
    <3> DEFINE new == [rows[r] EXCEPT !.status = "confirmed"]
    <3>1. new \in Row(Items) /\ new.kind = rows[r].kind /\ new.items = rows[r].items /\ new.status = "confirmed"
      BY <2>1 DEF Row
    <3>2. rows' = [rows EXCEPT ![r] = new]
      BY <2>2
    <3> HIDE DEF new
    <3> QED BY <2>1, <3>1, <3>2 DEF IInv, RowsOK, Is
  <2>4. x \in Call(Items) /\ x.step = "doing" /\ x.read = r /\ x.kind = call[c].kind /\ x.items = rows[r].items
    BY <2>1 DEF Call, Row
  <2>5. Goes(c, x)
    BY <1>2 DEF Claim
  <2> HIDE DEF x
  <2>6. CallOK' /\ call'[c] = x /\ \A d \in Calls \ {c} : call'[d] = call[d]
    BY <2>4, <2>5, Going DEF IInv, CallOK
  <2>7. CountOK'
    BY <1>2, <2>1, <2>3 DEF Claim, IInv, CountOK
  <2>8. FlagsOK'
    <3>1. UNCHANGED <<asked, written, mishaps>>
      BY <1>2 DEF Claim
    <3>2. overtaken' \in BOOLEAN
      BY <1>2, Zenon DEF Claim, IInv, FlagsOK
    <3> QED BY <3>1, <3>2 DEF IInv, FlagsOK
  <2>9. call[c].step = "answering"
    BY <1>2 DEF Claim
  <2> QED BY <2>3, <2>4, <2>6, <2>7, <2>8, <2>9, Closes
<1>3. CASE ClaimedAlready(c)
  BY <1>3, Rests DEF ClaimedAlready, IInv, FlagsOK
<1>4. CASE Cancel(c)
  <2> DEFINE Old(r) == IF r \in Pending THEN [rows[r] EXCEPT !.status = "cancelled"] ELSE rows[r]
  <2>1. DOMAIN rows = 1 .. Len(rows) /\ \A r \in 1 .. Len(rows) : rows[r] \in Row(Items)
    BY DEF IInv, RowsOK
  <2>2. \A r \in 1 .. Len(rows) : /\ Old(r) \in Row(Items) /\ Old(r).kind = rows[r].kind /\ Old(r).items = rows[r].items
                                 /\ Old(r).status # "pending"
    BY <2>1 DEF Row, Pending, Is
  <2>3. rows' = [r \in 1 .. Len(rows) |-> Old(r)]
    BY <1>4, <2>1 DEF Cancel
  <2> HIDE DEF Old
  <2>4. rows' \in Seq(Row(Items)) /\ Len(rows') = Len(rows)
    BY <2>2, <2>3, SameLength DEF IInv, RowsOK
  <2>5. \A r \in DOMAIN rows : /\ rows'[r].kind = rows[r].kind /\ rows'[r].items = rows[r].items
                              /\ ~Is(r, "pending")'
    BY <2>1, <2>2, <2>3 DEF Is
  <2>6. CountOK' /\ FlagsOK'
    BY <1>4, <2>4 DEF Cancel, IInv, CountOK, FlagsOK
  <2>7. CallOK' /\ call'[c] = Nothing /\ \A d \in Calls \ {c} : call'[d] = call[d]
    BY <1>4, Going, Idles DEF Cancel, Ends, IInv, CallOK
  <2> QED BY <2>4, <2>5, <2>6, <2>7, Idles, Closes DEF Nothing
<1> QED BY <1>1, <1>2, <1>3, <1>4 DEF Answers

\* Calls that do what was confirmed, calls that die, proposals that expire.
LEMMA StepRest ==
    ASSUME IInv, UNCHANGED <<memory, graves>>,
           (\E c \in Calls : Does(c) \/ Die(c)) \/ \E r \in DOMAIN rows : Expire(r)
    PROVE  IInv'
<1>1. ASSUME NEW c \in Calls, NEW w \in Writes, NEW fails \in BOOLEAN, Write(c, w, fails) PROVE IInv'
  <2> DEFINE x == [call[c] EXCEPT !.items = @ \ {w}]
  <2>1. call[c] \in Call(Items)
    BY DEF IInv, CallOK
  <2>2. /\ x \in Call(Items) /\ x.step = call[c].step /\ x.kind = call[c].kind /\ x.read = call[c].read
    BY <2>1 DEF Call
  <2>3. Goes(c, x) /\ UNCHANGED <<rows, claims>> /\ call[c].step = "doing" /\ call[c].kind = "write"
    BY <1>1 DEF Write
  <2>4. FlagsOK'
    <3>1. mishaps' \in 0 .. MaxMishaps
      BY <1>1, Mishaps DEF Write, IInv, FlagsOK
    <3>2. written' \in [Writes -> Nat]
      BY <1>1 DEF Write, IInv, FlagsOK
    <3> QED BY <1>1, <3>1, <3>2 DEF Write, IInv, FlagsOK
  <2>5. call[c].read \in DOMAIN rows /\ rows[call[c].read].kind = call[c].kind
    BY <2>3 DEF IInv, CallsFit, Answered
  <2> HIDE DEF x
  <2> QED BY <2>2, <2>3, <2>4, <2>5, GoesOn
<1>2. ASSUME NEW c \in Calls, Finish(c) PROVE IInv'
  BY <1>2, Rests DEF Finish, IInv, FlagsOK
<1>3. ASSUME NEW c \in Calls, Die(c) PROVE IInv'
  <2>1. FlagsOK'
    BY <1>3, Mishaps DEF Die, IInv, FlagsOK
  <2> QED BY <1>3, <2>1, Rests DEF Die
<1>4. ASSUME NEW r \in DOMAIN rows, Expire(r) PROVE IInv'
  <2>1. r \in 1 .. Len(rows) /\ rows[r] \in Row(Items)
    BY DEF IInv, RowsOK
  <2> DEFINE new == [rows[r] EXCEPT !.status = "expired"]
  <2>2. new \in Row(Items) /\ new.kind = rows[r].kind /\ new.items = rows[r].items /\ new.status = "expired"
    BY <2>1 DEF Row
  <2>3. rows' = [rows EXCEPT ![r] = new]
    BY <1>4 DEF Expire
  <2> HIDE DEF new
  <2>4. /\ rows' \in Seq(Row(Items)) /\ Len(rows') = Len(rows)
        /\ \A q \in DOMAIN rows : rows'[q].kind = rows[q].kind /\ rows'[q].items = rows[q].items
        /\ \A q \in DOMAIN rows : Is(q, "pending")' => Is(q, "pending")
    BY <2>1, <2>2, <2>3 DEF IInv, RowsOK, Is
  <2>5. FlagsOK'
    BY <1>4, Mishaps DEF Expire, IInv, FlagsOK
  <2>6. CountOK' /\ CallOK' /\ \A d \in Calls : call'[d] = call[d]
    BY <1>4, <2>4 DEF Expire, IInv, CountOK, CallOK
  <2> QED BY <2>4, <2>5, <2>6, Closes
<1> QED BY <1>1, <1>2, <1>3, <1>4 DEF Does

\* The documents get more, or stay; everything else about them does.
LEMMA Grows ==
    ASSUME IInv, DocsOK', FactsOK', DOMAIN docs \subseteq DOMAIN docs', mishaps' \in 0 .. MaxMishaps,
           Unasked, UNCHANGED graves
    PROVE  IInv'
<1> USE DEF IInv, Unasked, Kept, graves
<1>1. RowsOK' /\ CallOK' /\ CountOK' /\ FlagsOK'
  BY DEF RowsOK, CallOK, CountOK, FlagsOK, LastWaits, Pending, Is
<1>2. CallsFit' /\ RowsFit' /\ GravesOK'
  BY DEF CallsFit, RowsFit, GravesOK, IdsOf
<1> QED BY <1>1, <1>2

\* A document is added behind the others.
LEMMA Added ==
    ASSUME DocsOK, NEW text \in Texts, Add(text), Len(docs) < MaxDocs
    PROVE  /\ DocsOK' /\ DOMAIN docs \subseteq DOMAIN docs'
           /\ \A d \in DOMAIN docs : docs'[d] = docs[d]
<1>1. [text |-> text, present |-> TRUE] \in Doc
  BY DEF Doc
<1> DEFINE new == [text |-> text, present |-> TRUE]
<1>2. docs' = Append(docs, new)
  BY DEF Add
<1> HIDE DEF new
<1>3. docs' \in Seq(Doc) /\ Len(docs') = Len(docs) + 1 /\ \A d \in DOMAIN docs : docs'[d] = docs[d]
  BY <1>1, <1>2 DEF DocsOK, new
<1> QED BY <1>3, ForgettingAssumption DEF DocsOK

\* Facts that are saved, and those the worker adds.
LEMMA StepRemember ==
    ASSUME IInv, NEW f \in Facts, Remember(f)
    PROVE  /\ IInv' /\ Unasked /\ UNCHANGED graves
           /\ \A d \in DOMAIN docs : docs'[d] = docs[d]
           /\ \A g \in Facts : canonical'[g] = "rejected" => canonical[g] = "rejected"
<1>1. ASSUME NEW mirrored \in BOOLEAN, NEW known \in BOOLEAN, Save(f, mirrored, known)
      PROVE  /\ IInv' /\ Unasked /\ UNCHANGED graves
             /\ \A d \in DOMAIN docs : docs'[d] = docs[d]
             /\ \A g \in Facts : canonical'[g] = "rejected" => canonical[g] = "rejected"
  <2>1. <<f, "headed">> \in Texts
    BY DEF Texts
  <2>2. DocsOK' /\ DOMAIN docs \subseteq DOMAIN docs' /\ \A d \in DOMAIN docs : docs'[d] = docs[d]
    BY <1>1, <2>1, Added DEF Save, IInv
  <2>3. FactsOK' /\ \A g \in Facts : canonical'[g] = "rejected" => canonical[g] = "rejected"
    BY <1>1 DEF Save, IInv, FactsOK
  <2>4. mishaps' \in 0 .. MaxMishaps /\ Unasked /\ UNCHANGED graves
    BY <1>1 DEF Save, IInv, FlagsOK
  <2> QED BY <2>2, <2>3, <2>4, Grows
<1>2. ASSUME NEW wording \in {"bare", "reworded"}, NEW committed \in BOOLEAN, Project(f, wording, committed)
      PROVE  /\ IInv' /\ Unasked /\ UNCHANGED graves
             /\ \A d \in DOMAIN docs : docs'[d] = docs[d]
             /\ \A g \in Facts : canonical'[g] = "rejected" => canonical[g] = "rejected"
  <2>1. <<f, wording>> \in Texts
    BY DEF Texts
  <2>2. DocsOK' /\ DOMAIN docs \subseteq DOMAIN docs' /\ \A d \in DOMAIN docs : docs'[d] = docs[d]
    BY <1>2, <2>1, Added DEF Project, IInv
  <2>3. FactsOK' /\ \A g \in Facts : canonical'[g] = "rejected" => canonical[g] = "rejected"
    BY <1>2 DEF Project, IInv, FactsOK
  <2>4. mishaps' \in 0 .. MaxMishaps
    BY <1>2, Mishaps DEF Project, IInv, FlagsOK
  <2>5. Unasked /\ UNCHANGED graves
    BY <1>2 DEF Project, graves
  <2> QED BY <2>2, <2>3, <2>4, <2>5, Grows
<1> QED BY <1>1, <1>2 DEF Remember

\* A call says what is to be forgotten.
LEMMA StepResolve ==
    ASSUME IInv, NEW c \in Calls, NEW targets \in SUBSET (Present \X BOOLEAN), Resolve(c, targets)
    PROVE  IInv' /\ call'[c].kind = "forget"
<1> DEFINE x == [Nothing EXCEPT !.step = "gated", !.kind = "forget", !.items = targets]
<1>1. Present \subseteq DOMAIN docs /\ DOMAIN docs \subseteq Ids
  BY ForgettingAssumption DEF Present, IInv, DocsOK, Ids
<1>2. targets \in SUBSET Items /\ IdsOf(targets) \subseteq DOMAIN docs
  BY <1>1 DEF Items, Targets, IdsOf
<1>3. x \in Call(Items)
  BY <1>2, Idles DEF Call, Kinds
<1>4. x.step = "gated" /\ x.kind = "forget" /\ x.items = targets
  BY DEF Nothing
<1>5. Goes(c, x) /\ UNCHANGED <<rows, claims, memory, graves>>
  BY DEF Resolve, Kept
<1>6. mishaps' \in 0 .. MaxMishaps
  <2>1. (\E t \in targets : ~t[2]) \in BOOLEAN
    OBVIOUS
  <2> QED BY <2>1, Mishaps DEF Resolve, IInv, FlagsOK
<1>7. FlagsOK'
  BY <1>6 DEF Resolve, Kept, IInv, FlagsOK
<1> HIDE DEF x
<1>8. IInv'
  BY <1>2, <1>3, <1>4, <1>5, <1>7, GoesOn DEF Answered
<1>9. call'[c] = x
  BY <1>3, <1>5, Going DEF IInv, CallOK
<1> QED BY <1>4, <1>8, <1>9

\* What was confirmed to be forgotten is buried, rejected and deleted.
LEMMA StepForget ==
    ASSUME IInv, NEW c \in Calls, Forget(c)
    PROVE  /\ IInv' /\ Kept /\ call[c].kind = "forget" /\ call'[c].kind = "forget"
           /\ \A d \in Calls \ {c} : call'[d] = call[d]
           /\ tombs \subseteq tombs' /\ \A d \in DOMAIN docs : docs'[d].text = docs[d].text
<1> DEFINE Goal == /\ IInv' /\ Kept /\ call[c].kind = "forget" /\ call'[c].kind = "forget"
                   /\ \A d \in Calls \ {c} : call'[d] = call[d]
                   /\ tombs \subseteq tombs' /\ \A d \in DOMAIN docs : docs'[d].text = docs[d].text
<1>1. call[c] \in Call(Items) /\ call \in [Calls -> Call(Items)] /\ FlagsOK
  BY DEF IInv, CallOK
<1>2. CASE Bury(c) /\ Kept /\ UNCHANGED <<memory, deleted>>
  <2> DEFINE x == [call[c] EXCEPT !.step = "buried"]
  <2>1. x \in Call(Items) /\ x.step = "buried" /\ x.kind = "forget" /\ x.items = call[c].items /\ x.read = call[c].read
    BY <1>1, <1>2 DEF Call, Bury, Forgets
  <2>2. Goes(c, x)
    BY <1>2 DEF Bury, Then
  <2> HIDE DEF x
  <2>3. CallOK' /\ call'[c] = x /\ \A d \in Calls \ {c} : call'[d] = call[d]
    BY <1>1, <2>1, <2>2, Going DEF CallOK
  <2>4. RowsOK' /\ CountOK' /\ FlagsOK'
    BY <1>2 DEF Kept, Bury, IInv, RowsOK, CountOK, FlagsOK, LastWaits, Pending, Is
  <2>5. DocsOK' /\ FactsOK' /\ docs' = docs /\ rows' = rows
    BY <1>2 DEF memory, IInv, DocsOK, FactsOK, Kept
  <2>6. RowsFit'
    BY <2>5 DEF IInv, RowsFit, IdsOf
  <2>7. /\ call[c].read \in DOMAIN rows /\ rows[call[c].read].kind = "forget"
        /\ IdsOf(call[c].items) \subseteq DOMAIN docs
    BY <1>2 DEF Bury, Forgets, IInv, CallsFit, Answered
  <2>8. tombs' = tombs \cup IdsOf(call[c].items) /\ blind' \subseteq tombs' /\ deleted' = deleted
    BY <1>2 DEF Bury, IdsOf, IInv, GravesOK
  <2>9. GravesOK'
    BY <2>5, <2>7, <2>8 DEF IInv, GravesOK
  <2>10. CallsFit'
    <3> SUFFICES ASSUME NEW d \in Calls
                 PROVE  /\ call'[d].step \in Answered => /\ call'[d].read \in DOMAIN rows
                                                         /\ rows[call'[d].read].kind = call'[d].kind
                        /\ call'[d].kind = "forget" => IdsOf(call'[d].items) \subseteq DOMAIN docs
                        /\ call'[d].step \in {"buried", "rejected"} => IdsOf(call'[d].items) \subseteq tombs'
      BY <2>5 DEF CallsFit, IdsOf
    <3>1. CASE d = c
      BY <2>1, <2>3, <2>7, <2>8, <3>1
    <3>2. CASE d # c
      BY <2>3, <2>8, <3>2 DEF IInv, CallsFit
    <3> QED BY <3>1, <3>2
  <2> QED BY <1>2, <2>1, <2>3, <2>4, <2>5, <2>6, <2>8, <2>9, <2>10 DEF IInv, Bury, Forgets
<1>3. CASE Reject(c) /\ Kept /\ UNCHANGED <<docs, log, graves>>
  <2> DEFINE x == [call[c] EXCEPT !.step = "rejected"]
  <2>1. x \in Call(Items) /\ x.step = "rejected" /\ x.kind = "forget" /\ x.items = call[c].items /\ x.read = call[c].read
    BY <1>1, <1>3 DEF Call, Reject, Forgets
  <2>2. Goes(c, x)
    BY <1>3 DEF Reject, Then
  <2> HIDE DEF x
  <2>3. CallOK' /\ call'[c] = x /\ \A d \in Calls \ {c} : call'[d] = call[d]
    BY <1>1, <2>1, <2>2, Going DEF CallOK
  <2>4. RowsOK' /\ CountOK' /\ FlagsOK'
    BY <1>3 DEF Kept, Reject, IInv, RowsOK, CountOK, FlagsOK, LastWaits, Pending, Is
  <2>5. FactsOK'
    BY <1>3 DEF Reject, IInv, FactsOK
  <2>6. UNCHANGED <<docs, rows, tombs, blind, deleted>>
    BY <1>3 DEF graves, Kept
  <2>7. DocsOK' /\ GravesOK' /\ RowsFit'
    BY <2>6 DEF IInv, DocsOK, GravesOK, RowsFit, IdsOf
  <2>8. /\ call[c].read \in DOMAIN rows /\ rows[call[c].read].kind = "forget"
        /\ IdsOf(call[c].items) \subseteq DOMAIN docs /\ IdsOf(call[c].items) \subseteq tombs
    BY <1>3 DEF Reject, Forgets, IInv, CallsFit, Answered
  <2>9. CallsFit'
    BY <2>1, <2>3, <2>6, <2>8, Same DEF IInv
  <2> QED BY <1>3, <2>1, <2>3, <2>4, <2>5, <2>6, <2>7, <2>9 DEF IInv, Reject, Forgets
<1>4. ASSUME NEW t \in Targets, NEW fails \in BOOLEAN,
             Delete(c, t, fails) /\ Kept /\ UNCHANGED <<canonical, log, tombs, blind>>
      PROVE  Goal
  <2> DEFINE x == [call[c] EXCEPT !.items = @ \ {t}]
  <2>1. /\ x \in Call(Items) /\ x.step = "rejected" /\ x.kind = "forget" /\ x.read = call[c].read
        /\ x.items \subseteq call[c].items
    BY <1>1, <1>4 DEF Call, Delete, Forgets
  <2>2. Goes(c, x)
    BY <1>4 DEF Delete
  <2> HIDE DEF x
  <2>3. CallOK' /\ call'[c] = x /\ \A d \in Calls \ {c} : call'[d] = call[d]
    BY <1>1, <2>1, <2>2, Going DEF CallOK
  <2>4. mishaps' \in 0 .. MaxMishaps
    BY <1>1, <1>4, Mishaps DEF Delete, FlagsOK
  <2>5. RowsOK' /\ CountOK' /\ FlagsOK' /\ FactsOK'
    BY <1>4, <2>4 DEF Kept, IInv, RowsOK, CountOK, FlagsOK, FactsOK, LastWaits, Pending, Is
  <2>6. /\ call[c].read \in DOMAIN rows /\ rows[call[c].read].kind = "forget"
        /\ IdsOf(call[c].items) \subseteq DOMAIN docs /\ IdsOf(call[c].items) \subseteq tombs
    BY <1>4 DEF Delete, Forgets, IInv, CallsFit, Answered
  <2>7. t[1] \in IdsOf(call[c].items)
    BY <1>4 DEF Delete, IdsOf
  <2>8. DocsOK' /\ DOMAIN docs' = DOMAIN docs /\ \A d \in DOMAIN docs : docs'[d].text = docs[d].text
    <3>1. CASE fails
      BY <1>4, <3>1 DEF Delete, IInv, DocsOK
    <3>2. CASE ~fails
      <4> DEFINE i == t[1]
                 new == [docs[i] EXCEPT !.present = FALSE]
      <4>1. docs' = [docs EXCEPT ![i] = new]
        BY <1>4, <3>2 DEF Delete
      <4>2. i \in DOMAIN docs /\ docs[i] \in Doc
        BY <2>6, <2>7 DEF IInv, DocsOK
      <4>3. new \in Doc /\ new.text = docs[i].text
        BY <4>2 DEF Doc
      <4> HIDE DEF new, i
      <4> QED BY <4>1, <4>2, <4>3 DEF IInv, DocsOK
    <3> QED BY <3>1, <3>2
  <2>9. tombs' = tombs /\ blind' = blind /\ rows' = rows /\ deleted' \subseteq deleted \cup {t[1]}
    BY <1>4 DEF Delete, Kept
  <2>10. GravesOK' /\ RowsFit'
    BY <2>6, <2>7, <2>8, <2>9 DEF IInv, GravesOK, RowsFit, IdsOf
  <2>11. IdsOf(x.items) \subseteq IdsOf(call[c].items)
    BY <2>1 DEF IdsOf
  <2>12. CallsFit'
    <3> SUFFICES ASSUME NEW d \in Calls
                 PROVE  /\ call'[d].step \in Answered => /\ call'[d].read \in DOMAIN rows
                                                         /\ rows[call'[d].read].kind = call'[d].kind
                        /\ call'[d].kind = "forget" => IdsOf(call'[d].items) \subseteq DOMAIN docs
                        /\ call'[d].step \in {"buried", "rejected"} => IdsOf(call'[d].items) \subseteq tombs
      BY <2>8, <2>9 DEF CallsFit, IdsOf
    <3>1. CASE d = c
      BY <2>1, <2>3, <2>6, <2>11, <3>1
    <3>2. CASE d # c
      BY <2>3, <3>2 DEF IInv, CallsFit
    <3> QED BY <3>1, <3>2
  <2> QED BY <1>4, <2>1, <2>3, <2>5, <2>8, <2>9, <2>10, <2>12 DEF IInv, Delete, Forgets
<1> QED BY <1>2, <1>3, <1>4 DEF Forget

\* Nothing moves.
LEMMA StepStays ==
    ASSUME IInv, UNCHANGED vars
    PROVE  IInv'
<1>1. UNCHANGED <<rows, call, asked, written, claims, overtaken, mishaps, memory, graves>>
  BY DEF vars, pending
<1>2. CallOK' /\ FlagsOK'
  BY <1>1 DEF IInv, CallOK, FlagsOK
<1>3. RowsOK' /\ CountOK' /\ DocsOK' /\ FactsOK' /\ RowsFit' /\ GravesOK'
  BY <1>1, Frames
<1>4. CallsFit'
  BY <1>1 DEF IInv, CallsFit, IdsOf, memory, graves
<1> QED BY <1>2, <1>3, <1>4 DEF IInv

LEMMA Steps == IInv /\ [Next]_vars => IInv'
<1> SUFFICES ASSUME IInv, [Next]_vars PROVE IInv'
  OBVIOUS
<1>1. CASE PendingNext /\ UNCHANGED <<memory, graves>>
  BY <1>1, StepAsks, StepAnswers, StepRest DEF PendingNext
<1>2. ASSUME NEW f \in Facts, Remember(f) PROVE IInv'
  BY <1>2, StepRemember
<1>3. ASSUME NEW c \in Calls, Forget(c) PROVE IInv'
  BY <1>3, StepForget
<1>4. ASSUME NEW c \in Calls, NEW targets \in SUBSET (Present \X BOOLEAN), Resolve(c, targets) PROVE IInv'
  BY <1>4, StepResolve
<1>5. CASE UNCHANGED vars
  BY <1>5, StepStays
<1> QED BY <1>1, <1>2, <1>3, <1>4, <1>5 DEF Next

LEMMA Always == Spec => []IInv
BY Starts, Steps, PTL DEF Spec

\* Rows, calls, documents and tombstones keep their types, one row at most waits
\* for an answer, and only what has a tombstone is deleted.
THEOREM TypeCorrect == Spec => []TypeOK
BY Always, IInvTypes, PTL

\* A text that a deletion has removed is not recalled under another id, unless its
\* tombstone was written without it.  Other wordings of the fact are other texts.
THEOREM DeletedStaysGone == Spec => []DeletedIsNotRecalled
<1>1. IInv => DeletedIsNotRecalled
  BY DEF IInv, GravesOK, DeletedIsNotRecalled, Recalled, Forgotten
<1> QED BY <1>1, Always, PTL

-----------------------------------------------------------------------------
(* Rows of the canonical memory that were given up                         *)

\* A tombstone has what a rejected row states.
RejectedIsBuried == \A f \in Facts : canonical[f] = "rejected" => \E e \in tombs : Text(e) = <<f, "bare">>

LEMMA RejectedSteps == IInv /\ RejectedIsBuried /\ [Next]_vars => RejectedIsBuried'
<1> SUFFICES ASSUME IInv, RejectedIsBuried, [Next]_vars PROVE RejectedIsBuried'
  OBVIOUS
<1>1. ASSUME tombs \subseteq tombs', \A d \in DOMAIN docs : docs'[d].text = docs[d].text,
             \A f \in Facts : canonical'[f] = "rejected" => canonical[f] = "rejected"
      PROVE  RejectedIsBuried'
  <2>1. \A e \in tombs : Text(e)' = Text(e)
    BY <1>1 DEF IInv, GravesOK, Text
  <2> QED BY <1>1, <2>1 DEF RejectedIsBuried, Text
<1>2. CASE UNCHANGED <<memory, graves>>
  BY <1>1, <1>2 DEF memory, graves
<1>3. ASSUME NEW f \in Facts, Remember(f) PROVE RejectedIsBuried'
  BY <1>1, <1>3, StepRemember DEF graves
<1>4. ASSUME NEW c \in Calls, Forget(c) PROVE RejectedIsBuried'
  <2>1. tombs \subseteq tombs' /\ \A d \in DOMAIN docs : docs'[d].text = docs[d].text
    BY <1>4, StepForget
  <2>2. CASE Reject(c) /\ UNCHANGED <<docs, log, graves>>
    <3>1. /\ IdsOf(call[c].items) \subseteq tombs /\ docs' = docs /\ tombs' = tombs
      BY <2>2 DEF Reject, Forgets, IInv, CallsFit, graves
    <3> SUFFICES ASSUME NEW f \in Facts, canonical'[f] = "rejected"
                 PROVE  \E e \in tombs : Text(e) = <<f, "bare">>
      BY <3>1 DEF RejectedIsBuried, Text
    <3>2. CASE canonical[f] = "rejected"
      BY <3>2 DEF RejectedIsBuried
    <3>3. CASE canonical[f] # "rejected"
      <4>1. <<f, "bare">> \in TextsOf(call[c].items)
        BY <2>2, <3>3 DEF Reject
      <4>2. PICK t \in call[c].items : Text(t[1]) = <<f, "bare">>
        BY <4>1 DEF TextsOf
      <4>3. t[1] \in IdsOf(call[c].items)
        BY DEF IdsOf
      <4> QED BY <3>1, <4>2, <4>3
    <3> QED BY <3>2, <3>3
  <2>3. CASE UNCHANGED canonical
    BY <1>1, <2>1, <2>3
  <2> QED BY <1>4, <2>2, <2>3 DEF Forget, memory
<1>5. ASSUME NEW c \in Calls, NEW targets \in SUBSET (Present \X BOOLEAN), Resolve(c, targets)
      PROVE  RejectedIsBuried'
  BY <1>2, <1>5 DEF Resolve
<1>6. UNCHANGED vars => UNCHANGED <<memory, graves>>
  BY DEF vars
<1> QED BY <1>2, <1>3, <1>4, <1>5, <1>6 DEF Next

\* A fact the canonical memory has given up is not recalled in the words of its row,
\* under any id, also when the deletion stops between the tombstone and the document,
\* unless a tombstone for these words was written without them.
THEOREM RejectedStaysGone == Spec => []RejectedIsNotRecalled
<1>1. Init => RejectedIsBuried
  BY DEF Init, RejectedIsBuried
<1>2. IInv /\ RejectedIsBuried => RejectedIsNotRecalled
  BY DEF IInv, GravesOK, RejectedIsBuried, RejectedIsNotRecalled, Recalled, Forgotten
<1> QED BY <1>1, <1>2, RejectedSteps, Always, PTL DEF Spec

-----------------------------------------------------------------------------
(* What was confirmed                                                      *)

\* The steps that leave the rows, their claims and what was written alone.
LEMMA Aside ==
    ASSUME IInv, \/ \E f \in Facts : Remember(f)
                 \/ \E c \in Calls : Forget(c) \/ \E targets \in SUBSET (Present \X BOOLEAN) : Resolve(c, targets)
                 \/ UNCHANGED vars
    PROVE  /\ Kept
           /\ \A d \in Calls : call'[d] = call[d] \/ call'[d].kind = "forget"
<1>1. ASSUME NEW f \in Facts, Remember(f) PROVE Kept /\ call' = call
  BY <1>1, StepRemember DEF Unasked
<1>2. ASSUME NEW c \in Calls, Forget(c)
      PROVE  Kept /\ \A d \in Calls : call'[d] = call[d] \/ call'[d].kind = "forget"
  BY <1>2, StepForget
<1>3. ASSUME NEW c \in Calls, NEW targets \in SUBSET (Present \X BOOLEAN), Resolve(c, targets)
      PROVE  Kept /\ \A d \in Calls : call'[d] = call[d] \/ call'[d].kind = "forget"
  <2>1. Kept /\ call'[c].kind = "forget"
    BY <1>3, StepResolve DEF Resolve
  <2>2. \A d \in Calls \ {c} : call'[d] = call[d]
    BY <1>3 DEF Resolve, Goes, IInv, CallOK
  <2> QED BY <2>1, <2>2
<1>4. CASE UNCHANGED vars
  BY <1>4 DEF vars, pending, Kept
<1> QED BY <1>1, <1>2, <1>3, <1>4

LEMMA ClaimSteps == IInv /\ ConfirmedOnce /\ [Next]_vars => ConfirmedOnce'
<1> SUFFICES ASSUME IInv, ConfirmedOnce, [Next]_vars PROVE ConfirmedOnce'
  OBVIOUS
<1>1. /\ rows \in Seq(Row(Items)) /\ claims \in Seq(Nat) /\ Len(claims) = Len(rows)
      /\ call \in [Calls -> Call(Items)]
  BY DEF IInv, RowsOK, CountOK, CallOK
<1>2. ASSUME claims' = claims, Len(rows') = Len(rows), rows' \in Seq(Row(Items)),
             \A r \in DOMAIN rows : Is(r, "confirmed") => Is(r, "confirmed")'
      PROVE  ConfirmedOnce'
  BY <1>1, <1>2 DEF ConfirmedOnce
<1>3. CASE UNCHANGED <<rows, claims>>
  BY <1>1, <1>2, <1>3 DEF Is
<1>4. ASSUME NEW c \in Calls, Insert(c) PROVE ConfirmedOnce'
  <2>1. /\ Len(rows') = Len(rows) + 1 /\ rows' \in Seq(Row(Items))
        /\ \A r \in DOMAIN rows : Is(r, "confirmed") => Is(r, "confirmed")'
    BY <1>1, <1>4, Inserted DEF Is
  <2>2. claims' = Append(claims, 0)
    BY <1>4 DEF Insert
  <2>3. \A r \in DOMAIN rows : claims'[r] = claims[r]
    BY <1>1, <2>2
  <2>4. claims'[Len(rows) + 1] = 0
    BY <1>1, <2>2
  <2> SUFFICES ASSUME NEW r \in DOMAIN rows'
               PROVE  claims'[r] <= 1 /\ (claims'[r] = 1 => Is(r, "confirmed")')
    BY DEF ConfirmedOnce
  <2>5. r \in DOMAIN rows \/ r = Len(rows) + 1
    BY <1>1, <2>1
  <2> QED BY <2>1, <2>3, <2>4, <2>5 DEF ConfirmedOnce
<1>5. ASSUME NEW c \in Calls, Claim(c) PROVE ConfirmedOnce'
  <2> DEFINE r == call[c].read
  <2>1. r \in DOMAIN rows /\ Is(r, "pending") /\ rows[r] \in Row(Items)
    BY <1>1, <1>5 DEF Claim, Claimable, IInv, CallsFit, Answered
  <2>2. claims[r] = 0
    <3>1. claims[r] # 1 /\ claims[r] <= 1 /\ claims[r] \in Nat
      BY <1>1, <2>1 DEF ConfirmedOnce, Is
    <3> QED BY <3>1
  <2>3. rows' = [rows EXCEPT ![r].status = "confirmed"] /\ claims' = [claims EXCEPT ![r] = @ + 1]
    BY <1>5 DEF Claim
  <2> HIDE DEF r
  <2>4. claims'[r] = 1 /\ \A q \in DOMAIN rows \ {r} : claims'[q] = claims[q]
    BY <1>1, <2>1, <2>2, <2>3
  <2>5. DOMAIN rows' = DOMAIN rows /\ rows'[r].status = "confirmed" /\ \A q \in DOMAIN rows \ {r} : rows'[q] = rows[q]
    BY <1>1, <2>1, <2>3 DEF Row
  <2> QED BY <2>4, <2>5 DEF ConfirmedOnce, Is
<1>6. ASSUME NEW c \in Calls, Cancel(c) PROVE ConfirmedOnce'
  <2>1. /\ DOMAIN rows' = DOMAIN rows /\ claims' = claims
        /\ \A r \in DOMAIN rows : Is(r, "confirmed") => rows'[r] = rows[r]
    BY <1>6 DEF Cancel, Pending, Is
  <2> QED BY <2>1 DEF ConfirmedOnce, Is
<1>7. ASSUME NEW r \in DOMAIN rows, Expire(r) PROVE ConfirmedOnce'
  <2>1. /\ DOMAIN rows' = DOMAIN rows /\ claims' = claims
        /\ \A q \in DOMAIN rows : Is(q, "confirmed") => rows'[q] = rows[q]
    BY <1>1, <1>7 DEF Expire, Pending, Is
  <2> QED BY <2>1 DEF ConfirmedOnce, Is
<1>8. CASE PendingNext
  <2>1. ASSUME NEW c \in Calls, Asks(c) PROVE ConfirmedOnce'
    BY <1>3, <1>4, <2>1 DEF Asks, Ask, Propose, Refused
  <2>2. ASSUME NEW c \in Calls, Answers(c) PROVE ConfirmedOnce'
    BY <1>3, <1>5, <1>6, <2>2 DEF Answers, Answer, ClaimedAlready
  <2>3. ASSUME NEW c \in Calls, Does(c) \/ Die(c) PROVE ConfirmedOnce'
    BY <1>3, <2>3 DEF Does, Write, Finish, Die
  <2> QED BY <1>7, <1>8, <2>1, <2>2, <2>3 DEF PendingNext
<1>9. CASE ~PendingNext
  BY <1>3, <1>9, Aside DEF Next, Kept
<1> QED BY <1>8, <1>9

\* What was confirmed is taken by one call only, however often the answer is given
\* and by however many calls.
THEOREM ConfirmedAtMostOnce == Spec => []ConfirmedOnce
<1>1. Init => ConfirmedOnce
  BY DEF Init, InitPending, ConfirmedOnce
<1> QED BY <1>1, ClaimSteps, Always, PTL DEF Spec

-----------------------------------------------------------------------------
(* Writes that were confirmed                                              *)

\* A write is about to be done by a call, or may still be confirmed.
Holds(c, w) == call[c].step = "doing" /\ call[c].kind = "write" /\ w \in call[c].items
Offers(c, w) == call[c].step \in {"gated", "proposing"} /\ call[c].kind = "write" /\ w \in call[c].items
Waits(w) == \E r \in DOMAIN rows : Is(r, "pending") /\ rows[r].kind = "write" /\ w \in rows[r].items
Pends(w) == Waits(w) \/ \E c \in Calls : Offers(c, w)
Taken(w) == written[w] = 1 \/ \E c \in Calls : Holds(c, w)

\* What is taken can be confirmed no more.
Once(w) == /\ written[w] <= 1
           /\ \A c, d \in Calls : Holds(c, w) /\ Holds(d, w) => c = d /\ written[w] = 0
           /\ Taken(w) => w \in asked /\ ~Pends(w)
           /\ Pends(w) => w \in asked
OnceInv == ~overtaken => \A w \in Writes : Once(w)

\* Nothing is taken, and what may be confirmed could be before, or is asked for now.
LEMMA NoneTaken ==
    ASSUME OnceInv, overtaken' = overtaken, written' = written, asked \subseteq asked',
           NEW c \in Calls, \A d \in Calls \ {c} : call'[d] = call[d],
           \A w \in Writes : Holds(c, w)' => Holds(c, w),
           \A w \in Writes : Waits(w)' => Pends(w),
           \A w \in Writes : Offers(c, w)' => w \in asked' /\ (Pends(w) \/ w \notin asked)
    PROVE  OnceInv'
<1> SUFFICES ASSUME ~overtaken, NEW w \in Writes PROVE Once(w)'
  BY DEF OnceInv
<1>1. Once(w)
  BY DEF OnceInv
<1>2. \A d \in Calls : Holds(d, w)' => Holds(d, w)
  BY DEF Holds
<1>3. Taken(w)' => Taken(w)
  BY <1>2 DEF Taken
<1>4. \A d \in Calls \ {c} : Offers(d, w)' => Offers(d, w)
  BY DEF Offers
<1>5. Pends(w)' => w \in asked' /\ (Pends(w) \/ w \notin asked)
  BY <1>1, <1>4 DEF Pends, Once
<1> QED BY <1>1, <1>2, <1>3, <1>5 DEF Once

LEMMA OnceSteps == IInv /\ OnceInv /\ [Next]_vars => OnceInv'
<1> SUFFICES ASSUME IInv, OnceInv, [Next]_vars PROVE OnceInv'
  OBVIOUS
<1>1. /\ rows \in Seq(Row(Items)) /\ call \in [Calls -> Call(Items)] /\ LastWaits
      /\ written \in [Writes -> Nat]
  BY DEF IInv, RowsOK, CallOK, FlagsOK
<1>2. ASSUME NEW c \in Calls, \A d \in Calls \ {c} : call'[d] = call[d],
             UNCHANGED <<asked, written, overtaken>>,
             \A r \in DOMAIN rows' : Is(r, "pending")' => r \in DOMAIN rows /\ rows'[r] = rows[r],
             call'[c].step \notin {"gated", "proposing", "doing"} \/ call'[c].kind # "write"
      PROVE  OnceInv'
  <2>1. \A w \in Writes : Waits(w)' => Pends(w)
    BY <1>2 DEF Waits, Pends, Is
  <2>2. \A w \in Writes : ~Holds(c, w)' /\ ~Offers(c, w)'
    BY <1>2 DEF Holds, Offers
  <2> QED BY <1>2, <2>1, <2>2, NoneTaken
<1>3. ASSUME NEW c \in Calls, NEW w \in Writes, Ask(c, w) PROVE OnceInv'
  <2> DEFINE x == [Nothing EXCEPT !.step = "gated", !.items = Sum(Open, w)]
  <2>1. x.step = "gated" /\ x.items = Sum(Open, w)
    BY DEF Nothing
  <2>2. Goes(c, x)
    BY <1>3 DEF Ask
  <2> HIDE DEF x
  <2>3. call'[c] = x /\ \A d \in Calls \ {c} : call'[d] = call[d]
    BY <1>1, <2>2 DEF Goes
  <2>4. /\ overtaken' = overtaken /\ written' = written /\ asked' = asked \cup {w} /\ w \notin asked /\ rows' = rows
        /\ Open # 0 => rows[Open].kind = "write"
    BY <1>3 DEF Ask
  <2>5. \A v \in Writes : Waits(v)' => Pends(v)
    BY <2>4 DEF Waits, Pends, Is
  <2>6. \A v \in Writes : ~Holds(c, v)'
    BY <2>1, <2>3 DEF Holds
  <2>7. ASSUME NEW v \in Writes, ~overtaken, v \in Sum(Open, w)
        PROVE  v \in asked' /\ (Pends(v) \/ v \notin asked)
    <3>1. CASE v = w
      BY <2>4, <3>1
    <3>2. CASE v # w
      <4>1. Open # 0 /\ v \in rows[Open].items
        BY <2>7, <3>2 DEF Sum, Frozen
      <4>2. Open \in DOMAIN rows /\ Is(Open, "pending")
        BY <1>1, <4>1, OpenIsLast
      <4>3. Pends(v)
        BY <2>4, <4>1, <4>2 DEF Pends, Waits
      <4> QED BY <2>4, <2>7, <4>3 DEF OnceInv, Once
    <3> QED BY <3>1, <3>2
  <2>8. CASE overtaken
    BY <2>4, <2>8 DEF OnceInv
  <2>9. CASE ~overtaken
    <3>1. \A v \in Writes : Offers(c, v)' => v \in asked' /\ (Pends(v) \/ v \notin asked)
      BY <2>1, <2>3, <2>7, <2>9 DEF Offers
    <3>2. asked \subseteq asked'
      BY <2>4
    <3> QED BY <2>3, <2>4, <2>5, <2>6, <3>1, <3>2, NoneTaken
  <2> QED BY <2>8, <2>9
<1>4. ASSUME NEW c \in Calls, Propose(c) PROVE OnceInv'
  <2>1. /\ call'[c].step = "proposing" /\ call'[c].kind = call[c].kind /\ call'[c].items = call[c].items
        /\ call[c].step = "gated" /\ \A d \in Calls \ {c} : call'[d] = call[d]
    <3>1. call[c] \in Call(Items)
      BY <1>1
    <3>2. call' = [call EXCEPT ![c] = [call[c] EXCEPT !.step = "proposing", !.seen = Open]]
      BY <1>4 DEF Propose, Goes
    <3> QED BY <1>1, <1>4, <3>1, <3>2 DEF Call, Propose
  <2>2. UNCHANGED <<rows, asked, written, overtaken>>
    BY <1>4 DEF Propose
  <2>3. \A w \in Writes : (Waits(w)' => Pends(w)) /\ ~Holds(c, w)' /\ (Offers(c, w)' => Pends(w))
    BY <2>1, <2>2 DEF Waits, Pends, Holds, Offers, Is
  <2>4. CASE overtaken
    BY <2>2, <2>4 DEF OnceInv
  <2>5. CASE ~overtaken
    <3>1. \A w \in Writes : Offers(c, w)' => w \in asked'
      BY <2>2, <2>3, <2>5 DEF OnceInv, Once
    <3>2. \A w \in Writes : Holds(c, w)' => Holds(c, w)
      BY <2>3
    <3>3. \A w \in Writes : Waits(w)' => Pends(w)
      BY <2>3
    <3>4. \A w \in Writes : Offers(c, w)' => w \in asked' /\ (Pends(w) \/ w \notin asked)
      BY <2>3, <3>1
    <3>5. asked \subseteq asked' /\ overtaken' = overtaken /\ written' = written
      BY <2>2
    <3> QED BY <2>1, <3>2, <3>3, <3>4, <3>5, NoneTaken
  <2> QED BY <2>4, <2>5
<1>5. ASSUME NEW c \in Calls, Insert(c) PROVE OnceInv'
  <2>1. /\ rows' \in Seq(Row(Items)) /\ Len(rows') = Len(rows) + 1
        /\ rows'[Len(rows) + 1] = [kind |-> call[c].kind, items |-> call[c].items, status |-> "pending"]
        /\ \A r \in DOMAIN rows :
              /\ rows'[r].kind = rows[r].kind /\ rows'[r].items = rows[r].items
              /\ rows'[r].status = IF r = call[c].seen /\ Is(r, "pending") THEN "superseded" ELSE rows[r].status
    BY <1>1, <1>5, Inserted
  <2>2. DOMAIN rows' = DOMAIN rows \cup {Len(rows) + 1}
    BY <1>1, <2>1
  <2>3. call[c].step = "proposing" /\ Ends(c) /\ UNCHANGED <<asked, written, overtaken>>
    BY <1>5 DEF Insert
  <2>4. call'[c] = Nothing /\ \A d \in Calls \ {c} : call'[d] = call[d]
    BY <1>1, <2>3 DEF Ends, Goes
  <2>5. \A w \in Writes : ~Holds(c, w)' /\ ~Offers(c, w)'
    BY <2>4 DEF Holds, Offers, Nothing
  <2>6. ASSUME NEW w \in Writes, Waits(w)' PROVE Pends(w)
    <3>1. PICK r \in DOMAIN rows' : rows'[r].status = "pending" /\ rows'[r].kind = "write" /\ w \in rows'[r].items
      BY <2>6 DEF Waits, Is
    <3>2. CASE r \in DOMAIN rows
      BY <2>1, <3>1, <3>2 DEF Pends, Waits, Is
    <3>3. CASE r = Len(rows) + 1
      BY <2>1, <2>3, <3>1, <3>3 DEF Pends, Offers
    <3> QED BY <2>2, <3>2, <3>3
  <2>7. asked \subseteq asked' /\ overtaken' = overtaken /\ written' = written
    BY <2>3
  <2> QED BY <2>4, <2>5, <2>6, <2>7, NoneTaken
<1>6. ASSUME NEW c \in Calls, Claim(c) PROVE OnceInv'
  <2> DEFINE r == call[c].read
  <2>1. /\ r \in DOMAIN rows /\ Is(r, "pending") /\ rows[r] \in Row(Items) /\ rows[r].kind = call[c].kind
        /\ call[c].step = "answering"
    BY <1>1, <1>6 DEF Claim, Claimable, IInv, CallsFit, Answered
  <2>2. /\ call'[c].step = "doing" /\ call'[c].kind = call[c].kind /\ call'[c].items = rows[r].items
        /\ \A d \in Calls \ {c} : call'[d] = call[d]
    <3>1. call[c] \in Call(Items)
      BY <1>1
    <3>2. call' = [call EXCEPT ![c] = [call[c] EXCEPT !.step = "doing", !.items = rows[r].items]]
      BY <1>6 DEF Claim, Goes
    <3> QED BY <1>1, <2>1, <3>1, <3>2 DEF Call, Row
  <2>3. UNCHANGED <<asked, written>> /\ rows' = [rows EXCEPT ![r].status = "confirmed"]
    BY <1>6 DEF Claim
  <2>4. overtaken' = (overtaken \/ \E d \in Calls \ {c} :
             call[d].step \in {"gated", "proposing"} /\ call[d].items \cap rows[r].items # {})
    BY <1>6 DEF Claim
  <2> HIDE DEF r
  <2>5. \A q \in DOMAIN rows' : ~Is(q, "pending")'
    BY <1>1, <2>1, <2>3 DEF LastWaits, Pending, Is, Row
  <2> SUFFICES ASSUME ~overtaken', NEW w \in Writes PROVE Once(w)'
    BY DEF OnceInv
  <2>6. /\ ~overtaken
        /\ ~\E d \in Calls \ {c} : call[d].step \in {"gated", "proposing"} /\ call[d].items \cap rows[r].items # {}
    BY <2>4, Zenon
  <2>7. Once(w)
    BY <2>6 DEF OnceInv
  <2>8. ~Waits(w)' /\ ~Offers(c, w)' /\ \A d \in Calls \ {c} : Offers(d, w)' = Offers(d, w) /\ Holds(d, w)' = Holds(d, w)
    BY <2>2, <2>5 DEF Waits, Offers, Holds
  <2>9. Pends(w)' => Pends(w)
    BY <2>8 DEF Pends
  <2>10. CASE call[c].kind = "write" /\ w \in rows[r].items
    <3>1. Pends(w)
      BY <2>1, <2>10 DEF Pends, Waits
    <3>2. ~Taken(w) /\ w \in asked
      BY <2>7, <3>1 DEF Once
    <3>3. written[w] = 0 /\ \A d \in Calls : ~Holds(d, w)
      <4>1. written[w] \in Nat /\ written[w] <= 1 /\ written[w] # 1
        BY <1>1, <2>7, <3>2 DEF Once, Taken
      <4> QED BY <3>2, <4>1 DEF Taken
    <3>4. \A d \in Calls \ {c} : ~Offers(d, w)
      BY <2>6, <2>10 DEF Offers
    <3>5. ~Pends(w)'
      BY <2>8, <3>4 DEF Pends
    <3> QED BY <2>3, <2>8, <3>2, <3>3, <3>5 DEF Once
  <2>11. CASE ~(call[c].kind = "write" /\ w \in rows[r].items)
    <3>1. ~Holds(c, w)'
      BY <2>2, <2>11 DEF Holds
    <3>2. Taken(w)' => Taken(w)
      BY <2>3, <2>8, <3>1 DEF Taken
    <3> QED BY <2>3, <2>7, <2>8, <2>9, <3>1, <3>2 DEF Once
  <2> QED BY <2>10, <2>11
<1>7. ASSUME NEW c \in Calls, NEW w \in Writes, NEW fails \in BOOLEAN, Write(c, w, fails) PROVE OnceInv'
  <2>1. /\ call'[c].step = "doing" /\ call'[c].kind = "write" /\ call'[c].items = call[c].items \ {w}
        /\ call[c].step = "doing" /\ call[c].kind = "write" /\ w \in call[c].items
        /\ \A d \in Calls \ {c} : call'[d] = call[d]
    <3>1. call[c] \in Call(Items) /\ call' = [call EXCEPT ![c] = [call[c] EXCEPT !.items = @ \ {w}]]
      BY <1>1, <1>7 DEF Write, Goes
    <3> QED BY <1>1, <1>7, <3>1 DEF Write, Call
  <2>2. /\ UNCHANGED <<rows, asked, overtaken>>
        /\ written' = IF fails THEN written ELSE [written EXCEPT ![w] = @ + 1]
    BY <1>7 DEF Write
  <2> SUFFICES ASSUME ~overtaken, NEW v \in Writes PROVE Once(v)'
    BY <2>2 DEF OnceInv
  <2>3. Once(v)
    BY DEF OnceInv
  <2>4. /\ \A d \in Calls : Holds(d, v)' => Holds(d, v)
        /\ v = w => ~Holds(c, v)'
        /\ \A d \in Calls : Offers(d, v)' => Offers(d, v)
    BY <2>1 DEF Holds, Offers
  <2>5. Pends(v)' => Pends(v)
    BY <2>2, <2>4 DEF Pends, Waits, Is
  <2>6. CASE v = w /\ ~fails
    <3>1. Holds(c, w)
      BY <2>1 DEF Holds
    <3>2. written[w] = 0 /\ (\A d \in Calls : Holds(d, w) => d = c) /\ Taken(w)
      BY <2>3, <2>6, <3>1 DEF Once, Taken
    <3>3. written'[w] = 1 /\ \A d \in Calls : ~Holds(d, w)'
      BY <1>1, <2>2, <2>4, <2>6, <3>2
    <3>4. w \in asked /\ ~Pends(w)'
      BY <2>3, <2>5, <2>6, <3>2 DEF Once
    <3> QED BY <2>2, <2>6, <3>3, <3>4 DEF Once
  <2>7. CASE v # w \/ fails
    <3>1. written'[v] = written[v]
      BY <1>1, <2>2, <2>7
    <3>2. Taken(v)' => Taken(v)
      BY <2>4, <3>1 DEF Taken
    <3> QED BY <2>2, <2>3, <2>4, <2>5, <3>1, <3>2 DEF Once
  <2> QED BY <2>6, <2>7
<1>8. ASSUME NEW c \in Calls, Ends(c) PROVE call'[c].step = "idle" /\ \A d \in Calls \ {c} : call'[d] = call[d]
  BY <1>1, <1>8 DEF Ends, Goes, Nothing
<1>9. ASSUME NEW c \in Calls, Ends(c), UNCHANGED <<rows, asked, written, overtaken>> PROVE OnceInv'
  BY <1>2, <1>8, <1>9
<1>10. ASSUME NEW c \in Calls, NEW kind \in Kinds, Answer(c, kind) PROVE OnceInv'
  <2>1. call'[c] = [Nothing EXCEPT !.step = "answering", !.kind = kind, !.read = Open]
    BY <1>1, <1>10 DEF Answer, Goes
  <2>2. call'[c].step = "answering" /\ \A d \in Calls \ {c} : call'[d] = call[d]
    BY <1>1, <1>10, <2>1 DEF Nothing, Answer, Goes
  <2> QED BY <1>2, <1>10, <2>2 DEF Answer
<1>11. ASSUME NEW c \in Calls, Cancel(c) PROVE OnceInv'
  <2>1. \A r \in DOMAIN rows : rows[r] \in Row(Items)
    BY <1>1
  <2>2. \A r \in DOMAIN rows' : ~Is(r, "pending")'
    BY <1>11, <2>1 DEF Cancel, Pending, Is, Row
  <2>3. Ends(c) /\ UNCHANGED <<asked, written, overtaken>>
    BY <1>11 DEF Cancel
  <2> QED BY <1>2, <1>8, <2>2, <2>3
<1>12. CASE UNCHANGED <<asked, written, overtaken>> /\ DOMAIN rows' = DOMAIN rows
            /\ (\A r \in DOMAIN rows : Is(r, "pending")' => rows'[r] = rows[r])
            /\ \A d \in Calls : call'[d] = call[d] \/ call'[d].kind = "forget"
  <2> SUFFICES ASSUME ~overtaken, NEW w \in Writes PROVE Once(w)'
    BY <1>12 DEF OnceInv
  <2>1. Once(w)
    BY DEF OnceInv
  <2>2. \A d \in Calls : (Holds(d, w)' => Holds(d, w)) /\ (Offers(d, w)' => Offers(d, w))
    BY <1>12 DEF Holds, Offers
  <2>3. Waits(w)' => Waits(w)
    BY <1>12 DEF Waits, Is
  <2>4. (Pends(w)' => Pends(w)) /\ (Taken(w)' => Taken(w))
    BY <1>12, <2>2, <2>3 DEF Pends, Taken
  <2> QED BY <1>12, <2>1, <2>2, <2>4 DEF Once
<1>13. ASSUME NEW r \in DOMAIN rows, Expire(r) PROVE OnceInv'
  <2>1. rows[r] \in Row(Items) /\ rows' = [rows EXCEPT ![r].status = "expired"]
    BY <1>1, <1>13 DEF Expire
  <2>2. DOMAIN rows' = DOMAIN rows /\ \A q \in DOMAIN rows : Is(q, "pending")' => rows'[q] = rows[q]
    BY <1>1, <2>1 DEF Is, Row
  <2> QED BY <1>12, <1>13, <2>2 DEF Expire
<1>14. CASE PendingNext
  <2>1. ASSUME NEW c \in Calls, Asks(c) PROVE OnceInv'
    BY <1>3, <1>4, <1>5, <1>9, <2>1 DEF Asks, Refused
  <2>2. ASSUME NEW c \in Calls, Answers(c) PROVE OnceInv'
    BY <1>6, <1>9, <1>10, <1>11, <2>2 DEF Answers, ClaimedAlready
  <2>3. ASSUME NEW c \in Calls, Does(c) \/ Die(c) PROVE OnceInv'
    BY <1>7, <1>9, <2>3 DEF Does, Finish, Die
  <2> QED BY <1>13, <1>14, <2>1, <2>2, <2>3 DEF PendingNext
<1>15. CASE ~PendingNext
  <2>1. Kept /\ \A d \in Calls : call'[d] = call[d] \/ call'[d].kind = "forget"
    BY <1>15, Aside DEF Next
  <2>2. UNCHANGED <<rows, asked, written, overtaken>>
    BY <2>1 DEF Kept
  <2> QED BY <1>12, <2>1, <2>2
<1> QED BY <1>14, <1>15

\* A write the consultant confirmed is done once, also when it went through several
\* proposals and one answer came twice, unless a proposal was taken while a call
\* was adding to it.
THEOREM WrittenAtMostOnce == Spec => []WrittenOnce
<1>1. Init => OnceInv
  <2> SUFFICES ASSUME Init, NEW w \in Writes PROVE Once(w)
    BY DEF OnceInv
  <2>1. rows = <<>> /\ written[w] = 0 /\ \A c \in Calls : call[c].step = "idle"
    BY DEF Init, InitPending, Nothing
  <2> QED BY <2>1 DEF Once, Pends, Waits, Taken, Holds, Offers
<1>2. OnceInv => WrittenOnce
  BY DEF OnceInv, Once, WrittenOnce
<1> QED BY <1>1, <1>2, OnceSteps, Always, PTL DEF Spec
-----------------------------------------------------------------------------
(* What a confirmation allows                                              *)

Shows(q) == [r \in DOMAIN q |-> Shown(q[r])]
Due      == UNION {Mine(c) : c \in Calls}

\* A call that does something does what was confirmed, and no other call has the
\* same proposal: this is why each item of it is tried once.
GrantInv ==
    /\ \A c \in Calls : Busy(c) => Is(call[c].read, "confirmed")
    /\ \A c, d \in Calls : c # d /\ Busy(c) /\ Busy(d) => call[c].read # call[d].read

LEMMA ShowsFit ==
    ASSUME NEW q \in Seq(Row(Items))
    PROVE  /\ Shows(q) \in Seq(Thread!Proposal) /\ Len(Shows(q)) = Len(q)
           /\ DOMAIN Shows(q) = 1 .. Len(q) /\ \A r \in 1 .. Len(q) : Shows(q)[r] = Shown(q[r])
<1>1. \A r \in 1 .. Len(q) : q[r] \in Row(Items)
  OBVIOUS
<1>2. \A row \in Row(Items) : Shown(row) \in Thread!Proposal
  BY DEF Shown, Row, Kinds, Thread!Proposal, Items
<1>3. Shows(q) = [r \in 1 .. Len(q) |-> Shown(q[r])]
  BY DEF Shows
<1>4. Shows(q) \in [1 .. Len(q) -> Thread!Proposal]
  BY <1>1, <1>2, <1>3
<1> QED BY <1>3, <1>4, SameLength

\* A row that goes from one status to another.
LEMMA OneShown ==
    ASSUME NEW q \in Seq(Row(Items)), NEW r \in 1 .. Len(q),
           NEW t \in Seq(Row(Items)), Len(t) = Len(q),
           \A s \in 1 .. Len(q) \ {r} : t[s] = q[s],
           t[r].kind = q[r].kind, t[r].items = q[r].items,
           NEW state, Shown(t[r]).state = state
    PROVE  Shows(t) = [Shows(q) EXCEPT ![r].state = state]
<1>1. /\ Shows(q) = [s \in 1 .. Len(q) |-> Shown(q[s])]
      /\ Shows(t) = [s \in 1 .. Len(q) |-> Shown(t[s])]
  BY DEF Shows
<1>2. Shown(t[r]) = [Shown(q[r]) EXCEPT !.state = state]
  BY DEF Shown
<1> HIDE DEF Shows
<1> DEFINE e == [Shows(q) EXCEPT ![r].state = state]
<1>3. e = [s \in 1 .. Len(q) |-> IF s = r THEN [Shows(q)[r] EXCEPT !.state = state] ELSE Shows(q)[s]]
  BY <1>1
<1>4. \A s \in 1 .. Len(q) : (IF s = r THEN [Shows(q)[r] EXCEPT !.state = state] ELSE Shows(q)[s]) = Shown(t[s])
  BY <1>1, <1>2
<1> QED BY <1>1, <1>3, <1>4

\* What is due changes by what the call that goes on has.
LEMMA DueStep ==
    ASSUME NEW c \in Calls, \A d \in Calls \ {c} : call'[d] = call[d]
    PROVE  /\ Due  = Mine(c) \cup UNION {Mine(d) : d \in Calls \ {c}}
           /\ Due' = Mine(c)' \cup UNION {Mine(d) : d \in Calls \ {c}}
<1>1. \A d \in Calls \ {c} : Mine(d)' = Mine(d)
  BY DEF Mine, Busy
<1> DEFINE M(d) == Mine(d)
<1>2. Due = UNION {M(d) : d \in Calls} /\ \A d \in Calls \ {c} : Mine(d)' = M(d)
  BY <1>1 DEF Due
<1>3. Due' = UNION {Mine(d)' : d \in Calls}
  BY DEF Due
<1> HIDE DEF M
<1> QED BY <1>1, <1>2, <1>3 DEF M

LEMMA DueKept ==
    ASSUME NEW c \in Calls, \A d \in Calls \ {c} : call'[d] = call[d], Mine(c)' = Mine(c)
    PROVE  Due' = Due
BY DueStep

\* What a call has is due, and is all that is due of its proposal.
LEMMA DueOfCall ==
    ASSUME GrantInv, NEW c \in Calls, Busy(c)
    PROVE  /\ Mine(c) = {x \in Due : x[1] = call[c].read}
           /\ \A i \in call[c].items : <<call[c].read, i>> \in Mine(c)
<1>1. \A d \in Calls : \A x \in Mine(d) : x[1] = call[d].read /\ Busy(d)
  BY DEF Mine
<1>2. \A x \in Due : x[1] = call[c].read => x \in Mine(c)
  <2> SUFFICES ASSUME NEW x \in Due, x[1] = call[c].read PROVE x \in Mine(c)
    OBVIOUS
  <2>1. PICK d \in Calls : x \in Mine(d)
    BY DEF Due
  <2> QED BY <1>1, <2>1 DEF GrantInv
<1>3. Mine(c) \subseteq Due
  BY DEF Due
<1> QED BY <1>1, <1>2, <1>3 DEF Mine

LEMMA DueLost ==
    ASSUME GrantInv, NEW c \in Calls, Busy(c), \A d \in Calls \ {c} : call'[d] = call[d],
           Mine(c)' \subseteq Mine(c)
    PROVE  Due' = Due \ (Mine(c) \ Mine(c)')
<1>1. \A d \in Calls : \A x \in Mine(d) : x[1] = call[d].read /\ Busy(d)
  BY DEF Mine
<1>2. \A d \in Calls \ {c} : Mine(d) \cap Mine(c) = {}
  BY <1>1 DEF GrantInv
<1> DEFINE rest == UNION {Mine(d) : d \in Calls \ {c}}
<1>3. rest \cap Mine(c) = {}
  BY <1>2
<1> HIDE DEF rest
<1>4. Due = Mine(c) \cup rest /\ Due' = Mine(c)' \cup rest
  BY DueStep DEF rest
<1> QED BY <1>3, <1>4

LEMMA InitGrant == Init => GrantInv /\ Thread!Init
<1> SUFFICES ASSUME Init PROVE GrantInv /\ Thread!Init
  OBVIOUS
<1>1. \A c \in Calls : ~Busy(c) /\ Mine(c) = {}
  BY DEF Init, InitPending, Busy, Mine, Nothing
<1>2. rows = <<>> /\ written = [w \in Writes |-> 0] /\ tombs = {} /\ deleted = {}
  BY DEF Init, InitPending
<1>3. Due = {}
  BY <1>1 DEF Due
<1>4. Shows(rows) = <<>>
  <2>1. DOMAIN rows = {} /\ rows = <<>>
    BY <1>2
  <2> QED BY <2>1 DEF Shows
<1> QED BY <1>1, <1>2, <1>3, <1>4 DEF GrantInv, Thread!Init, Shows, Due

\* A call comes to do something only by a claim.
LEMMA BusyStep ==
    ASSUME IInv, [Next]_vars, NEW d \in Calls, Busy(d)'
    PROVE  (Busy(d) /\ call'[d].read = call[d].read) \/ Claim(d)
<1> DEFINE Good == (Busy(d) /\ call'[d].read = call[d].read) \/ Claim(d)
<1>0. call \in [Calls -> Call(Items)] /\ \A c \in Calls : call[c] \in Call(Items)
  BY DEF IInv, CallOK
<1>1. CASE call'[d] = call[d]
  BY <1>1 DEF Busy
<1>2. ASSUME NEW c \in Calls, NEW x, Goes(c, x),
             c = d => (x.step \notin {"doing", "buried", "rejected"}) \/ (Busy(c) /\ x.read = call[c].read)
      PROVE  Good
  <2>1. CASE c = d
    BY <1>0, <1>2, <2>1 DEF Goes, Busy
  <2>2. CASE c # d
    <3>1. call'[d] = call[d]
      BY <1>0, <1>2, <2>2 DEF Goes
    <3> QED BY <1>1, <3>1
  <2> QED BY <2>1, <2>2
<1>3. ASSUME NEW c \in Calls, Ends(c) PROVE Good
  BY <1>2, <1>3 DEF Ends, Nothing
<1>4. ASSUME NEW c \in Calls, NEW w \in Writes, Ask(c, w) PROVE Good
  <2> DEFINE x == [Nothing EXCEPT !.step = "gated", !.items = Sum(Open, w)]
  <2>1. x.step = "gated" /\ Goes(c, x)
    BY <1>4 DEF Ask, Nothing
  <2> HIDE DEF x
  <2> QED BY <1>2, <2>1
<1>5. ASSUME NEW c \in Calls, Propose(c) PROVE Good
  <2> DEFINE x == [call[c] EXCEPT !.step = "proposing", !.seen = Open]
  <2>1. x.step = "proposing" /\ Goes(c, x)
    BY <1>0, <1>5 DEF Propose, Call
  <2> HIDE DEF x
  <2> QED BY <1>2, <2>1
<1>6. ASSUME NEW c \in Calls, NEW kind \in Kinds, Answer(c, kind) PROVE Good
  <2> DEFINE x == [Nothing EXCEPT !.step = "answering", !.kind = kind, !.read = Open]
  <2>1. x.step = "answering" /\ Goes(c, x)
    BY <1>6 DEF Answer, Nothing
  <2> HIDE DEF x
  <2> QED BY <1>2, <2>1
<1>7. ASSUME NEW c \in Calls, Claim(c) PROVE Good
  <2>1. CASE c # d
    <3>1. call'[d] = call[d]
      BY <1>0, <1>7, <2>1 DEF Claim, Goes
    <3> QED BY <1>1, <3>1
  <2> QED BY <1>7, <2>1
<1>8. ASSUME NEW c \in Calls, NEW w \in Writes, NEW fails \in BOOLEAN, Write(c, w, fails) PROVE Good
  <2> DEFINE x == [call[c] EXCEPT !.items = @ \ {w}]
  <2>1. x.read = call[c].read /\ Goes(c, x) /\ Busy(c)
    BY <1>0, <1>8 DEF Write, Call, Busy
  <2> HIDE DEF x
  <2> QED BY <1>2, <2>1
<1>9. ASSUME NEW c \in Calls, Forget(c) PROVE Good
  <2>1. ASSUME NEW step, Then(c, step), Busy(c) PROVE Good
    <3> DEFINE x == [call[c] EXCEPT !.step = step]
    <3>1. x.read = call[c].read /\ Goes(c, x)
      BY <1>0, <2>1 DEF Then, Call
    <3> HIDE DEF x
    <3> QED BY <1>2, <2>1, <3>1
  <2>2. ASSUME NEW t \in Targets, NEW fails \in BOOLEAN, Delete(c, t, fails) PROVE Good
    <3> DEFINE x == [call[c] EXCEPT !.items = @ \ {t}]
    <3>1. x.read = call[c].read /\ Goes(c, x) /\ Busy(c)
      BY <1>0, <2>2 DEF Delete, Call, Forgets, Busy
    <3> HIDE DEF x
    <3> QED BY <1>2, <3>1
  <2> QED BY <1>9, <2>1, <2>2 DEF Forget, Bury, Reject, Forgets, Busy
<1>10. ASSUME NEW c \in Calls, NEW targets \in SUBSET (Present \X BOOLEAN), Resolve(c, targets) PROVE Good
  <2> DEFINE x == [Nothing EXCEPT !.step = "gated", !.kind = "forget", !.items = targets]
  <2>1. x.step = "gated" /\ Goes(c, x)
    BY <1>10 DEF Resolve, Nothing
  <2> HIDE DEF x
  <2> QED BY <1>2, <2>1
<1>11. ASSUME NEW r \in DOMAIN rows, Expire(r) PROVE Good
  BY <1>1, <1>11 DEF Expire
<1>12. ASSUME NEW f \in Facts, Remember(f) PROVE Good
  BY <1>1, <1>12, StepRemember DEF Unasked
<1>13. CASE UNCHANGED vars
  BY <1>1, <1>13 DEF vars, pending
<1>14. CASE PendingNext
  <2>1. ASSUME NEW c \in Calls, Asks(c) PROVE Good
    BY <1>3, <1>4, <1>5, <2>1 DEF Asks, Insert, Refused
  <2>2. ASSUME NEW c \in Calls, Answers(c) PROVE Good
    BY <1>3, <1>6, <1>7, <2>2 DEF Answers, ClaimedAlready, Cancel
  <2>3. ASSUME NEW c \in Calls, Does(c) \/ Die(c) PROVE Good
    BY <1>3, <1>8, <2>3 DEF Does, Finish, Die
  <2> QED BY <1>11, <1>14, <2>1, <2>2, <2>3 DEF PendingNext
<1> QED BY <1>9, <1>10, <1>12, <1>13, <1>14 DEF Next

\* What a claim does.
LEMMA Claiming ==
    ASSUME IInv, NEW c \in Calls, Claim(c)
    PROVE  /\ call[c].read \in 1 .. Len(rows) /\ Is(call[c].read, "pending") /\ ~Busy(c)
           /\ rows'[call[c].read] = [rows[call[c].read] EXCEPT !.status = "confirmed"]
           /\ \A r \in 1 .. Len(rows) \ {call[c].read} : rows'[r] = rows[r]
           /\ DOMAIN rows' = 1 .. Len(rows)
           /\ \A d \in Calls \ {c} : call'[d] = call[d]
           /\ call'[c].step = "doing" /\ call'[c].read = call[c].read
           /\ call'[c].items = rows[call[c].read].items
<1>1. call[c].read \in 1 .. Len(rows) /\ call[c] \in Call(Items) /\ call \in [Calls -> Call(Items)]
      /\ DOMAIN rows = 1 .. Len(rows)
  BY DEF Claim, IInv, CallsFit, Answered, RowsOK, CallOK
<1> DEFINE r == call[c].read
<1>2. rows' = [rows EXCEPT ![r].status = "confirmed"]
  BY DEF Claim
<1>3. /\ rows'[r] = [rows[r] EXCEPT !.status = "confirmed"] /\ DOMAIN rows' = 1 .. Len(rows)
      /\ \A q \in 1 .. Len(rows) \ {r} : rows'[q] = rows[q]
  BY <1>1, <1>2
<1>4. /\ \A d \in Calls \ {c} : call'[d] = call[d]
      /\ call'[c] = [call[c] EXCEPT !.step = "doing", !.items = rows[r].items]
  BY <1>1 DEF Claim, Goes
<1>5. call'[c].step = "doing" /\ call'[c].read = r /\ call'[c].items = rows[r].items
  BY <1>1, <1>4 DEF Call
<1> QED BY <1>1, <1>3, <1>4, <1>5 DEF Claim, Claimable, Busy

LEMMA ConfirmedStays ==
    ASSUME IInv, [Next]_vars, NEW r \in DOMAIN rows, Is(r, "confirmed")
    PROVE  Is(r, "confirmed")'
<1>0. rows \in Seq(Row(Items)) /\ call \in [Calls -> Call(Items)] /\ DOMAIN rows = 1 .. Len(rows)
  BY DEF IInv, RowsOK, CallOK
<1>1. CASE UNCHANGED rows
  BY <1>1 DEF Is
<1>2. ASSUME NEW c \in Calls, Insert(c) PROVE Is(r, "confirmed")'
  BY <1>0, <1>2, Inserted DEF Is
<1>3. ASSUME NEW c \in Calls, Claim(c) PROVE Is(r, "confirmed")'
  BY <1>0, <1>3, Claiming DEF Is
<1>4. ASSUME NEW c \in Calls, Cancel(c) PROVE Is(r, "confirmed")'
  BY <1>4 DEF Cancel, Pending, Is
<1>5. ASSUME NEW q \in DOMAIN rows, Expire(q) PROVE Is(r, "confirmed")'
  BY <1>0, <1>5 DEF Expire, Pending, Is
<1>6. CASE PendingNext
  <2>1. ASSUME NEW c \in Calls, Asks(c) PROVE Is(r, "confirmed")'
    BY <1>1, <1>2, <2>1 DEF Asks, Ask, Propose, Refused
  <2>2. ASSUME NEW c \in Calls, Answers(c) PROVE Is(r, "confirmed")'
    BY <1>1, <1>3, <1>4, <2>2 DEF Answers, Answer, ClaimedAlready
  <2>3. ASSUME NEW c \in Calls, Does(c) \/ Die(c) PROVE Is(r, "confirmed")'
    BY <1>1, <2>3 DEF Does, Write, Finish, Die
  <2> QED BY <1>5, <1>6, <2>1, <2>2, <2>3 DEF PendingNext
<1>7. CASE ~PendingNext
  BY <1>1, <1>7, Aside DEF Next, Kept
<1> QED BY <1>6, <1>7

LEMMA GrantSteps == IInv /\ GrantInv /\ [Next]_vars => GrantInv'
<1> SUFFICES ASSUME IInv, GrantInv, [Next]_vars PROVE GrantInv'
  OBVIOUS
<1>1. \A c \in Calls : Busy(c) => call[c].read \in DOMAIN rows
  BY DEF IInv, CallsFit, Busy, Answered
<1>2. ASSUME NEW c \in Calls, Busy(c)' PROVE Is(call[c].read, "confirmed")' /\ call'[c].read = call[c].read
  <2>1. CASE Busy(c) /\ call'[c].read = call[c].read
    <3>1. call[c].read \in DOMAIN rows /\ Is(call[c].read, "confirmed")
      BY <1>1, <2>1 DEF GrantInv
    <3>2. rows'[call[c].read].status = "confirmed"
      BY <3>1, ConfirmedStays DEF Is
    <3> QED BY <2>1, <3>2 DEF Is
  <2>2. CASE Claim(c)
    <3>1. /\ call[c].read \in 1 .. Len(rows) /\ call'[c].read = call[c].read
          /\ rows'[call[c].read] = [rows[call[c].read] EXCEPT !.status = "confirmed"]
      BY <2>2, Claiming
    <3>2. rows[call[c].read] \in Row(Items)
      BY <3>1 DEF IInv, RowsOK
    <3>3. rows'[call[c].read].status = "confirmed"
      BY <3>1, <3>2 DEF Row
    <3> QED BY <3>1, <3>3 DEF Is
  <2> QED BY <1>2, <2>1, <2>2, BusyStep
<1>3. ASSUME NEW c \in Calls, NEW d \in Calls, c # d, Busy(c)', Busy(d)', Claim(c)
      PROVE  call'[c].read # call'[d].read
  <2>1. Busy(d) /\ call'[d] = call[d] /\ Is(call[d].read, "confirmed")
    BY <1>3, Claiming DEF Busy, GrantInv
  <2> QED BY <1>3, <2>1, Claiming DEF Is
<1>4. ASSUME NEW c \in Calls, NEW d \in Calls, c # d, Busy(c)', Busy(d)'
      PROVE  call'[c].read # call'[d].read
  <2>1. CASE Claim(c) \/ Claim(d)
    BY <1>3, <1>4, <2>1
  <2>2. CASE ~Claim(c) /\ ~Claim(d)
    BY <1>4, <2>2, BusyStep DEF GrantInv
  <2> QED BY <2>1, <2>2
<1>5. \A c \in Calls : Busy(c)' => Is(call[c].read, "confirmed")'
  BY <1>2
<1> QED BY <1>4, <1>5 DEF GrantInv

\* The rows of the thread, and what is due, stay what they are.
LEMMA Unseen ==
    ASSUME rows' = rows, Due' = Due, UNCHANGED <<written, tombs, deleted>>
    PROVE  [Thread!Next]_Thread!consent
<1>1. UNCHANGED Thread!consent
  BY DEF Thread!consent, Due
<1> QED BY <1>1

LEMMA Offered ==
    ASSUME IInv, IInv', NEW c \in Calls, Insert(c), UNCHANGED <<memory, graves>>
    PROVE  [Thread!Next]_Thread!consent
<1>1. /\ rows \in Seq(Row(Items)) /\ rows' \in Seq(Row(Items)) /\ call \in [Calls -> Call(Items)]
      /\ Len(rows') = Len(rows) + 1 /\ DOMAIN rows = 1 .. Len(rows)
      /\ rows'[Len(rows) + 1] = [kind |-> call[c].kind, items |-> call[c].items, status |-> "pending"]
      /\ \A r \in DOMAIN rows :
            /\ rows'[r].kind = rows[r].kind /\ rows'[r].items = rows[r].items
            /\ rows'[r].status = IF r = call[c].seen /\ Is(r, "pending") THEN "superseded" ELSE rows[r].status
  BY Inserted DEF IInv, RowsOK, CallOK
<1>2. /\ Shows(rows') \in Seq(Thread!Proposal) /\ Len(Shows(rows')) = Len(rows) + 1
      /\ \A r \in 1 .. Len(rows) + 1 : Shows(rows')[r] = Shown(rows'[r])
      /\ Len(Shows(rows)) = Len(rows) /\ DOMAIN Shows(rows) = 1 .. Len(rows)
      /\ \A r \in 1 .. Len(rows) : Shows(rows)[r] = Shown(rows[r])
  BY <1>1, ShowsFit
<1>3. ASSUME NEW r \in 1 .. Len(rows)
      PROVE  Shows(rows')[r] = IF Shows(rows)[r].state = "open"
                               THEN [Shows(rows)[r] EXCEPT !.state = "closed"] ELSE Shows(rows)[r]
  <2>1. Is(r, "pending") => r = call[c].seen
    BY <1>1 DEF Insert, Collides, Pending
  <2>2. Shown(rows'[r]) = IF Shown(rows[r]).state = "open"
                          THEN [Shown(rows[r]) EXCEPT !.state = "closed"] ELSE Shown(rows[r])
    BY <1>1, <2>1 DEF Shown, Is
  <2>3. r \in 1 .. Len(rows) + 1
    BY <1>1
  <2> QED BY <1>2, <2>2, <2>3
<1>4. Shows(rows')[Len(rows) + 1].state = "open"
  <2>1. Len(rows) + 1 \in 1 .. Len(rows) + 1
    BY <1>1
  <2> QED BY <1>1, <1>2, <2>1 DEF Shown
<1>5. Due' = Due
  <2>1. call'[c] = Nothing /\ \A d \in Calls \ {c} : call'[d] = call[d]
    BY <1>1, Going, Idles DEF Insert, Ends
  <2>2. Mine(c) = {} /\ Mine(c)' = {}
    BY <2>1 DEF Mine, Busy, Nothing, Insert
  <2> QED BY <2>1, <2>2, DueKept
<1>6. UNCHANGED <<written, tombs, deleted>>
  BY DEF Insert, graves
<1>7. Thread!Offer
  BY <1>2, <1>3, <1>4, <1>5, <1>6 DEF Thread!Offer, Thread!Closed, Shows, Due
<1> QED BY <1>7 DEF Thread!Next

\* One row that waits is closed.
LEMMA ClosedOne ==
    ASSUME IInv, IInv', NEW r \in Pending, Len(rows') = Len(rows),
           \A q \in 1 .. Len(rows) \ {r} : rows'[q] = rows[q],
           rows'[r].kind = rows[r].kind, rows'[r].items = rows[r].items,
           rows'[r].status \in {"cancelled", "expired"},
           Due' = Due, UNCHANGED <<written, tombs, deleted>>
    PROVE  [Thread!Next]_Thread!consent
<1>1. rows \in Seq(Row(Items)) /\ rows' \in Seq(Row(Items)) /\ r \in 1 .. Len(rows)
  BY DEF IInv, RowsOK, Pending
<1>2. Shown(rows'[r]).state = "closed" /\ Shown(rows[r]).state = "open"
  BY DEF Shown, Pending, Is
<1>3. Shows(rows') = [Shows(rows) EXCEPT ![r].state = "closed"]
  BY <1>1, <1>2, OneShown
<1>4. r \in DOMAIN Shows(rows) /\ Shows(rows)[r].state = "open"
  BY <1>1, <1>2, ShowsFit
<1>5. Thread!Close(r)
  BY <1>3, <1>4 DEF Thread!Close, Shows, Due
<1> QED BY <1>4, <1>5 DEF Thread!Next, Shows

LEMMA Granted ==
    ASSUME IInv, IInv', NEW c \in Calls, Claim(c), UNCHANGED <<memory, graves>>
    PROVE  [Thread!Next]_Thread!consent
<1> DEFINE r == call[c].read
<1>1. /\ r \in 1 .. Len(rows) /\ Is(r, "pending") /\ ~Busy(c)
      /\ rows'[r] = [rows[r] EXCEPT !.status = "confirmed"]
      /\ \A q \in 1 .. Len(rows) \ {r} : rows'[q] = rows[q]
      /\ DOMAIN rows' = 1 .. Len(rows)
      /\ \A d \in Calls \ {c} : call'[d] = call[d]
      /\ call'[c].step = "doing" /\ call'[c].read = r /\ call'[c].items = rows[r].items
  BY Claiming
<1>2. /\ rows \in Seq(Row(Items)) /\ rows' \in Seq(Row(Items)) /\ Len(rows') = Len(rows)
      /\ rows[r] \in Row(Items)
  BY <1>1 DEF IInv, RowsOK
<1>3. /\ Mine(c) = {} /\ Mine(c)' = {r} \X rows[r].items
  BY <1>1 DEF Mine, Busy
<1>4. /\ rows'[r].kind = rows[r].kind /\ rows'[r].items = rows[r].items /\ Shown(rows'[r]).state = "granted"
      /\ Shown(rows[r]).state = "open" /\ Shown(rows[r]).items = rows[r].items
  BY <1>1, <1>2 DEF Row, Shown, Is
<1>5. UNCHANGED <<written, tombs, deleted>>
  BY DEF Claim, graves
<1> HIDE DEF r
<1>6. Shows(rows') = [Shows(rows) EXCEPT ![r].state = "granted"]
  <2> DEFINE t == rows'
             q == rows
  <2>1. /\ q \in Seq(Row(Items)) /\ r \in 1 .. Len(q) /\ t \in Seq(Row(Items)) /\ Len(t) = Len(q)
        /\ \A s \in 1 .. Len(q) \ {r} : t[s] = q[s]
        /\ t[r].kind = q[r].kind /\ t[r].items = q[r].items /\ Shown(t[r]).state = "granted"
    BY <1>1, <1>2, <1>4
  <2> HIDE DEF t, q
  <2>2. Shows(t) = [Shows(q) EXCEPT ![r].state = "granted"]
    BY <2>1, OneShown
  <2> QED BY <2>2 DEF t, q
<1>7. r \in DOMAIN Shows(rows) /\ Shows(rows)[r].state = "open" /\ Shows(rows)[r].items = rows[r].items
  BY <1>1, <1>2, <1>4, ShowsFit
<1>8. Due' = Due \cup ({r} \X Shows(rows)[r].items)
  BY <1>1, <1>3, <1>7, DueStep
<1>9. Thread!Grant(r)
  BY <1>5, <1>6, <1>7, <1>8 DEF Thread!Grant, Shows, Due
<1> QED BY <1>7, <1>9 DEF Thread!Next, Shows

\* One item of a call is tried.
LEMMA Tried ==
    ASSUME IInv, GrantInv, NEW c \in Calls, Busy(c), rows' = rows, tombs' = tombs,
           NEW i \in call[c].items, Goes(c, [call[c] EXCEPT !.items = @ \ {i}]),
           \/ /\ i \in Writes /\ call[c].kind = "write"
              /\ written' = [written EXCEPT ![i] = @ + 1] /\ deleted' = deleted
           \/ /\ i \in Targets /\ call[c].kind = "forget" /\ call[c].step = "rejected"
              /\ deleted' = deleted \cup {i[1]} /\ written' = written
           \/ UNCHANGED <<written, deleted>>
    PROVE  [Thread!Next]_Thread!consent
<1> DEFINE r == call[c].read
           x == <<r, i>>
<1>1. call \in [Calls -> Call(Items)] /\ call[c] \in Call(Items) /\ rows \in Seq(Row(Items))
  BY DEF IInv, CallOK, RowsOK
<1>2. /\ call'[c].step = call[c].step /\ call'[c].read = r /\ call'[c].items = call[c].items \ {i}
      /\ \A d \in Calls \ {c} : call'[d] = call[d]
  BY <1>1 DEF Goes, Call
<1>3. Mine(c) = {r} \X call[c].items /\ Mine(c)' = {r} \X (call[c].items \ {i})
  BY <1>2 DEF Mine, Busy
<1>4. x \in Due /\ Due' = Due \ {x}
  <2>1. Mine(c)' \subseteq Mine(c) /\ Mine(c) \ Mine(c)' = {x} /\ x \in Mine(c)
    BY <1>3
  <2> QED BY <1>2, <2>1, DueLost DEF Due
<1>5. r \in 1 .. Len(rows) /\ rows[r].kind = call[c].kind
  BY <1>1 DEF IInv, CallsFit, Answered, Busy
<1>6. Shows(rows)[r].kind = call[c].kind
  <2>1. Shows(rows)[r] = Shown(rows[r])
    BY <1>1, <1>5, ShowsFit
  <2> QED BY <1>5, <2>1 DEF Shown
<1>7. i \in Targets /\ call[c].step = "rejected" => i[1] \in tombs
  BY DEF IInv, CallsFit, IdsOf
<1>8. x[1] = r /\ x[2] = i
  OBVIOUS
<1> HIDE DEF x, r
<1>9. Thread!Do(x)
  BY <1>4, <1>6, <1>7, <1>8 DEF Thread!Do, Shows, Due
<1> QED BY <1>4, <1>9 DEF Thread!Next, Due

LEMMA Dropped ==
    ASSUME IInv, GrantInv, NEW c \in Calls, Ends(c), rows' = rows, UNCHANGED <<written, tombs, deleted>>
    PROVE  [Thread!Next]_Thread!consent
<1> DEFINE r == call[c].read
<1>1. call \in [Calls -> Call(Items)] /\ rows \in Seq(Row(Items))
  BY DEF IInv, CallOK, RowsOK
<1>2. call'[c] = Nothing /\ \A d \in Calls \ {c} : call'[d] = call[d]
  BY <1>1 DEF Ends, Goes
<1>3. Mine(c)' = {}
  BY <1>2 DEF Mine, Busy, Nothing
<1>4. CASE ~Busy(c)
  <2>1. Due' = Due
    BY <1>2, <1>3, <1>4, DueKept DEF Mine
  <2> QED BY <2>1, Unseen
<1>5. CASE Busy(c)
  <2>1. Due' = Due \ {x \in Due : x[1] = r}
    BY <1>2, <1>3, <1>5, DueLost, DueOfCall
  <2>2. r \in DOMAIN Shows(rows)
    BY <1>1, <1>5, ShowsFit DEF IInv, CallsFit, Answered, Busy
  <2> HIDE DEF r
  <2>3. Thread!Drop(r)
    BY <2>1 DEF Thread!Drop, Thread!DueOf, Due
  <2> QED BY <2>2, <2>3 DEF Thread!Next, Shows
<1> QED BY <1>4, <1>5

\* Tombstones are written for what is due.
LEMMA Hidden ==
    ASSUME IInv, GrantInv, NEW c \in Calls, Bury(c), Kept, UNCHANGED <<memory, deleted>>
    PROVE  [Thread!Next]_Thread!consent
<1> DEFINE r == call[c].read
<1>1. call \in [Calls -> Call(Items)] /\ call[c] \in Call(Items) /\ rows \in Seq(Row(Items)) /\ Busy(c)
  BY DEF IInv, CallOK, RowsOK, Bury, Forgets, Busy
<1>2. /\ call'[c].step = "buried" /\ call'[c].read = r /\ call'[c].items = call[c].items
      /\ \A d \in Calls \ {c} : call'[d] = call[d]
  BY <1>1 DEF Bury, Then, Goes, Call
<1>3. Due' = Due
  <2>1. Mine(c)' = Mine(c)
    BY <1>1, <1>2 DEF Mine, Busy
  <2> QED BY <1>2, <2>1, DueKept
<1>4. r \in 1 .. Len(rows) /\ rows[r].kind = "forget"
  BY <1>1 DEF IInv, CallsFit, Answered, Bury, Forgets
<1>5. r \in DOMAIN Shows(rows) /\ Shows(rows)[r].kind = "forget"
  <2>1. r \in DOMAIN Shows(rows) /\ Shows(rows)[r] = Shown(rows[r])
    BY <1>1, <1>4, ShowsFit
  <2> QED BY <1>4, <2>1 DEF Shown
<1>6. tombs' = tombs \cup {x[2][1] : x \in {y \in Due : y[1] = r}}
  <2>1. Mine(c) = {y \in Due : y[1] = r} /\ Mine(c) = {r} \X call[c].items
    BY <1>1, DueOfCall DEF Mine
  <2>2. {x[2][1] : x \in {r} \X call[c].items} = {t[1] : t \in call[c].items}
    <3>1. \A x \in {r} \X call[c].items : x[2] \in call[c].items
      OBVIOUS
    <3>2. \A t \in call[c].items : <<r, t>> \in {r} \X call[c].items /\ <<r, t>>[2] = t
      OBVIOUS
    <3> QED BY <3>1, <3>2
  <2>3. tombs' = tombs \cup {t[1] : t \in call[c].items}
    BY DEF Bury, IdsOf
  <2> QED BY <2>1, <2>2, <2>3
<1>7. UNCHANGED <<rows, written, deleted>>
  BY DEF Kept
<1> HIDE DEF r
<1>8. Thread!Hide(r)
  BY <1>3, <1>5, <1>6, <1>7 DEF Thread!Hide, Thread!DueOf, Shows, Due
<1> QED BY <1>5, <1>8 DEF Thread!Next, Shows

\* A call goes on with what it had.
LEMMA WentOn ==
    ASSUME IInv, NEW c \in Calls, NEW x, Goes(c, x), rows' = rows, UNCHANGED <<written, tombs, deleted>>,
           \/ ~Busy(c) /\ x.step \notin {"doing", "buried", "rejected"}
           \/ Busy(c) /\ x.step \in {"doing", "buried", "rejected"}
              /\ x.read = call[c].read /\ x.items = call[c].items
    PROVE  [Thread!Next]_Thread!consent
<1>1. call'[c] = x /\ \A d \in Calls \ {c} : call'[d] = call[d]
  BY DEF Goes, IInv, CallOK
<1>2. Mine(c)' = Mine(c)
  BY <1>1 DEF Mine, Busy
<1>3. Due' = Due
  BY <1>1, <1>2, DueKept
<1> QED BY <1>3, Unseen

LEMMA ConsentStep == IInv /\ IInv' /\ GrantInv /\ [Next]_vars => [Thread!Next]_Thread!consent
<1> SUFFICES ASSUME IInv, IInv', GrantInv, [Next]_vars PROVE [Thread!Next]_Thread!consent
  OBVIOUS
<1> DEFINE Good == [Thread!Next]_Thread!consent
<1>0. /\ call \in [Calls -> Call(Items)] /\ \A c \in Calls : call[c] \in Call(Items)
      /\ rows \in Seq(Row(Items)) /\ rows' \in Seq(Row(Items)) /\ DOMAIN rows = 1 .. Len(rows)
  BY DEF IInv, CallOK, RowsOK
<1>1. ASSUME NEW c \in Calls, Asks(c), UNCHANGED <<memory, graves>> PROVE Good
  <2>1. ASSUME NEW w \in Writes, Ask(c, w) PROVE Good
    <3> DEFINE x == [Nothing EXCEPT !.step = "gated", !.items = Sum(Open, w)]
    <3>1. x.step = "gated" /\ Goes(c, x) /\ ~Busy(c) /\ UNCHANGED <<rows, written, tombs, deleted>>
      BY <1>1, <2>1 DEF Ask, Nothing, Idle, Busy, graves
    <3> HIDE DEF x
    <3> QED BY <3>1, WentOn
  <2>2. CASE Propose(c)
    <3> DEFINE x == [call[c] EXCEPT !.step = "proposing", !.seen = Open]
    <3>1. x.step = "proposing" /\ Goes(c, x) /\ ~Busy(c) /\ UNCHANGED <<rows, written, tombs, deleted>>
      BY <1>0, <1>1, <2>2 DEF Propose, Call, Busy, graves
    <3> HIDE DEF x
    <3> QED BY <3>1, WentOn
  <2>3. CASE Insert(c)
    BY <1>1, <2>3, Offered
  <2>4. CASE Refused(c)
    <3>1. Ends(c) /\ UNCHANGED <<rows, written, tombs, deleted>>
      BY <1>1, <2>4 DEF Refused, graves
    <3> QED BY <3>1, Dropped
  <2> QED BY <1>1, <2>1, <2>2, <2>3, <2>4 DEF Asks
<1>2. ASSUME NEW c \in Calls, Cancel(c), UNCHANGED <<memory, graves>> PROVE Good
  <2>1. UNCHANGED <<written, tombs, deleted>> /\ Ends(c) /\ ~Busy(c)
    BY <1>2 DEF Cancel, graves, Busy
  <2>2. Due' = Due
    <3>1. call'[c] = Nothing /\ \A d \in Calls \ {c} : call'[d] = call[d]
      BY <1>0, <2>1 DEF Ends, Goes
    <3>2. Mine(c)' = Mine(c)
      BY <2>1, <3>1 DEF Mine, Busy, Nothing
    <3> QED BY <3>1, <3>2, DueKept
  <2> DEFINE Old(r) == IF r \in Pending THEN [rows[r] EXCEPT !.status = "cancelled"] ELSE rows[r]
  <2>3. rows' = [r \in 1 .. Len(rows) |-> Old(r)]
    BY <1>0, <1>2 DEF Cancel
  <2>4. CASE Pending = {}
    <3>1. \A r \in 1 .. Len(rows) : Old(r) = rows[r]
      BY <2>4
    <3>2. rows' = rows
      BY <1>0, <2>3, <3>1
    <3> QED BY <2>1, <2>2, <3>2, Unseen
  <2>5. ASSUME NEW r \in Pending PROVE Good
    <3>1. Pending = {r} /\ r \in 1 .. Len(rows) /\ rows[r] \in Row(Items)
      BY <1>0, <2>5 DEF IInv, RowsOK, LastWaits, Pending
    <3>2. \A q \in 1 .. Len(rows) \ {r} : rows'[q] = rows[q]
      BY <2>3, <3>1
    <3>3. rows'[r] = [rows[r] EXCEPT !.status = "cancelled"]
      BY <2>3, <3>1
    <3>4. rows'[r].kind = rows[r].kind /\ rows'[r].items = rows[r].items /\ rows'[r].status = "cancelled"
      BY <3>1, <3>3 DEF Row
    <3>5. Len(rows') = Len(rows)
      <4> HIDE DEF Old
      <4> QED BY <1>0, <2>3
    <3> QED BY <2>1, <2>2, <3>2, <3>4, <3>5, ClosedOne
  <2> QED BY <2>4, <2>5
<1>3. ASSUME NEW c \in Calls, Answers(c), UNCHANGED <<memory, graves>> PROVE Good
  <2>1. ASSUME NEW kind \in Kinds, Answer(c, kind) PROVE Good
    <3> DEFINE x == [Nothing EXCEPT !.step = "answering", !.kind = kind, !.read = Open]
    <3>1. x.step = "answering" /\ Goes(c, x) /\ ~Busy(c) /\ UNCHANGED <<rows, written, tombs, deleted>>
      BY <1>3, <2>1 DEF Answer, Nothing, Idle, Busy, graves
    <3> HIDE DEF x
    <3> QED BY <3>1, WentOn
  <2>2. CASE Claim(c)
    BY <1>3, <2>2, Granted
  <2>3. CASE ClaimedAlready(c)
    <3>1. Ends(c) /\ UNCHANGED <<rows, written, tombs, deleted>>
      BY <1>3, <2>3 DEF ClaimedAlready, graves
    <3> QED BY <3>1, Dropped
  <2> QED BY <1>2, <1>3, <2>1, <2>2, <2>3 DEF Answers
<1>4. ASSUME NEW c \in Calls, Does(c) \/ Die(c), UNCHANGED <<memory, graves>> PROVE Good
  <2>1. ASSUME NEW w \in Writes, NEW fails \in BOOLEAN, Write(c, w, fails) PROVE Good
    <3>1. /\ Busy(c) /\ call[c].kind = "write" /\ w \in call[c].items /\ UNCHANGED <<rows, tombs, deleted>>
          /\ Goes(c, [call[c] EXCEPT !.items = @ \ {w}])
          /\ written' = written \/ written' = [written EXCEPT ![w] = @ + 1]
      BY <1>4, <2>1 DEF Write, Busy, graves
    <3> QED BY <3>1, Tried
  <2>2. CASE Finish(c) \/ Die(c)
    <3>1. Ends(c) /\ UNCHANGED <<rows, written, tombs, deleted>>
      BY <1>4, <2>2 DEF Finish, Die, graves
    <3> QED BY <3>1, Dropped
  <2> QED BY <1>4, <2>1, <2>2 DEF Does
<1>5. ASSUME NEW r \in DOMAIN rows, Expire(r), UNCHANGED <<memory, graves>> PROVE Good
  <2>1. r \in Pending /\ r \in 1 .. Len(rows) /\ rows[r] \in Row(Items)
    BY <1>0, <1>5 DEF Expire
  <2>2. rows' = [rows EXCEPT ![r].status = "expired"] /\ UNCHANGED <<call, written, tombs, deleted>>
    BY <1>5 DEF Expire, graves
  <2>3. /\ Len(rows') = Len(rows) /\ \A q \in 1 .. Len(rows) \ {r} : rows'[q] = rows[q]
        /\ rows'[r] = [rows[r] EXCEPT !.status = "expired"]
    BY <1>0, <2>1, <2>2
  <2>4. rows'[r].kind = rows[r].kind /\ rows'[r].items = rows[r].items /\ rows'[r].status = "expired"
    BY <2>1, <2>3 DEF Row
  <2>5. Due' = Due
    BY <2>2 DEF Due, Mine, Busy
  <2> QED BY <2>1, <2>2, <2>3, <2>4, <2>5, ClosedOne
<1>6. ASSUME NEW c \in Calls, Forget(c) PROVE Good
  <2>1. CASE Bury(c) /\ Kept /\ UNCHANGED <<memory, deleted>>
    BY <2>1, Hidden
  <2>2. CASE Reject(c) /\ Kept /\ UNCHANGED <<docs, log, graves>>
    <3> DEFINE x == [call[c] EXCEPT !.step = "rejected"]
    <3>1. /\ x.step = "rejected" /\ x.read = call[c].read /\ x.items = call[c].items
          /\ Goes(c, x) /\ Busy(c) /\ UNCHANGED <<rows, written, tombs, deleted>>
      BY <1>0, <2>2 DEF Reject, Forgets, Then, Call, Busy, Kept, graves
    <3> HIDE DEF x
    <3> QED BY <3>1, WentOn
  <2>3. ASSUME NEW t \in Targets, NEW fails \in BOOLEAN,
               Delete(c, t, fails), Kept, UNCHANGED <<canonical, log, tombs, blind>>
        PROVE  Good
    <3>1. /\ Busy(c) /\ call[c].kind = "forget" /\ call[c].step = "rejected" /\ t \in call[c].items
          /\ Goes(c, [call[c] EXCEPT !.items = @ \ {t}]) /\ UNCHANGED <<rows, written, tombs>>
          /\ deleted' = deleted \/ deleted' = deleted \cup {t[1]}
      BY <2>3 DEF Delete, Forgets, Busy, Kept
    <3> QED BY <3>1, Tried
  <2> QED BY <1>6, <2>1, <2>2, <2>3 DEF Forget
<1>7. ASSUME NEW c \in Calls, NEW targets \in SUBSET (Present \X BOOLEAN), Resolve(c, targets) PROVE Good
  <2> DEFINE x == [Nothing EXCEPT !.step = "gated", !.kind = "forget", !.items = targets]
  <2>1. x.step = "gated" /\ Goes(c, x) /\ ~Busy(c) /\ UNCHANGED <<rows, written, tombs, deleted>>
    BY <1>7 DEF Resolve, Nothing, Idle, Busy, Kept, graves
  <2> HIDE DEF x
  <2> QED BY <2>1, WentOn
<1>8. ASSUME UNCHANGED <<rows, call, written, tombs, deleted>> PROVE Good
  BY <1>8, Unseen DEF Due, Mine, Busy
<1>9. ASSUME NEW f \in Facts, Remember(f) PROVE Good
  <2>1. UNCHANGED <<rows, call, written, tombs, deleted>>
    BY <1>9, StepRemember DEF Unasked, Kept, graves
  <2> QED BY <1>8, <2>1
<1>10. CASE UNCHANGED vars
  BY <1>8, <1>10 DEF vars, pending, graves
<1>11. CASE PendingNext /\ UNCHANGED <<memory, graves>>
  BY <1>1, <1>3, <1>4, <1>5, <1>11 DEF PendingNext
<1> QED BY <1>6, <1>7, <1>9, <1>10, <1>11 DEF Next

\* Whatever calls race or die: nothing is written, hidden or deleted that is not
\* in a proposal confirmed while it was open and alone, and no item of it is tried
\* twice.  Every behaviour of the thread is one of Consent.
THEOREM ThreadImplementsConsent == Spec => ImplementsConsent
<1>1. ImplementsConsent <=> Thread!Init /\ [][Thread!Next]_Thread!consent
  BY DEF ImplementsConsent, Thread!Spec
<1> QED BY <1>1, InitGrant, GrantSteps, ConsentStep, Starts, Steps, PTL DEF Spec
=============================================================================
