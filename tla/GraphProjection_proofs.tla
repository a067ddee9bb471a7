------------------------ MODULE GraphProjection_proofs -------------------------
(***************************************************************************)
(* Proofs about GraphProjection, for any nodes, edges, workers, batch and  *)
(* budget of attempts: type correctness, and that a drained queue leaves   *)
(* in Neo4j the graph of the tables.                                       *)
(*                                                                         *)
(* The second holds key by key.  The tables hold what the last row that    *)
(* decides a key says of it (LogIsCanonical); unless an older row has      *)
(* overwritten a later one, so does the graph from the moment that row     *)
(* lands (GraphFollows), however often it lands and whatever a crash has   *)
(* the worker forget, since forgetting only lets a row land once more.     *)
(***************************************************************************)
EXTENDS GraphProjection, TLAPS

\* The parts of TypeOK, so that a step proves the ones it disturbs.
GraphsOK  == pg \in [Keys -> Values \ {Stub}] /\ neo \in [Keys -> Values]
LogOK     == last \in 0 .. MaxRows /\ log \in [1 .. last -> Payload]
RowsOK    == /\ row \in [1 .. last -> Row]
             /\ \A r \in 1 .. last : CountersOK(row[r].counters)
PassOK    == pass \in [Workers -> [RowIds -> Outcomes]]
HistoryOK == reordered \in BOOLEAN

LEMMA TypeParts ==
    TypeOK <=> GraphsOK /\ LogOK /\ RowsOK /\ PassOK /\ HistoryOK /\ HeldOnce
BY DEF TypeOK, GraphsOK, LogOK, RowsOK, PassOK, HistoryOK

LEMMA TypePartsNext ==
    GraphsOK' /\ LogOK' /\ RowsOK' /\ PassOK' /\ HistoryOK' /\ HeldOnce' => TypeOK'
BY DEF TypeOK, GraphsOK, LogOK, RowsOK, PassOK, HistoryOK

-----------------------------------------------------------------------------
(* Payloads and counters                                                   *)

LEMMA PayloadFacts ==
    ASSUME NEW p \in Payload
    PROVE  /\ p.key \in Keys /\ p.content \in Values \ {Stub}
           /\ p.op = "edge" => p.key \in Edges /\ p.key[1] \in Nodes /\ p.key[2] \in Nodes
           /\ p.op = "node_delete" => p.key \in Nodes
<1>1. Contents \subseteq Values \ {Stub} /\ {Absent, Linked} \subseteq Values \ {Stub}
  BY GraphAssumption DEF Contents, Values, Absent, Linked, Stub
<1>2. CASE p \in [op : {"node", "invalid"}, key : Nodes, content : Contents]
  BY <1>1, <1>2 DEF Keys
<1>3. CASE p \in [op : {"node_delete"}, key : Nodes, content : {Absent}]
  BY <1>1, <1>3 DEF Keys
<1>4. CASE p \in [op : {"edge"}, key : Edges, content : {Linked}]
  BY <1>1, <1>4, GraphAssumption DEF Keys
<1>5. CASE p \in [op : {"edge_delete"}, key : Edges, content : {Absent}]
  BY <1>1, <1>5 DEF Keys
<1> QED BY <1>2, <1>3, <1>4, <1>5 DEF Payload

LEMMA AppliedType ==
    ASSUME NEW g \in [Keys -> Values], NEW p \in Payload
    PROVE  Applied(g, p) \in [Keys -> Values]
<1>1. p.content \in Values /\ Stub \in Values
  BY PayloadFacts DEF Values
<1> QED BY <1>1 DEF Applied

\* An edge between nodes that are there leaves no stub.
LEMMA AppliedNoStub ==
    ASSUME NEW g \in [Keys -> Values \ {Stub}], NEW p \in Payload,
           p.op = "edge" => g[p.key[1]] # Absent /\ g[p.key[2]] # Absent
    PROVE  Applied(g, p) \in [Keys -> Values \ {Stub}]
<1>1. p.content \in Values \ {Stub}
  BY PayloadFacts
<1>2. ASSUME NEW k \in Keys
      PROVE  Applied(g, p)[k] \in Values \ {Stub}
  <2>1. CASE Touches(p, k)
    BY <1>1, <2>1 DEF Applied
  <2>2. CASE ~Touches(p, k)
    BY <2>2 DEF Applied
  <2> QED BY <2>1, <2>2
<1> QED BY <1>2 DEF Applied

\* What a payload makes of a key, as a reader sees it.
LEMMA AppliedShows ==
    ASSUME NEW g \in [Keys -> Values], NEW p \in Payload, NEW k \in Keys
    PROVE  Shows(Applied(g, p), k) = IF Touches(p, k) THEN p.content ELSE Shows(g, k)
<1>1. p.content # Stub
  BY PayloadFacts
<1>2. Applied(g, p)[k] =
        IF Touches(p, k) THEN p.content
        ELSE IF p.op = "edge" /\ k \in {p.key[1], p.key[2]} /\ g[k] = Absent THEN Stub
        ELSE g[k]
  BY DEF Applied
<1> QED BY <1>1, <1>2 DEF Shows, Absent, Stub

LEMMA CountersFacts ==
    /\ NoFailures \in Counters /\ CountersOK(NoFailures) /\ ~Stuck(NoFailures)
    /\ New \in Row
<1>1. NoFailures \in Counters
  BY RetryAssumption DEF NoFailures, Counters
<1> QED BY <1>1, RetryAssumption DEF CountersOK, Stuck, NoFailures, New, Row

LEMMA RescheduledType ==
    ASSUME NEW c, CountersOK(c), ~Stuck(c), NEW kind \in Kinds
    PROVE  CountersOK(Rescheduled(c, kind))
<1> DEFINE a == c.attempts
           t == c.throttled
<1>1. /\ a \in Nat /\ a < MAX_ATTEMPTS /\ t \in Nat /\ t <= THROTTLE_BUDGET + a
  BY RetryAssumption DEF CountersOK, Counters, Stuck
<1>2. /\ Rescheduled(c, kind).attempts =
            IF ConsumesAttempt(kind, t) THEN a + 1 ELSE a
      /\ Rescheduled(c, kind).throttled = IF kind = "throttled" THEN t + 1 ELSE t
      /\ Rescheduled(c, kind) \in [attempts : {IF ConsumesAttempt(kind, t) THEN a + 1 ELSE a},
                                   throttled : {IF kind = "throttled" THEN t + 1 ELSE t}]
  BY DEF Rescheduled
<1>3. CASE kind = "throttled"
  <2>1. CASE t >= THROTTLE_BUDGET
    <3>1. ConsumesAttempt(kind, t)
      BY <1>3, <2>1 DEF ConsumesAttempt
    <3> QED BY <1>1, <1>2, <1>3, <3>1, RetryAssumption DEF CountersOK, Counters
  <2>2. CASE ~(t >= THROTTLE_BUDGET)
    <3>1. ~ConsumesAttempt(kind, t)
      BY <1>3, <2>2 DEF ConsumesAttempt
    <3> QED BY <1>1, <1>2, <1>3, <2>2, <3>1, RetryAssumption DEF CountersOK, Counters
  <2> QED BY <2>1, <2>2
<1>4. CASE kind # "throttled"
  BY <1>1, <1>2, <1>4, RetryAssumption DEF CountersOK, Counters
<1> QED BY <1>3, <1>4

-----------------------------------------------------------------------------
(* The type invariant                                                      *)

LEMMA InitType == Init => TypeOK
<1> SUFFICES ASSUME Init PROVE TypeOK
  OBVIOUS
<1>1. LogOK /\ pg \in [Keys -> Values \ {Stub}]
  <2>1. Origin \in [Keys -> Values \ {Stub}]
    BY DEF Origin, Nothing, Values, Absent, Linked, Stub
  <2>2. CASE Start = "unreadable"
    <3>1. PICK n \in Nodes :
             /\ last = 1
             /\ log = [r \in 1 .. 1 |-> [op |-> "invalid", key |-> n, content |-> 1]]
             /\ pg = [Origin EXCEPT ![n] = 1]
      BY <2>2 DEF Init, InitLog
    <3>2. [op |-> "invalid", key |-> n, content |-> 1] \in Payload
      BY GraphAssumption DEF Payload, Contents
    <3>3. 1 \in Values \ {Stub}
      BY DEF Values, Linked, Stub
    <3>4. LogOK
      BY <3>1, <3>2, GraphAssumption DEF LogOK
    <3> QED BY <2>1, <3>1, <3>3, <3>4
  <2>3. CASE Start # "unreadable"
    BY <2>1, <2>3, GraphAssumption DEF Init, InitLog, LogOK
  <2> QED BY <2>2, <2>3
<1>2. GraphsOK
  BY <1>1 DEF GraphsOK, Init, Origin, Nothing, Values, Absent, Linked
<1>3. RowsOK
  BY CountersFacts DEF RowsOK, Init, New
<1>4. PassOK /\ HistoryOK /\ HeldOnce
  BY DEF PassOK, HistoryOK, HeldOnce, Init, Outcomes
<1> QED BY <1>1, <1>2, <1>3, <1>4, TypeParts

LEMMA EmitType ==
    ASSUME TypeOK, NEW p \in Payload, Emit(p),
           p.op = "edge" => pg[p.key[1]] # Absent /\ pg[p.key[2]] # Absent
    PROVE  TypeOK'
<1> USE TypeParts
<1>1. GraphsOK'
  BY AppliedNoStub DEF GraphsOK, Emit
<1>2. LogOK'
  BY GraphAssumption DEF LogOK, Emit
<1>3. RowsOK'
  <2>1. CountersOK(New.counters)
    BY CountersFacts DEF New
  <2> QED BY <2>1, CountersFacts DEF RowsOK, LogOK, Emit
<1>4. HeldOnce'
  <2>1. \A r \in RowIds : r <= last => r \in 1 .. last + 1 /\ r # last + 1
    BY GraphAssumption DEF LogOK, RowIds
  <2> QED BY <2>1 DEF HeldOnce, LogOK, Emit
<1>5. PassOK' /\ HistoryOK'
  BY DEF PassOK, HistoryOK, Emit
<1> QED BY <1>1, <1>2, <1>3, <1>4, <1>5, TypePartsNext

LEMMA WriteType == TypeOK /\ Write => TypeOK'
<1> SUFFICES ASSUME TypeOK, Write PROVE TypeOK'
  OBVIOUS
<1>1. CASE \E n \in Nodes : EraseNode(n)
  <2>1. PICK n \in Nodes : EraseNode(n)
    BY <1>1
  <2>2. [op |-> "node_delete", key |-> n, content |-> Absent] \in Payload
    BY DEF Payload
  <2> QED BY <2>1, <2>2, EmitType DEF EraseNode
<1>2. CASE \E n \in Nodes : \E c \in Contents : Upsert(n, c)
  <2>1. PICK n \in Nodes, c \in Contents : Upsert(n, c)
    BY <1>2
  <2>2. [op |-> "node", key |-> n, content |-> c] \in Payload
    BY DEF Payload
  <2> QED BY <2>1, <2>2, EmitType DEF Upsert
<1>3. CASE \E e \in Edges : Link(e)
  <2>1. PICK e \in Edges : Link(e)
    BY <1>3
  <2>2. [op |-> "edge", key |-> e, content |-> Linked] \in Payload
    BY DEF Payload
  <2> QED BY <2>1, <2>2, EmitType DEF Link
<1>4. CASE \E e \in Edges : Unlink(e)
  <2>1. PICK e \in Edges : Unlink(e)
    BY <1>4
  <2>2. [op |-> "edge_delete", key |-> e, content |-> Absent] \in Payload
    BY DEF Payload
  <2> QED BY <2>1, <2>2, EmitType DEF Unlink
<1> QED BY <1>1, <1>2, <1>3, <1>4 DEF Write

LEMMA DrainStartType ==
    ASSUME TypeOK, NEW w \in Workers, DrainStart(w)
    PROVE  TypeOK'
<1> USE TypeParts
<1>1. \A r \in Batched : r \in 1 .. last /\ Ready(r)
  BY DEF Batched
<1>2. PassOK'
  BY DEF PassOK, DrainStart, Outcomes
<1>3. HeldOnce'
  BY <1>1 DEF HeldOnce, DrainStart, Ready, Held, PassOK, Resting
<1> QED BY <1>2, <1>3, TypePartsNext DEF DrainStart, GraphsOK, LogOK, RowsOK, HistoryOK

LEMMA LandsType ==
    ASSUME TypeOK, NEW p \in Payload, NEW at, Lands(p, at)
    PROVE  neo' \in [Keys -> Values] /\ HistoryOK'
BY AppliedType, TypeParts DEF Lands, GraphsOK, HistoryOK

LEMMA HandleRowType ==
    ASSUME TypeOK, NEW w \in Workers, HandleRow(w)
    PROVE  TypeOK'
<1> USE TypeParts
<1>1. PICK r \in 1 .. last, outcome \in Outcomes :
         /\ Turn(w, r) /\ Ends(w, r, outcome) /\ outcome # "none"
         /\ Lands(log[r], r) \/ UNCHANGED <<neo, reordered>>
         /\ UNCHANGED <<pg, last, log, row>>
  BY DEF HandleRow, ApplyRow, PoisonRow, FailRow, Outcomes, Failures, Kinds
<1>2. r \in RowIds /\ log[r] \in Payload
  BY GraphAssumption DEF LogOK, RowIds
<1>3. GraphsOK' /\ HistoryOK'
  BY <1>1, <1>2, LandsType DEF GraphsOK, HistoryOK
<1>4. PassOK'
  BY <1>1, <1>2 DEF PassOK, Ends
<1>5. HeldOnce'
  BY <1>1, <1>2 DEF HeldOnce, PassOK, Ends, Turn
<1> QED BY <1>1, <1>3, <1>4, <1>5, TypePartsNext DEF LogOK, RowsOK

LEMMA CommitType ==
    ASSUME TypeOK, NEW w \in Workers, Commit(w)
    PROVE  TypeOK'
<1> USE TypeParts
<1>1. ASSUME NEW r \in 1 .. last
      PROVE  row'[r] \in Row /\ CountersOK(row'[r].counters)
  <2>1. r \in RowIds /\ row[r] \in Row /\ CountersOK(row[r].counters)
    BY GraphAssumption DEF LogOK, RowIds, RowsOK
  <2>2. row'[r] = IF pass[w][r] = "none" THEN row[r] ELSE After(row[r], pass[w][r])
    BY DEF Commit
  <2>3. CASE pass[w][r] = "none"
    BY <2>1, <2>2, <2>3
  <2>4. CASE pass[w][r] \in {"applied", "permanent"}
    BY <2>1, <2>2, <2>4 DEF After, Row
  <2>5. CASE pass[w][r] \in Failures
    <3>1. ~Stuck(row[r].counters)
      BY <2>1, <2>5 DEF HeldOnce, Failures, Kinds
    <3>2. CountersOK(Rescheduled(row[r].counters, pass[w][r]))
      BY <2>1, <2>5, <3>1, RescheduledType DEF Failures
    <3>3. After(row[r], pass[w][r]) =
            [row[r] EXCEPT !.counters = Rescheduled(@, pass[w][r]), !.due = FALSE]
      BY <2>5 DEF After, Failures, Kinds
    <3>4. pass[w][r] # "none"
      BY <2>5 DEF Failures, Kinds
    <3> QED BY <2>1, <2>2, <3>2, <3>3, <3>4 DEF Row, CountersOK
  <2>6. pass[w][r] # "locked"
    BY <2>1 DEF Commit
  <2>7. pass[w][r] \in Outcomes
    BY <2>1 DEF PassOK
  <2> QED BY <2>3, <2>4, <2>5, <2>6, <2>7 DEF Outcomes
<1>2. RowsOK'
  BY <1>1 DEF RowsOK, Commit
<1>3. PassOK'
  BY DEF PassOK, Commit, Outcomes
<1>4. HeldOnce'
  <2> SUFFICES ASSUME NEW r \in RowIds, NEW v \in Workers, pass'[v][r] # "none"
               PROVE  /\ r <= last' /\ row'[r].status = "queued" /\ ~Stuck(row'[r].counters)
                      /\ \A u \in Workers \ {v} : pass'[u][r] = "none"
    BY DEF HeldOnce
  <2>1. v # w /\ pass[v][r] # "none"
    BY DEF Commit, PassOK
  <2>2. pass[w][r] = "none" /\ r \in 1 .. last
    BY <2>1 DEF HeldOnce, LogOK, RowIds
  <2>3. row'[r] = row[r]
    BY <2>2 DEF Commit
  <2> QED BY <2>1, <2>3 DEF HeldOnce, Commit, PassOK
<1> QED BY <1>2, <1>3, <1>4, TypePartsNext DEF Commit, GraphsOK, LogOK, HistoryOK

LEMMA CrashType ==
    ASSUME TypeOK, NEW w \in Workers, Crash(w)
    PROVE  TypeOK'
<1> USE TypeParts
<1>1. PassOK' /\ HeldOnce'
  BY DEF PassOK, HeldOnce, Crash, Outcomes
<1> QED BY <1>1, TypePartsNext DEF Crash, GraphsOK, LogOK, RowsOK, HistoryOK

LEMMA TendType == TypeOK /\ Tend => TypeOK'
<1> SUFFICES ASSUME TypeOK, Tend PROVE TypeOK'
  OBVIOUS
<1> USE TypeParts
<1>1. UNCHANGED <<pg, last, log, neo, pass, reordered>>
  BY DEF Tend, RequeueStuck, BackoffElapses, PurgeInvalid
<1>2. CASE RequeueStuck
  <2>1. RowsOK'
    BY <1>2, CountersFacts DEF RowsOK, RequeueStuck, New
  <2>2. HeldOnce'
    BY <1>1, <1>2, CountersFacts DEF HeldOnce, RequeueStuck, RowIds, LogOK, New
  <2> QED BY <1>1, <2>1, <2>2, TypePartsNext DEF GraphsOK, LogOK, PassOK, HistoryOK
<1>3. CASE \E r \in 1 .. last : BackoffElapses(r)
  <2>1. RowsOK'
    <3>1. PICK r \in 1 .. last : BackoffElapses(r)
      BY <1>3
    <3>2. row' = [row EXCEPT ![r].due = TRUE] /\ last' = last
      BY <3>1 DEF BackoffElapses
    <3>3. ASSUME NEW s \in 1 .. last
          PROVE  row'[s] \in Row /\ CountersOK(row'[s].counters)
      BY <3>2 DEF RowsOK, Row
    <3> QED BY <3>2, <3>3 DEF RowsOK
  <2>2. HeldOnce'
    BY <1>1, <1>3 DEF HeldOnce, BackoffElapses, RowIds, LogOK, RowsOK, Row
  <2> QED BY <1>1, <2>1, <2>2, TypePartsNext DEF GraphsOK, LogOK, PassOK, HistoryOK
<1>4. CASE \E r \in 1 .. last : PurgeInvalid(r)
  <2>1. RowsOK'
    BY <1>4 DEF RowsOK, PurgeInvalid, Row
  <2>2. HeldOnce'
    BY <1>1, <1>4 DEF HeldOnce, PurgeInvalid, RowIds, LogOK, RowsOK, Held
  <2> QED BY <1>1, <2>1, <2>2, TypePartsNext DEF GraphsOK, LogOK, PassOK, HistoryOK
<1> QED BY <1>2, <1>3, <1>4 DEF Tend

LEMMA StepType == TypeOK /\ [Next]_vars => TypeOK'
<1>1. TypeOK /\ UNCHANGED vars => TypeOK'
  BY TypeParts, TypePartsNext
     DEF vars, GraphsOK, LogOK, RowsOK, PassOK, HistoryOK, HeldOnce
<1> QED BY <1>1, WriteType, TendType, DrainStartType, HandleRowType, CommitType, CrashType
        DEF Next, Work

\* What a pass writes back is about the row it read, for any number of workers.
THEOREM TypeCorrect == Spec => []TypeOK
BY InitType, StepType, PTL DEF Spec

-----------------------------------------------------------------------------
(* The queue against the tables and the graph, key by key                  *)

\* The last row that decides a key, of those queued.
LastWrite(r, k) ==
    /\ r \in 1 .. last /\ Touches(log[r], k)
    /\ \A s \in 1 .. last : s > r => ~Touches(log[s], k)

NeverWritten(k) == \A r \in 1 .. last : ~Touches(log[r], k)

\* The tables hold what the last row that decides a key says of it.
LogIsCanonical ==
    \A k \in Keys : \/ \E r \in 1 .. last : LastWrite(r, k) /\ pg[k] = log[r].content
                    \/ NeverWritten(k) /\ pg[k] = Origin[k]

\* So does the graph once that row has landed, if no row overtook another.
GraphFollows ==
    \A k \in Keys :
        /\ NeverWritten(k) => Shows(neo, k) = Origin[k]
        /\ ~reordered => \A r \in 1 .. last :
                            LastWrite(r, k) /\ Landed(r) => Shows(neo, k) = log[r].content

DrainInv == TypeOK /\ LogIsCanonical /\ GraphFollows

LEMMA InitDrain == Init => DrainInv
<1> SUFFICES ASSUME Init PROVE LogIsCanonical /\ GraphFollows
  BY InitType DEF DrainInv
<1>1. \A r \in 1 .. last : ~Landed(r)
  BY InitType, TypeParts, GraphAssumption DEF LogOK, Init, Landed, Behind, New, RowIds, InitLog
<1>2. \A k \in Keys : neo[k] = Origin[k] /\ Shows(neo, k) = Origin[k]
  BY DEF Init, Origin, Nothing, Shows, Absent, Stub
<1>3. GraphFollows
  BY <1>1, <1>2 DEF GraphFollows
<1>4. LogIsCanonical
  <2>1. CASE Start = "unreadable"
    <3>1. PICK n \in Nodes :
             /\ last = 1
             /\ log = [r \in 1 .. 1 |-> [op |-> "invalid", key |-> n, content |-> 1]]
             /\ pg = [Origin EXCEPT ![n] = 1]
      BY <2>1 DEF Init, InitLog
    <3> SUFFICES ASSUME NEW k \in Keys
                 PROVE  \/ \E r \in 1 .. last : LastWrite(r, k) /\ pg[k] = log[r].content
                        \/ NeverWritten(k) /\ pg[k] = Origin[k]
      BY DEF LogIsCanonical
    <3>2. log[1].op = "invalid" /\ log[1].key = n /\ log[1].content = 1
      BY <3>1
    <3>3. CASE k = n
      <4>1. LastWrite(1, k)
        BY <3>1, <3>2, <3>3 DEF LastWrite, Touches
      <4>2. pg[k] = 1
        BY <3>1, <3>3 DEF Origin, Nothing
      <4> QED BY <3>1, <3>2, <4>1, <4>2
    <3>4. CASE k # n
      <4>1. NeverWritten(k)
        BY <3>1, <3>2, <3>4 DEF NeverWritten, Touches
      <4>2. pg[k] = Origin[k]
        BY <3>1, <3>4 DEF Origin, Nothing
      <4> QED BY <4>1, <4>2
    <3> QED BY <3>3, <3>4
  <2>2. CASE Start # "unreadable"
    BY <2>2 DEF Init, InitLog, LogIsCanonical, NeverWritten, Origin, Nothing
  <2> QED BY <2>1, <2>2
<1> QED BY <1>3, <1>4

LEMMA EmitDrain ==
    ASSUME DrainInv, NEW p \in Payload, Emit(p),
           p.op = "edge" => pg[p.key[1]] # Absent /\ pg[p.key[2]] # Absent
    PROVE  LogIsCanonical' /\ GraphFollows'
<1> USE DEF DrainInv
<1> USE TypeParts
<1>0. PICK n \in Nat : n = last + 1
  BY GraphAssumption DEF LogOK
<1>1. /\ last \in Nat /\ last' = n
      /\ log'[n] = p
      /\ \A r \in 1 .. last : log'[r] = log[r] /\ row'[r] = row[r]
      /\ row'[n] = New
      /\ neo' = neo /\ pass' = pass /\ reordered' = reordered
  BY <1>0, GraphAssumption DEF Emit, LogOK
<1>10. \A s \in 1 .. n : (s \in 1 .. last /\ n > s) \/ s = n
  BY <1>0, <1>1
<1>2. \A k \in Keys : pg'[k] = IF Touches(p, k) THEN p.content ELSE pg[k]
  <2> SUFFICES ASSUME NEW k \in Keys
               PROVE  pg'[k] = IF Touches(p, k) THEN p.content ELSE pg[k]
    OBVIOUS
  <2>1. pg' = Applied(pg, p)
    BY DEF Emit
  <2>2. p.op = "edge" /\ k \in {p.key[1], p.key[2]} => pg[k] # Absent
    OBVIOUS
  <2> QED BY <2>1, <2>2 DEF Applied
<1>3. \A k \in Keys : Touches(p, k) => LastWrite(n, k)'
  BY <1>0, <1>1 DEF LastWrite
<1>4. \A k \in Keys, r \in 1 .. last : ~Touches(p, k) => (LastWrite(r, k)' <=> LastWrite(r, k))
  BY <1>0, <1>1, <1>10 DEF LastWrite
<1>5. \A k \in Keys : NeverWritten(k)' <=> NeverWritten(k) /\ ~Touches(p, k)
  BY <1>0, <1>1, <1>10 DEF NeverWritten
<1>6. LogIsCanonical'
  <2> SUFFICES ASSUME NEW k \in Keys
               PROVE  \/ \E r \in 1 .. last' : LastWrite(r, k)' /\ pg'[k] = log'[r].content
                      \/ NeverWritten(k)' /\ pg'[k] = Origin[k]
    BY DEF LogIsCanonical
  <2>1. CASE Touches(p, k)
    BY <1>0, <1>1, <1>2, <1>3, <2>1
  <2>2. CASE ~Touches(p, k)
    BY <1>0, <1>1, <1>2, <1>4, <1>5, <2>2 DEF LogIsCanonical
  <2> QED BY <2>1, <2>2
<1>7. \A r \in 1 .. last : Landed(r)' <=> Landed(r)
  BY <1>1 DEF Landed, Behind
<1>8. ~Landed(n)'
  <2>1. n \in RowIds /\ ~(n <= last)
    BY <1>0, GraphAssumption DEF Emit, LogOK, RowIds
  <2>2. \A w \in Workers : pass[w][n] = "none"
    BY <2>1 DEF HeldOnce
  <2> QED BY <1>1, <2>2 DEF Landed, Behind, New
<1>9. GraphFollows'
  <2> SUFFICES ASSUME NEW k \in Keys
               PROVE  /\ NeverWritten(k)' => Shows(neo, k) = Origin[k]
                      /\ ~reordered => \A r \in 1 .. last' :
                            LastWrite(r, k)' /\ Landed(r)' => Shows(neo, k) = log'[r].content
    BY <1>1 DEF GraphFollows, Shows
  <2>1. NeverWritten(k)' => Shows(neo, k) = Origin[k]
    BY <1>5 DEF GraphFollows
  <2>2. ASSUME ~reordered, NEW r \in 1 .. last', LastWrite(r, k)', Landed(r)'
        PROVE  Shows(neo, k) = log'[r].content
    <3>1. r \in 1 .. last
      BY <1>1, <1>8, <1>10, <2>2
    <3>2. ~Touches(p, k)
      BY <1>0, <1>1, <1>10, <2>2, <3>1 DEF LastWrite
    <3> QED BY <1>1, <1>4, <1>7, <2>2, <3>1, <3>2 DEF GraphFollows
  <2> QED BY <2>1, <2>2
<1> QED BY <1>6, <1>9

\* A payload of the queue reaches the graph; its row may count as landed from then.
LEMMA LandsDrain ==
    ASSUME DrainInv, NEW r \in 1 .. last, Lands(log[r], r),
           UNCHANGED <<pg, last, log>>,
           \A s \in 1 .. last : Landed(s)' => Landed(s) \/ s = r
    PROVE  LogIsCanonical' /\ GraphFollows'
<1> USE DEF DrainInv
<1> USE TypeParts
<1>1. \A k \in Keys, s \in 1 .. last : LastWrite(s, k)' <=> LastWrite(s, k)
  BY DEF LastWrite
<1>2. \A k \in Keys : NeverWritten(k)' <=> NeverWritten(k)
  BY DEF NeverWritten
<1>3. LogIsCanonical'
  BY <1>1, <1>2 DEF LogIsCanonical
<1>4. log[r] \in Payload /\ neo \in [Keys -> Values]
  BY DEF LogOK, GraphsOK
<1>5. \A k \in Keys : Shows(neo', k) = IF Touches(log[r], k) THEN log[r].content ELSE Shows(neo, k)
  BY <1>4, AppliedShows DEF Lands
<1>6. ASSUME NEW k \in Keys, NeverWritten(k) PROVE Shows(neo', k) = Origin[k]
  BY <1>5, <1>6 DEF NeverWritten, GraphFollows
<1>7. ASSUME NEW k \in Keys, ~reordered', NEW s \in 1 .. last, LastWrite(s, k), Landed(s)'
      PROVE  Shows(neo', k) = log[s].content
  <2>1. ~reordered /\ ~(s > r /\ Landed(s) /\ Conflict(log[r], log[s]))
    BY <1>7 DEF Lands
  <2>2. CASE ~Touches(log[r], k)
    <3>1. s # r
      BY <1>7, <2>2 DEF LastWrite
    <3> QED BY <1>5, <1>7, <2>1, <2>2, <3>1 DEF GraphFollows
  <2>3. CASE Touches(log[r], k) /\ s = r
    BY <1>5, <2>3
  <2>4. CASE Touches(log[r], k) /\ s # r
    <3>1. s > r
      BY <1>7, <2>4 DEF LastWrite, LogOK
    <3>2. Landed(s) /\ Touches(log[s], k)
      BY <1>7, <2>4 DEF LastWrite
    <3>3. log[r].content = log[s].content
      BY <2>1, <2>4, <3>1, <3>2 DEF Conflict
    <3> QED BY <1>5, <2>4, <3>3
  <2> QED BY <2>2, <2>3, <2>4
<1>8. GraphFollows'
  BY <1>1, <1>2, <1>6, <1>7 DEF GraphFollows, Shows
<1> QED BY <1>3, <1>8

\* A step that lands nothing.
LEMMA QuietDrain ==
    ASSUME DrainInv, UNCHANGED <<pg, last, log, neo, reordered>>,
           \A s \in 1 .. last : Landed(s)' => Landed(s)
    PROVE  LogIsCanonical' /\ GraphFollows'
<1> USE DEF DrainInv
<1>1. \A k \in Keys, s \in 1 .. last : LastWrite(s, k)' <=> LastWrite(s, k)
  BY DEF LastWrite
<1>2. \A k \in Keys : NeverWritten(k)' <=> NeverWritten(k)
  BY DEF NeverWritten
<1> QED BY <1>1, <1>2 DEF LogIsCanonical, GraphFollows, Shows

LEMMA WriteDrain == DrainInv /\ Write => LogIsCanonical' /\ GraphFollows'
<1> SUFFICES ASSUME DrainInv, Write PROVE LogIsCanonical' /\ GraphFollows'
  OBVIOUS
<1>1. CASE \E n \in Nodes : EraseNode(n)
  <2>1. PICK n \in Nodes : EraseNode(n)
    BY <1>1
  <2>2. [op |-> "node_delete", key |-> n, content |-> Absent] \in Payload
    BY DEF Payload
  <2> QED BY <2>1, <2>2, EmitDrain DEF EraseNode
<1>2. CASE \E n \in Nodes : \E c \in Contents : Upsert(n, c)
  <2>1. PICK n \in Nodes, c \in Contents : Upsert(n, c)
    BY <1>2
  <2>2. [op |-> "node", key |-> n, content |-> c] \in Payload
    BY DEF Payload
  <2> QED BY <2>1, <2>2, EmitDrain DEF Upsert
<1>3. CASE \E e \in Edges : Link(e)
  <2>1. PICK e \in Edges : Link(e)
    BY <1>3
  <2>2. [op |-> "edge", key |-> e, content |-> Linked] \in Payload
    BY DEF Payload
  <2> QED BY <2>1, <2>2, EmitDrain DEF Link
<1>4. CASE \E e \in Edges : Unlink(e)
  <2>1. PICK e \in Edges : Unlink(e)
    BY <1>4
  <2>2. [op |-> "edge_delete", key |-> e, content |-> Absent] \in Payload
    BY DEF Payload
  <2> QED BY <2>1, <2>2, EmitDrain DEF Unlink
<1> QED BY <1>1, <1>2, <1>3, <1>4 DEF Write

LEMMA WorkDrain ==
    ASSUME DrainInv, NEW w \in Workers, Work(w) \/ Crash(w)
    PROVE  LogIsCanonical' /\ GraphFollows'
<1> USE DEF DrainInv
<1> USE TypeParts
<1>0. \A s \in 1 .. last : s \in RowIds
  BY GraphAssumption DEF LogOK, RowIds
<1>1. CASE DrainStart(w)
  <2>1. \A s \in 1 .. last : Landed(s)' => Landed(s)
    BY <1>0, <1>1 DEF Landed, Behind, DrainStart, PassOK
  <2> QED BY <1>1, <2>1, QuietDrain DEF DrainStart
<1>2. CASE Crash(w)
  <2>1. \A s \in 1 .. last : Landed(s)' => Landed(s)
    BY <1>0, <1>2 DEF Landed, Behind, Crash, PassOK
  <2> QED BY <1>2, <2>1, QuietDrain DEF Crash
<1>3. CASE Commit(w)
  <2>1. ASSUME NEW s \in 1 .. last, Landed(s)' PROVE Landed(s)
    <3>1. row'[s] = IF pass[w][s] = "none" THEN row[s] ELSE After(row[s], pass[w][s])
      BY <1>3 DEF Commit
    <3>2. CASE \E v \in Workers : pass'[v][s] = "applied"
      BY <1>0, <1>3, <3>2 DEF Commit, PassOK, Landed
    <3>3. CASE Behind(s)' /\ pass[w][s] # "none"
      <4>1. row[s] \in Row /\ row[s].status = "queued"
        BY <1>0, <3>3 DEF HeldOnce, RowsOK
      <4>2. CASE pass[w][s] = "applied"
        BY <4>2 DEF Landed
      <4>3. CASE pass[w][s] # "applied"
        <5>1. row'[s].status # "processed" /\ row'[s].status # "resolved"
          BY <3>1, <3>3, <4>1, <4>3 DEF After, Row
        <5> QED BY <3>3, <5>1 DEF Behind
      <4> QED BY <4>2, <4>3
    <3>4. CASE Behind(s)' /\ pass[w][s] = "none"
      BY <3>1, <3>4 DEF Behind, Landed
    <3> QED BY <2>1, <3>2, <3>3, <3>4 DEF Landed
  <2> QED BY <1>3, <2>1, QuietDrain DEF Commit
<1>4. CASE HandleRow(w)
  <2>1. PICK r \in 1 .. last :
           \/ ApplyRow(w, r) \/ PoisonRow(w, r)
           \/ \E kind \in Failures : FailRow(w, r, kind)
    BY <1>4 DEF HandleRow
  <2>2. CASE ApplyRow(w, r)
    <3>1. \A s \in 1 .. last : Landed(s)' => Landed(s) \/ s = r
      BY <1>0, <2>2 DEF ApplyRow, Ends, Landed, Behind, PassOK
    <3> QED BY <2>2, <3>1, LandsDrain DEF ApplyRow
  <2>3. CASE PoisonRow(w, r)
    <3>1. \A s \in 1 .. last : Landed(s)' => Landed(s)
      BY <1>0, <2>3 DEF PoisonRow, Ends, Landed, Behind, PassOK
    <3> QED BY <2>3, <3>1, QuietDrain DEF PoisonRow
  <2>4. CASE \E kind \in Failures : FailRow(w, r, kind)
    <3>1. PICK kind \in Failures : FailRow(w, r, kind)
      BY <2>4
    <3>2. kind # "applied"
      BY DEF Failures, Kinds
    <3>3. \A s \in 1 .. last : Landed(s)' => Landed(s)
      BY <1>0, <3>1, <3>2 DEF FailRow, Ends, Landed, Behind, PassOK
    <3> QED BY <3>1, <3>3, LandsDrain, QuietDrain DEF FailRow
  <2> QED BY <2>1, <2>2, <2>3, <2>4
<1> QED BY <1>1, <1>2, <1>3, <1>4 DEF Work

LEMMA TendDrain == DrainInv /\ Tend => LogIsCanonical' /\ GraphFollows'
<1> SUFFICES ASSUME DrainInv, Tend PROVE LogIsCanonical' /\ GraphFollows'
  OBVIOUS
<1>1. row \in [1 .. last -> Row] /\ pass' = pass
  BY TypeParts DEF DrainInv, RowsOK, Tend, RequeueStuck, BackoffElapses, PurgeInvalid
<1>2. \A s \in 1 .. last : Landed(s)' => Landed(s)
  <2>1. CASE RequeueStuck
    BY <1>1, <2>1 DEF RequeueStuck, Landed, Behind, New
  <2>2. CASE \E r \in 1 .. last : BackoffElapses(r)
    BY <1>1, <2>2 DEF BackoffElapses, Landed, Behind, Row
  <2>3. CASE \E r \in 1 .. last : PurgeInvalid(r)
    BY <1>1, <2>3 DEF PurgeInvalid, Landed, Behind, Row
  <2> QED BY <2>1, <2>2, <2>3 DEF Tend
<1> QED BY <1>2, QuietDrain DEF Tend, RequeueStuck, BackoffElapses, PurgeInvalid

LEMMA StepDrain == DrainInv /\ [Next]_vars => DrainInv'
<1> SUFFICES ASSUME DrainInv, [Next]_vars PROVE LogIsCanonical' /\ GraphFollows'
  BY StepType DEF DrainInv
<1>1. CASE UNCHANGED vars
  BY <1>1, QuietDrain DEF vars, Landed, Behind
<1> QED BY <1>1, WriteDrain, WorkDrain, TendDrain DEF Next

LEMMA DrainedFromInv == DrainInv => DrainedGraphIsCanonical
<1> SUFFICES ASSUME DrainInv, \A r \in 1 .. last : Behind(r), ~reordered, NEW k \in Keys
             PROVE  Shows(neo, k) = pg[k]
  BY DEF DrainedGraphIsCanonical, Agrees
<1>1. \A r \in 1 .. last : Landed(r)
  BY DEF Landed
<1> QED BY <1>1 DEF DrainInv, LogIsCanonical, GraphFollows

\* However often rows land, and whatever crashes have workers forget, a drained
\* queue leaves the graph of the tables unless a row overtook a later one.
THEOREM DrainedSound == Spec => []DrainedGraphIsCanonical
BY InitDrain, StepDrain, DrainedFromInv, PTL DEF Spec
================================================================================
