-------------------------- MODULE GraphRebuild_proofs --------------------------
(***************************************************************************)
(* Proofs about GraphRebuild, for any nodes, edges, workers and number of  *)
(* runs of the script: a repair nobody disturbs repairs, and with runs of  *)
(* the script in between a drained queue still leaves the graph of the     *)
(* tables.                                                                 *)
(*                                                                         *)
(* The script writes what it has read, which may be old.  That is harmless *)
(* because what it writes of a key is what the last row said of it when it *)
(* read (Snapshots): a payload of the script is a row of the queue landing *)
(* once more, and overtakes later rows exactly when that row would.  A row *)
(* that is resolved without having landed is one the script has just found *)
(* in the graph (Resolvable).                                              *)
(***************************************************************************)
EXTENDS GraphRebuild, GraphProjection_proofs

ScriptOK == script \in Script

\* What links two nodes of the tables links nodes that are there.
Sound(g) == \A e \in Edges : /\ g[e] \in {Absent, Linked}
                             /\ g[e] = Linked => g[e[1]] # Absent /\ g[e[2]] # Absent

\* The value of a key when n rows had been queued.
AsOf(n, k, v) ==
    \/ \E r \in 1 .. n : /\ Touches(log[r], k) /\ v = log[r].content
                         /\ \A s \in 1 .. n : s > r => ~Touches(log[s], k)
    \/ v = Origin[k] /\ \A r \in 1 .. n : ~Touches(log[r], k)

\* The keys that go when the script removes k.
Removed(k) == {j \in Keys : j = k \/ (k \in Nodes /\ j \in Incident(k))}

Comparing == script.pc \in {"expected", "again", "repair", "record"}

Snapshots ==
    /\ Comparing => /\ script.at <= last
                    /\ Sound(script.want)
                    /\ \A k \in Keys : AsOf(script.at, k, script.want[k])
    /\ script.pc \in {"again", "repair"} =>
          /\ script.extraAt <= last
          /\ \A k \in script.extra : \A j \in Removed(k) : AsOf(script.extraAt, j, Absent)
    /\ script.pc = "repair" => \A k \in script.merge : script.want[k] # Absent

\* Only a row nobody can read dies, it is the first one, and the script read the
\* tables after it.
OnlyUnreadableDie ==
    /\ \A r \in 1 .. last : log[r].op = "invalid" => r = 1 /\ (Comparing => script.at >= 1)
    /\ \A r \in 1 .. last : row[r].status = "dead" => log[r].op = "invalid"
    /\ \A w \in Workers, r \in RowIds : pass[w][r] = "permanent" => log[r].op = "invalid"

\* The row the script is going to resolve is in the graph already.
Resolvable ==
    (script.pc = "record" /\ script.clean) \/ script.pc = "resolve" =>
        \A k \in Keys, r \in 1 .. last :
            LastWrite(r, k) /\ log[r].op = "invalid" => Shows(neo, k) = log[r].content

\* While only the script writes, what differs is what it is going to change.
OnlyTheScript == script.quiet =>
    /\ Comparing /\ script.want = pg
    /\ script.pc \in {"again", "repair"} => \A k \in script.extra : pg[k] = Absent
    /\ script.pc = "again" =>
          \A k \in Keys : pg[k] = Absent => Shows(neo, k) = Absent \/ k \in script.extra
    /\ script.pc = "repair" =>
          \A k \in Keys : Shows(neo, k) = pg[k] \/ k \in script.extra \/ k \in script.merge
    /\ script.mode = "after" => script.pc \in {"expected", "record"} /\ Agrees
    /\ script.pc = "record" => (script.clean <=> Agrees)

RebuildInv == DrainInv /\ ScriptOK /\ Sound(pg) /\ Snapshots /\ OnlyUnreadableDie /\ Resolvable /\ OnlyTheScript

-----------------------------------------------------------------------------
(* Payloads, and the tables as of a row                                    *)

LEMMA SoundFacts ==
    /\ \A e \in Edges : e \in Keys /\ e \notin Nodes /\ e[1] \in Nodes /\ e[2] \in Nodes
    /\ \A n \in Nodes : n \in Keys /\ n \notin Edges
    /\ Keys = Nodes \cup Edges
    /\ \A c \in Contents : c # Absent /\ c # Stub
    /\ Absent # Linked /\ Absent # Stub /\ Linked # Stub /\ Linked \in Contents
    /\ Values = {Stub, Absent} \cup Contents
BY GraphAssumption DEF Keys, Contents, Absent, Linked, Stub, Values

\* What the transactions queue.
LEMMA WriteEmits ==
    ASSUME Write
    PROVE  \E p \in Payload : /\ Emit(p) /\ p.op # "invalid"
                              /\ p.op = "edge" => pg[p.key[1]] # Absent /\ pg[p.key[2]] # Absent
<1>1. ASSUME NEW n \in Nodes
      PROVE  /\ [op |-> "node_delete", key |-> n, content |-> Absent] \in Payload
             /\ \A c \in Contents : [op |-> "node", key |-> n, content |-> c] \in Payload
  BY DEF Payload
<1>2. ASSUME NEW e \in Edges
      PROVE  /\ [op |-> "edge", key |-> e, content |-> Linked] \in Payload
             /\ [op |-> "edge_delete", key |-> e, content |-> Absent] \in Payload
  BY DEF Payload
<1>3. CASE \E n \in Nodes : EraseNode(n)
  BY <1>1, <1>3 DEF EraseNode
<1>4. CASE \E n \in Nodes : \E c \in Contents : Upsert(n, c)
  BY <1>1, <1>4 DEF Upsert
<1>5. CASE \E e \in Edges : Link(e)
  BY <1>2, <1>5 DEF Link
<1>6. CASE \E e \in Edges : Unlink(e)
  BY <1>2, <1>6 DEF Unlink
<1>7. QED
  BY <1>3, <1>4, <1>5, <1>6 DEF Write

LEMMA AppliedSound ==
    ASSUME NEW g \in [Keys -> Values \ {Stub}], Sound(g), NEW p \in Payload,
           p.op = "edge" => g[p.key[1]] # Absent /\ g[p.key[2]] # Absent
    PROVE  Sound(Applied(g, p))
<1> DEFINE h == Applied(g, p)
<1> SUFFICES ASSUME NEW e \in Edges
             PROVE  h[e] \in {Absent, Linked} /\ (h[e] = Linked => h[e[1]] # Absent /\ h[e[2]] # Absent)
  BY DEF Sound
<1>0. e \in Keys /\ e \notin Nodes /\ {e[1], e[2]} \subseteq Nodes /\ Nodes \subseteq Keys
  BY SoundFacts
<1>1. \A k \in Keys : h[k] = IF Touches(p, k) THEN p.content
                             ELSE IF p.op = "edge" /\ k \in {p.key[1], p.key[2]} /\ g[k] = Absent THEN Stub
                             ELSE g[k]
  BY DEF Applied
<1> HIDE DEF h
<1>2. p.key \in Keys /\ (p.op = "edge" => p.key \in Edges)
  BY PayloadFacts
<1>3. CASE p \in [op : {"node", "invalid"}, key : Nodes, content : Contents]
  BY <1>0, <1>1, <1>3, SoundFacts DEF Sound, Touches
<1>4. CASE p \in [op : {"node_delete"}, key : Nodes, content : {Absent}]
  <2>1. e \in Incident(p.key) => h[e] = Absent
    BY <1>0, <1>1, <1>4 DEF Touches
  <2>2. e \notin Incident(p.key) => h[e] = g[e] /\ h[e[1]] = g[e[1]] /\ h[e[2]] = g[e[2]]
    <3>1. e \notin Incident(p.key) => p.key \notin {e[1], e[2]}
      BY DEF Incident
    <3>2. \A n \in Nodes : n \notin Incident(p.key)
      BY SoundFacts DEF Incident
    <3>3. QED
      BY <1>0, <1>1, <1>4, <3>1, <3>2 DEF Touches
  <2>3. QED
    BY <2>1, <2>2, SoundFacts DEF Sound
<1>5. CASE p \in [op : {"edge"}, key : Edges, content : {Linked}]
  <2>1. \A n \in Nodes : ~Touches(p, n)
    BY <1>5, SoundFacts DEF Touches
  <2>2. \A n \in Nodes : g[n] # Absent => h[n] = g[n]
    BY <1>0, <1>1, <2>1
  <2>3. p.key[1] \in Nodes /\ p.key[2] \in Nodes
    BY <1>5, SoundFacts
  <2>4. h[e] = IF e = p.key THEN Linked ELSE g[e]
    BY <1>0, <1>1, <1>5, <2>3 DEF Touches
  <2>5. QED
    BY <1>0, <1>5, <2>2, <2>4 DEF Sound
<1>6. CASE p \in [op : {"edge_delete"}, key : Edges, content : {Absent}]
  <2>1. h[e] = IF e = p.key THEN Absent ELSE g[e]
    BY <1>0, <1>1, <1>6 DEF Touches
  <2>2. \A n \in Nodes : h[n] = g[n]
    BY <1>0, <1>1, <1>6, SoundFacts DEF Touches
  <2>3. QED
    BY <1>0, <2>1, <2>2, SoundFacts DEF Sound
<1>7. QED
  BY <1>3, <1>4, <1>5, <1>6 DEF Payload

\* The tables are the tables as of the last row.
LEMMA AsOfNow == LogIsCanonical => \A k \in Keys : AsOf(last, k, pg[k])
BY DEF LogIsCanonical, LastWrite, NeverWritten, AsOf

\* What was the case as of a row stays so while rows are only added.
LEMMA AsOfStays ==
    ASSUME NEW n \in Nat, NEW k, NEW v, AsOf(n, k, v), \A r \in 1 .. n : log'[r] = log[r]
    PROVE  AsOf(n, k, v)'
BY DEF AsOf

\* A payload that repeats what a key was as of an older row is that row again.
LEMMA ScriptLands ==
    ASSUME DrainInv, NEW p \in Payload, NEW at \in 0 .. last, Lands(p, at),
           UNCHANGED <<pg, last, log, row, pass>>,
           \A k \in Keys : Touches(p, k) => AsOf(at, k, p.content)
    PROVE  DrainInv'
<1> USE DEF DrainInv
<1> USE TypeParts
<1>0. /\ last \in Nat /\ at \in Nat /\ at <= last
      /\ \A r \in 1 .. at : r \in 1 .. last
      /\ \A r \in 1 .. last : r \in 1 .. at \/ r > at
  BY GraphAssumption DEF LogOK
<1>1. TypeOK'
  BY LandsType, TypePartsNext DEF GraphsOK, LogOK, RowsOK, PassOK, HeldOnce
<1>2. \A k \in Keys, r \in 1 .. last : LastWrite(r, k)' <=> LastWrite(r, k)
  BY DEF LastWrite
<1>3. \A k \in Keys : NeverWritten(k)' <=> NeverWritten(k)
  BY DEF NeverWritten
<1>4. \A r \in 1 .. last : Landed(r)' <=> Landed(r)
  BY DEF Landed, Behind
<1>5. LogIsCanonical'
  BY <1>2, <1>3 DEF LogIsCanonical
<1>6. neo \in [Keys -> Values]
  BY DEF GraphsOK
<1>7. \A k \in Keys : Shows(neo', k) = IF Touches(p, k) THEN p.content ELSE Shows(neo, k)
  BY <1>6, AppliedShows DEF Lands
<1>8. ASSUME NEW k \in Keys, NeverWritten(k) PROVE Shows(neo', k) = Origin[k]
  BY <1>0, <1>7, <1>8 DEF NeverWritten, GraphFollows, AsOf
<1>9. ASSUME NEW k \in Keys, ~reordered', NEW s \in 1 .. last, LastWrite(s, k), Landed(s)
      PROVE  Shows(neo', k) = log[s].content
  <2>1. ~reordered /\ ~(s > at /\ Conflict(p, log[s]))
    BY <1>9 DEF Lands
  <2>2. CASE ~Touches(p, k)
    BY <1>7, <1>9, <2>1, <2>2 DEF GraphFollows
  <2>3. CASE Touches(p, k) /\ s > at
    BY <1>7, <1>9, <2>1, <2>3 DEF Conflict, LastWrite
  <2>4. CASE Touches(p, k) /\ ~(s > at)
    <3>1. s \in 1 .. at /\ Touches(log[s], k) /\ \A r \in 1 .. last : r > s => ~Touches(log[r], k)
      BY <1>0, <1>9, <2>4 DEF LastWrite
    <3>2. PICK r \in 1 .. at : /\ Touches(log[r], k) /\ p.content = log[r].content
                               /\ \A q \in 1 .. at : q > r => ~Touches(log[q], k)
      BY <2>4, <3>1 DEF AsOf
    <3>3. r = s
      BY <1>0, <3>1, <3>2
    <3>4. QED
      BY <1>7, <2>4, <3>2, <3>3
  <2>5. QED
    BY <2>2, <2>3, <2>4
<1>10. GraphFollows'
  BY <1>2, <1>3, <1>4, <1>8, <1>9 DEF GraphFollows, Shows
<1>11. QED
  BY <1>1, <1>5, <1>10

-----------------------------------------------------------------------------
(* What the transactions and the workers do meanwhile                      *)

LEMMA ScriptFacts ==
    ASSUME ScriptOK
    PROVE  /\ script.want \in [Keys -> Values \ {Stub}]
           /\ script.at \in 0 .. MaxRows /\ script.extraAt \in 0 .. MaxRows
           /\ script.at \in Nat /\ script.extraAt \in Nat
           /\ script.extra \subseteq Keys /\ script.merge \subseteq Keys
           /\ script.clean \in BOOLEAN /\ script.quiet \in BOOLEAN
           /\ script.pc \in {"idle", "expected", "again", "repair", "record", "resolve"}
           /\ script.mode \in {"check", "before", "after"}
BY GraphAssumption DEF ScriptOK, Script, Tables

\* Rows are added, and none that nobody can read.
LEMMA NextLog ==
    ASSUME DrainInv, Sound(pg), Next
    PROVE  /\ last \in Nat /\ last' \in Nat /\ last <= last'
           /\ \A r \in 1 .. last : log'[r] = log[r]
           /\ \A r \in 1 .. last' : log'[r].op = "invalid" => r \in 1 .. last
           /\ Sound(pg')
           /\ \A k \in Keys, r \in 1 .. last : LastWrite(r, k)' => LastWrite(r, k)
<1> DEFINE Grows == /\ last' \in Nat /\ last <= last'
                    /\ \A r \in 1 .. last : log'[r] = log[r]
                    /\ \A r \in 1 .. last' : log'[r].op = "invalid" => r \in 1 .. last
                    /\ Sound(pg')
<1>0. last \in Nat /\ pg \in [Keys -> Values \ {Stub}]
  BY GraphAssumption, TypeParts DEF DrainInv, LogOK, GraphsOK
<1>1. ASSUME Write PROVE Grows
  <2>1. PICK p \in Payload : /\ Emit(p) /\ p.op # "invalid"
                             /\ p.op = "edge" => pg[p.key[1]] # Absent /\ pg[p.key[2]] # Absent
    BY <1>1, WriteEmits
  <2>2. PICK n \in Nat : n = last + 1
    BY <1>0
  <2>3. /\ last' = n /\ last <= n /\ log'[n] = p /\ \A r \in 1 .. last : log'[r] = log[r]
        /\ \A r \in 1 .. n : r \in 1 .. last \/ r = n
    BY <1>0, <2>1, <2>2 DEF Emit
  <2>4. Sound(pg')
    BY <1>0, <2>1, AppliedSound DEF Emit
  <2>5. QED
    BY <2>1, <2>3, <2>4
<1>2. ASSUME UNCHANGED <<pg, last, log>> PROVE Grows
  BY <1>0, <1>2
<1>3. Tend \/ (\E w \in Workers : Work(w) \/ Crash(w)) => UNCHANGED <<pg, last, log>>
  BY DEF Tend, Work, Crash, RequeueStuck, BackoffElapses, PurgeInvalid, DrainStart, HandleRow,
         ApplyRow, PoisonRow, FailRow, Commit
<1>4. Grows
  BY <1>1, <1>2, <1>3 DEF Next
<1>5. ASSUME NEW k \in Keys, NEW r \in 1 .. last, LastWrite(r, k)' PROVE LastWrite(r, k)
  <2>1. \A s \in 1 .. last : s \in 1 .. last' /\ log'[s] = log[s]
    BY <1>0, <1>4
  <2>2. QED
    BY <1>5, <2>1 DEF LastWrite
<1>6. QED
  BY <1>0, <1>4, <1>5

\* The graph changes only when a row that can be read lands.
LEMMA NextGraph ==
    ASSUME DrainInv, Next
    PROVE  \/ neo' = neo
           \/ \E s \in 1 .. last :
                 /\ log[s].op # "invalid"
                 /\ \A k \in Keys : Shows(neo', k) = IF Touches(log[s], k) THEN log[s].content
                                                     ELSE Shows(neo, k)
<1>1. CASE \E w \in Workers : HandleRow(w)
  <2>1. PICK w \in Workers, s \in 1 .. last :
            ApplyRow(w, s) \/ PoisonRow(w, s) \/ \E kind \in Failures : FailRow(w, s, kind)
    BY <1>1 DEF HandleRow
  <2>2. log[s] \in Payload /\ neo \in [Keys -> Values]
    BY TypeParts DEF DrainInv, LogOK, GraphsOK
  <2>3. CASE Lands(log[s], s) /\ log[s].op # "invalid"
    <3>1. \A k \in Keys : Shows(neo', k) = IF Touches(log[s], k) THEN log[s].content ELSE Shows(neo, k)
      BY <2>2, <2>3, AppliedShows DEF Lands
    <3>2. QED
      BY <2>3, <3>1
  <2>4. QED
    BY <2>1, <2>3 DEF ApplyRow, PoisonRow, FailRow
<1>2. CASE ~ \E w \in Workers : HandleRow(w)
  BY <1>2 DEF Next, Write, Tend, Work, Crash, RequeueStuck, BackoffElapses, PurgeInvalid, DrainStart,
     Commit, Upsert, EraseNode, Link, Unlink, Emit
<1>3. QED
  BY <1>1, <1>2

\* Who dies.
LEMMA NextDead ==
    ASSUME DrainInv, Next, OnlyUnreadableDie
    PROVE  /\ \A r \in 1 .. last : row'[r].status = "dead" => log[r].op = "invalid"
           /\ \A r \in 1 .. last' : row'[r].status = "dead" => r \in 1 .. last
           /\ \A w \in Workers, r \in RowIds : pass'[w][r] = "permanent" => r \in 1 .. last /\ log[r].op = "invalid"
<1> USE TypeParts
<1>0. /\ last \in Nat /\ \A r \in 1 .. last : r \in RowIds
      /\ row \in [1 .. last -> Row] /\ pass \in [Workers -> [RowIds -> Outcomes]]
  BY GraphAssumption DEF DrainInv, LogOK, RowsOK, PassOK, RowIds
<1>1. /\ \A r \in 1 .. last : row[r].status = "dead" => log[r].op = "invalid"
      /\ \A w \in Workers, r \in RowIds : pass[w][r] = "permanent" => r \in 1 .. last /\ log[r].op = "invalid"
  BY <1>0 DEF OnlyUnreadableDie, DrainInv, HeldOnce, RowIds
<1>2. CASE Write
  <2>1. PICK p \in Payload : Emit(p)
    BY <1>2, WriteEmits
  <2>2. PICK n \in Nat : n = last + 1
    BY <1>0
  <2>3. /\ last' = n /\ pass' = pass /\ row'[n] = New /\ \A r \in 1 .. last : row'[r] = row[r]
        /\ \A r \in 1 .. n : r \in 1 .. last \/ r = n
    BY <1>0, <2>1, <2>2 DEF Emit
  <2>4. New.status = "queued"
    BY DEF New
  <2>5. QED
    BY <1>0, <1>1, <2>3, <2>4
<1>3. CASE Tend
  <2>1. last' = last /\ pass' = pass
    BY <1>3 DEF Tend, RequeueStuck, BackoffElapses, PurgeInvalid
  <2>2. ASSUME NEW r \in 1 .. last, row'[r].status = "dead" PROVE log[r].op = "invalid"
    <3>1. row[r] \in Row
      BY <1>0
    <3>2. CASE RequeueStuck
      BY <1>1, <2>2, <3>2 DEF RequeueStuck, New
    <3>3. CASE \E s \in 1 .. last : BackoffElapses(s)
      BY <1>0, <1>1, <2>2, <3>1, <3>3 DEF BackoffElapses, Row
    <3>4. CASE \E s \in 1 .. last : PurgeInvalid(s)
      BY <1>0, <1>1, <2>2, <3>1, <3>4 DEF PurgeInvalid, Row
    <3>5. QED
      BY <1>3, <3>2, <3>3, <3>4 DEF Tend
  <2>3. QED
    BY <1>1, <2>1, <2>2
<1>4. ASSUME NEW w \in Workers, Commit(w)
      PROVE  /\ last' = last /\ \A r \in 1 .. last : row'[r].status = "dead" => log[r].op = "invalid"
             /\ \A v \in Workers, r \in RowIds : pass'[v][r] = "permanent" => pass[v][r] = "permanent"
  <2>1. ASSUME NEW r \in 1 .. last, row'[r].status = "dead" PROVE log[r].op = "invalid"
    <3>1. row'[r] = IF pass[w][r] = "none" THEN row[r] ELSE After(row[r], pass[w][r])
      BY <1>4 DEF Commit
    <3>2. CASE pass[w][r] = "none" \/ pass[w][r] = "permanent"
      BY <1>0, <1>1, <2>1, <3>1, <3>2
    <3>3. CASE pass[w][r] # "none" /\ pass[w][r] # "permanent"
      <4>1. row[r] \in Row /\ row[r].status = "queued"
        BY <1>0, <3>3 DEF DrainInv, HeldOnce
      <4>2. After(row[r], pass[w][r]).status # "dead"
        BY <3>3, <4>1 DEF After, Row
      <4>3. QED
        BY <2>1, <3>1, <3>3, <4>2
    <3>4. QED
      BY <3>2, <3>3
  <2>2. QED
    BY <1>0, <1>4, <2>1 DEF Commit
<1>5. ASSUME NEW w \in Workers, DrainStart(w) \/ Crash(w)
      PROVE  /\ last' = last /\ row' = row
             /\ \A v \in Workers, r \in RowIds : pass'[v][r] = "permanent" => pass[v][r] = "permanent"
  BY <1>0, <1>5 DEF DrainStart, Crash
<1>6. ASSUME NEW w \in Workers, HandleRow(w)
      PROVE  /\ last' = last /\ row' = row
             /\ \A v \in Workers, r \in RowIds : pass'[v][r] = "permanent" =>
                   \/ pass[v][r] = "permanent"
                   \/ r \in 1 .. last /\ log[r].op = "invalid"
  BY <1>0, <1>6 DEF HandleRow, ApplyRow, PoisonRow, FailRow, Ends, Failures
<1>7. QED
  BY <1>1, <1>2, <1>3, <1>4, <1>5, <1>6 DEF Next, Work

LEMMA MeanwhileStep == RebuildInv /\ Meanwhile => RebuildInv'
<1> SUFFICES ASSUME RebuildInv, Meanwhile PROVE RebuildInv'
  OBVIOUS
<1> USE DEF RebuildInv
<1>0. /\ script.want \in [Keys -> Values \ {Stub}]
      /\ script.at \in Nat /\ script.extraAt \in Nat
      /\ script.quiet \in BOOLEAN /\ script \in Script
  BY ScriptFacts DEF ScriptOK
<1> DEFINE q == script.quiet /\ pg' = pg /\ neo' = neo
<1>1. /\ script' = [script EXCEPT !.quiet = q] /\ Next
  BY DEF Meanwhile
<1>2. /\ script' \in Script /\ script'.quiet = q
      /\ script'.pc = script.pc /\ script'.mode = script.mode /\ script'.want = script.want
      /\ script'.at = script.at /\ script'.extra = script.extra /\ script'.extraAt = script.extraAt
      /\ script'.merge = script.merge /\ script'.clean = script.clean
  <2>1. q \in BOOLEAN
    OBVIOUS
  <2> HIDE DEF q
  <2>2. QED
    BY <1>0, <1>1, <2>1 DEF Script
<1>3. DrainInv'
  BY <1>1, StepDrain
<1>4. /\ last \in Nat /\ last' \in Nat /\ last <= last'
      /\ \A r \in 1 .. last : log'[r] = log[r]
      /\ \A r \in 1 .. last' : log'[r].op = "invalid" => r \in 1 .. last
      /\ Sound(pg')
      /\ \A k \in Keys, r \in 1 .. last : LastWrite(r, k)' => LastWrite(r, k)
  BY <1>1, NextLog
<1>5. ASSUME NEW n \in Nat, n <= last, NEW k, NEW v, AsOf(n, k, v) PROVE AsOf(n, k, v)'
  <2>1. \A r \in 1 .. n : log'[r] = log[r]
    BY <1>4, <1>5
  <2>2. QED
    BY <1>5, <2>1, AsOfStays
<1>6. Snapshots'
  <2>1. Comparing' <=> Comparing
    BY <1>2 DEF Comparing
  <2>2. Comparing => /\ script.at <= last /\ Sound(script.want)
                     /\ \A k \in Keys : AsOf(script.at, k, script.want[k])
    BY DEF Snapshots
  <2>3. Comparing => \A k \in Keys : AsOf(script.at, k, script.want[k])'
    BY <1>0, <1>2, <1>5, <2>2
  <2>4. script.pc \in {"again", "repair"} =>
            /\ script.extraAt <= last
            /\ \A k \in script.extra : \A j \in Removed(k) : AsOf(script.extraAt, j, Absent)
    BY DEF Snapshots
  <2>5. script.pc \in {"again", "repair"} =>
            \A k \in script.extra : \A j \in Removed(k) : AsOf(script.extraAt, j, Absent)'
    BY <1>0, <1>2, <1>5, <2>4
  <2>6. script.pc = "repair" => \A k \in script.merge : script.want[k] # Absent
    BY DEF Snapshots
  <2>7. QED
    BY <1>0, <1>2, <1>4, <2>1, <2>2, <2>3, <2>4, <2>5, <2>6 DEF Snapshots
<1>7. OnlyUnreadableDie'
  <2>1. \A r \in 1 .. last' : log'[r].op = "invalid" => r = 1 /\ (Comparing' => script'.at >= 1)
    BY <1>2, <1>4 DEF OnlyUnreadableDie, Comparing
  <2>2. \A r \in 1 .. last' : row'[r].status = "dead" => log'[r].op = "invalid"
    BY <1>1, <1>4, NextDead
  <2>3. \A w \in Workers, r \in RowIds : pass'[w][r] = "permanent" => log'[r].op = "invalid"
    BY <1>1, <1>4, NextDead
  <2>4. QED
    BY <2>1, <2>2, <2>3 DEF OnlyUnreadableDie
<1>8. Resolvable'
  <2> SUFFICES ASSUME (script.pc = "record" /\ script.clean) \/ script.pc = "resolve",
                      NEW k \in Keys, NEW r \in 1 .. last', LastWrite(r, k)', log'[r].op = "invalid"
               PROVE  Shows(neo', k) = log'[r].content
    BY <1>2 DEF Resolvable, Shows
  <2>1. r \in 1 .. last /\ log'[r] = log[r] /\ LastWrite(r, k)
    BY <1>4
  <2>2. Shows(neo, k) = log[r].content
    BY <2>1 DEF Resolvable
  <2>3. r = 1
    BY <2>1 DEF OnlyUnreadableDie
  <2>4. \A s \in 1 .. last : log[s].op # "invalid" => ~Touches(log[s], k)
    BY <2>1, <2>3 DEF LastWrite
  <2>5. Shows(neo', k) = Shows(neo, k)
    BY <1>1, <2>4, NextGraph
  <2>6. QED
    BY <2>1, <2>2, <2>5
<1>9. OnlyTheScript'
  BY <1>2 DEF OnlyTheScript, Comparing, Agrees, Shows
<1>10. ScriptOK'
  BY <1>2 DEF ScriptOK
<1>11. Sound(pg)'
  BY <1>4 DEF Sound
<1>12. QED
  BY <1>3, <1>6, <1>7, <1>8, <1>9, <1>10, <1>11

-----------------------------------------------------------------------------
(* What the script does                                                    *)

LEMMA NoScriptFacts ==
    /\ NoScript \in Script /\ NoScript.pc = "idle" /\ NoScript.clean = FALSE /\ NoScript.quiet = FALSE
    /\ LET resolving == [NoScript EXCEPT !.pc = "resolve"] IN
       resolving \in Script /\ resolving.pc = "resolve" /\ resolving.quiet = FALSE
<1>1. Nothing \in Tables
  BY DEF Nothing, Tables, Values, Absent, Stub
<1>2. 0 \in 0 .. MaxRows
  BY GraphAssumption
<1>3. QED
  BY <1>1, <1>2 DEF NoScript, Script

\* Where a run of the script ends, or has only the dead rows left.
LEMMA ScriptEnds ==
    ASSUME RebuildInv, DrainInv', UNCHANGED <<pg, last, log, neo, pass>>,
           \A r \in 1 .. last : row'[r].status = "dead" => row[r].status = "dead",
           \/ script' = NoScript
           \/ /\ script' = [NoScript EXCEPT !.pc = "resolve"]
              /\ (script.pc = "record" /\ script.clean) \/ script.pc = "resolve"
    PROVE  RebuildInv'
<1>1. ScriptOK' /\ script'.pc \in {"idle", "resolve"} /\ script'.quiet = FALSE
  BY NoScriptFacts DEF ScriptOK
<1>2. Snapshots' /\ OnlyTheScript'
  BY <1>1 DEF Snapshots, OnlyTheScript, Comparing
<1>3. OnlyUnreadableDie'
  BY <1>1 DEF OnlyUnreadableDie, RebuildInv, Comparing
<1>4. Resolvable'
  <2> SUFFICES ASSUME NEW k \in Keys, NEW r \in 1 .. last, LastWrite(r, k)', log[r].op = "invalid",
                      script'.pc = "resolve"
               PROVE  Shows(neo, k) = log[r].content
    BY <1>1 DEF Resolvable, Shows
  <2>1. (script.pc = "record" /\ script.clean) \/ script.pc = "resolve"
    BY NoScriptFacts
  <2>2. LastWrite(r, k)
    BY DEF LastWrite
  <2>3. QED
    BY <2>1, <2>2 DEF RebuildInv, Resolvable
<1>5. QED
  BY <1>1, <1>2, <1>3, <1>4 DEF RebuildInv, Sound

\* A step of the script that only looks.
LEMMA AloneFacts ==
    ASSUME RebuildInv, Alone
    PROVE  /\ DrainInv' /\ Sound(pg)'
           /\ pg' = pg /\ last' = last /\ log' = log /\ row' = row /\ neo' = neo /\ pass' = pass
           /\ \A n, k, v : AsOf(n, k, v)' <=> AsOf(n, k, v)
<1>1. UNCHANGED vars
  BY DEF Alone
<1>2. DrainInv'
  BY <1>1, StepDrain DEF RebuildInv
<1>3. pg' = pg /\ last' = last /\ log' = log /\ row' = row /\ neo' = neo /\ pass' = pass
  BY <1>1 DEF vars
<1>4. QED
  BY <1>2, <1>3 DEF AsOf, RebuildInv, Sound

LEMMA UnreadableStays ==
    ASSUME RebuildInv, UNCHANGED <<last, log, row, pass>>,
           (script'.at = script.at /\ (Comparing' => Comparing)) \/ script'.at = last
    PROVE  OnlyUnreadableDie'
<1>1. \A r \in 1 .. last : last >= 1
  BY GraphAssumption, TypeParts DEF RebuildInv, DrainInv, LogOK
<1>2. QED
  BY <1>1 DEF OnlyUnreadableDie, RebuildInv

LEMMA StartStep ==
    ASSUME RebuildInv, NEW mode \in {"check", "before"}, StartScript(mode)
    PROVE  RebuildInv'
<1>0. script \in Script /\ pg \in Tables /\ last \in 0 .. MaxRows
  BY TypeParts DEF RebuildInv, ScriptOK, DrainInv, GraphsOK, LogOK, Tables
<1>1. /\ script' \in Script /\ script'.pc = "expected" /\ script'.mode = mode
      /\ script'.want = pg /\ script'.at = last
  BY <1>0 DEF StartScript, ReadTables, Script
<1>2. /\ DrainInv' /\ Sound(pg)'
      /\ pg' = pg /\ last' = last /\ log' = log /\ row' = row /\ neo' = neo /\ pass' = pass
      /\ \A n, k, v : AsOf(n, k, v)' <=> AsOf(n, k, v)
  BY AloneFacts DEF StartScript
<1>3. Snapshots'
  BY <1>0, <1>1, <1>2, AsOfNow DEF Snapshots, RebuildInv, DrainInv, Comparing
<1>4. OnlyUnreadableDie'
  BY <1>1, <1>2, UnreadableStays
<1>5. Resolvable' /\ OnlyTheScript'
  BY <1>1, <1>2 DEF Resolvable, OnlyTheScript, Comparing
<1>6. QED
  BY <1>1, <1>2, <1>3, <1>4, <1>5 DEF RebuildInv, ScriptOK

\* A comparison without a difference has found the unreadable row in the graph.
LEMMA ReportStep ==
    ASSUME RebuildInv, CompareToReport
    PROVE  RebuildInv'
<1>0. script \in Script /\ script.pc = "expected" /\ script.mode # "before"
  BY DEF RebuildInv, ScriptOK, CompareToReport, At
<1>1. /\ script' \in Script /\ script'.pc = "record" /\ script'.mode = script.mode
      /\ script'.want = script.want /\ script'.at = script.at /\ script'.quiet = script.quiet
      /\ script'.clean = (Missing = {})
  <2> DEFINE c == Missing = {}
  <2>1. c \in BOOLEAN /\ script' = [script EXCEPT !.pc = "record", !.clean = c]
    BY DEF CompareToReport
  <2> HIDE DEF c
  <2>2. /\ script' \in Script /\ script'.pc = "record" /\ script'.mode = script.mode
        /\ script'.want = script.want /\ script'.at = script.at /\ script'.quiet = script.quiet
        /\ script'.clean = c
    BY <1>0, <2>1 DEF Script
  <2>3. QED
    BY <2>2 DEF c
<1>2. /\ DrainInv' /\ Sound(pg)'
      /\ pg' = pg /\ last' = last /\ log' = log /\ row' = row /\ neo' = neo /\ pass' = pass
      /\ \A n, k, v : AsOf(n, k, v)' <=> AsOf(n, k, v)
  BY AloneFacts DEF CompareToReport
<1>3. Comparing /\ Comparing'
  BY <1>0, <1>1 DEF Comparing
<1>4. /\ script.at <= last /\ Sound(script.want)
      /\ \A k \in Keys : AsOf(script.at, k, script.want[k])
  BY <1>3 DEF RebuildInv, Snapshots
<1>5. Snapshots'
  BY <1>1, <1>2, <1>4 DEF Snapshots
<1>6. OnlyUnreadableDie'
  BY <1>1, <1>2, <1>3, UnreadableStays
<1>7. Resolvable'
  <2> SUFFICES ASSUME Missing = {}, NEW k \in Keys, NEW r \in 1 .. last, LastWrite(r, k)',
                      log[r].op = "invalid"
               PROVE  Shows(neo, k) = log[r].content
    BY <1>1, <1>2 DEF Resolvable, Shows
  <2>1. Shows(neo, k) = script.want[k]
    BY DEF Missing
  <2>2. r = 1 /\ script.at >= 1
    BY <1>3 DEF RebuildInv, OnlyUnreadableDie
  <2>3. Touches(log[r], k) /\ \A s \in 1 .. last : s > r => ~Touches(log[s], k)
    BY <1>2 DEF LastWrite
  <2>4. script.at \in Nat /\ last \in Nat
    BY ScriptFacts, TypeParts, GraphAssumption DEF RebuildInv, DrainInv, LogOK
  <2>5. /\ r \in 1 .. script.at
        /\ \A s \in 1 .. script.at : s \in 1 .. last /\ (s # r => s > r)
    BY <1>4, <2>2, <2>4
  <2>6. script.want[k] = log[r].content
    BY <1>4, <2>3, <2>5 DEF AsOf
  <2>7. QED
    BY <2>1, <2>6
<1>8. OnlyTheScript'
  <2> SUFFICES ASSUME script.quiet
               PROVE  /\ script.want = pg
                      /\ script.mode = "after" => Agrees
                      /\ (Missing = {}) <=> Agrees
    BY <1>1, <1>2, <1>3 DEF OnlyTheScript, Agrees, Shows
  <2>1. script.want = pg /\ (script.mode = "after" => Agrees)
    BY DEF RebuildInv, OnlyTheScript
  <2>2. QED
    BY <2>1 DEF Missing, Agrees
<1>9. QED
  BY <1>1, <1>2, <1>5, <1>6, <1>7, <1>8 DEF RebuildInv, ScriptOK

\* What is too much in the graph was not in the tables, nor what links it.
LEMMA ToRepairStep ==
    ASSUME RebuildInv, CompareToRepair
    PROVE  RebuildInv'
<1>0. script \in Script /\ script.pc = "expected" /\ script.mode = "before"
  BY DEF RebuildInv, ScriptOK, CompareToRepair, At
<1>1. /\ script' \in Script /\ script'.pc = "again" /\ script'.mode = script.mode
      /\ script'.want = script.want /\ script'.at = script.at /\ script'.quiet = script.quiet
      /\ script'.extra = Extra /\ script'.extraAt = script.at
  <2>1. Extra \in SUBSET Keys
    BY DEF Extra, Missing
  <2>2. script' = [script EXCEPT !.pc = "again", !.extra = Extra, !.extraAt = script.at]
    BY DEF CompareToRepair
  <2>3. QED
    BY <1>0, <2>1, <2>2 DEF Script
<1>2. /\ DrainInv' /\ Sound(pg)'
      /\ pg' = pg /\ last' = last /\ log' = log /\ row' = row /\ neo' = neo /\ pass' = pass
      /\ \A n, k, v : AsOf(n, k, v)' <=> AsOf(n, k, v)
  BY AloneFacts DEF CompareToRepair
<1>3. Comparing /\ Comparing'
  BY <1>0, <1>1 DEF Comparing
<1>4. /\ script.at <= last /\ Sound(script.want)
      /\ \A k \in Keys : AsOf(script.at, k, script.want[k])
  BY <1>3 DEF RebuildInv, Snapshots
<1>5. ASSUME NEW k \in Extra, NEW j \in Removed(k) PROVE AsOf(script.at, j, Absent)
  <2>1. k \in Keys /\ script.want[k] = Absent /\ j \in Keys
    BY DEF Extra, Missing, Removed
  <2>2. script.want[j] = Absent
    BY <1>4, <2>1, SoundFacts DEF Removed, Incident, Sound
  <2>3. QED
    BY <1>4, <2>1, <2>2
<1>6. Snapshots'
  BY <1>1, <1>2, <1>4, <1>5 DEF Snapshots, Removed
<1>7. OnlyUnreadableDie'
  BY <1>1, <1>2, <1>3, UnreadableStays
<1>8. Resolvable'
  BY <1>1 DEF Resolvable
<1>9. OnlyTheScript'
  <2> SUFFICES ASSUME script.quiet
               PROVE  /\ script.want = pg
                      /\ \A k \in Extra : pg[k] = Absent
                      /\ \A k \in Keys : pg[k] = Absent => Shows(neo, k) = Absent \/ k \in Extra
    BY <1>0, <1>1, <1>2, <1>3 DEF OnlyTheScript, Shows
  <2>1. script.want = pg
    BY DEF RebuildInv, OnlyTheScript
  <2>2. QED
    BY <2>1 DEF Extra, Missing
<1>10. QED
  BY <1>1, <1>2, <1>6, <1>7, <1>8, <1>9 DEF RebuildInv, ScriptOK

LEMMA ReadAgainStep ==
    ASSUME RebuildInv, ReadAgain
    PROVE  RebuildInv'
<1>0. script \in Script /\ script.pc = "again" /\ pg \in Tables /\ last \in 0 .. MaxRows
  BY TypeParts DEF RebuildInv, ScriptOK, ReadAgain, At, DrainInv, GraphsOK, LogOK, Tables
<1>1. /\ script' \in Script /\ script'.pc = "repair" /\ script'.mode = "before"
      /\ script'.want = pg /\ script'.at = last /\ script'.quiet = script.quiet
      /\ script'.extra = script.extra /\ script'.extraAt = script.extraAt /\ script'.merge = Wanted
  <2>1. Wanted \in SUBSET Keys
    BY DEF Wanted
  <2>2. script' = [script EXCEPT !.pc = "repair", !.mode = "before", !.want = pg, !.at = last, !.merge = Wanted]
    BY <1>0 DEF ReadAgain, ReadTables, Script
  <2>3. QED
    BY <1>0, <2>1, <2>2 DEF Script
<1>2. /\ DrainInv' /\ Sound(pg)'
      /\ pg' = pg /\ last' = last /\ log' = log /\ row' = row /\ neo' = neo /\ pass' = pass
      /\ \A n, k, v : AsOf(n, k, v)' <=> AsOf(n, k, v)
  BY AloneFacts DEF ReadAgain
<1>3. Snapshots'
  <2>1. /\ script.extraAt <= last
        /\ \A k \in script.extra : \A j \in Removed(k) : AsOf(script.extraAt, j, Absent)
    BY <1>0 DEF RebuildInv, Snapshots
  <2>2. \A k \in Keys : AsOf(last, k, pg[k])
    BY AsOfNow DEF RebuildInv, DrainInv
  <2>3. Sound(pg) /\ \A k \in Wanted : pg[k] # Absent
    BY DEF RebuildInv, Wanted
  <2>4. QED
    BY <1>0, <1>1, <1>2, <2>1, <2>2, <2>3 DEF Snapshots, Removed
<1>4. OnlyUnreadableDie'
  BY <1>1, <1>2, UnreadableStays
<1>5. Resolvable'
  BY <1>1 DEF Resolvable
<1>6. OnlyTheScript'
  <2> SUFFICES ASSUME script.quiet
               PROVE  /\ \A k \in script.extra : pg[k] = Absent
                      /\ \A k \in Keys : Shows(neo, k) = pg[k] \/ k \in script.extra \/ k \in Wanted
    BY <1>1, <1>2 DEF OnlyTheScript, Comparing, Shows
  <2>1. QED
    BY <1>0 DEF RebuildInv, OnlyTheScript, Wanted
<1>7. QED
  BY <1>1, <1>2, <1>3, <1>4, <1>5, <1>6 DEF RebuildInv, ScriptOK

LEMMA CompareAgainStep ==
    ASSUME RebuildInv, CompareAgain
    PROVE  RebuildInv'
<1>0. /\ script \in Script /\ script.pc = "repair" /\ script.extra = {} /\ script.merge = {}
      /\ pg \in Tables /\ last \in 0 .. MaxRows
  BY TypeParts DEF RebuildInv, ScriptOK, CompareAgain, At, DrainInv, GraphsOK, LogOK, Tables
<1>1. /\ script' \in Script /\ script'.pc = "expected" /\ script'.mode = "after"
      /\ script'.want = pg /\ script'.at = last /\ script'.quiet = script.quiet
  BY <1>0 DEF CompareAgain, ReadTables, Script
<1>2. /\ DrainInv' /\ Sound(pg)'
      /\ pg' = pg /\ last' = last /\ log' = log /\ row' = row /\ neo' = neo /\ pass' = pass
      /\ \A n, k, v : AsOf(n, k, v)' <=> AsOf(n, k, v)
  BY AloneFacts DEF CompareAgain
<1>3. Snapshots'
  BY <1>0, <1>1, <1>2, AsOfNow DEF Snapshots, RebuildInv, DrainInv, Comparing
<1>4. OnlyUnreadableDie'
  BY <1>1, <1>2, UnreadableStays
<1>5. script.quiet => Agrees
  BY <1>0 DEF RebuildInv, OnlyTheScript, Agrees
<1>6. Resolvable' /\ OnlyTheScript'
  BY <1>1, <1>2, <1>5 DEF Resolvable, OnlyTheScript, Comparing, Agrees, Shows
<1>7. QED
  BY <1>1, <1>2, <1>3, <1>4, <1>6 DEF RebuildInv, ScriptOK

\* A payload of the script: it repeats what it has read of the keys it decides,
\* and takes them from what is left to do.
LEMMA RepairStep ==
    ASSUME RebuildInv, script.pc = "repair", NEW p \in Payload, NEW at \in 0 .. last, Repairs(p, at),
           \A j \in Keys : Touches(p, j) => AsOf(at, j, p.content),
           script.quiet => \A j \in Keys : Touches(p, j) => pg[j] = p.content,
           ScriptOK', script'.pc = "repair", script'.mode = script.mode, script'.quiet = script.quiet,
           script'.want = script.want, script'.at = script.at, script'.extraAt = script.extraAt,
           script'.extra \subseteq script.extra, script'.merge \subseteq script.merge,
           \A j \in Keys : ~Touches(p, j) => /\ j \in script.extra => j \in script'.extra
                                             /\ j \in script.merge => j \in script'.merge
    PROVE  RebuildInv'
<1>1. /\ pg' = pg /\ last' = last /\ log' = log /\ row' = row /\ pass' = pass
      /\ \A n, k, v : AsOf(n, k, v)' <=> AsOf(n, k, v)
  BY DEF Repairs, AsOf
<1>2. DrainInv'
  BY ScriptLands DEF RebuildInv, Repairs
<1>3. \A k \in Keys : Shows(neo', k) = IF Touches(p, k) THEN p.content ELSE Shows(neo, k)
  BY AppliedShows, TypeParts DEF RebuildInv, DrainInv, GraphsOK, Repairs, Lands
<1>4. Comparing /\ Comparing'
  BY DEF Comparing
<1>5. Snapshots'
  <2>1. /\ script.at <= last /\ Sound(script.want)
        /\ \A k \in Keys : AsOf(script.at, k, script.want[k])
        /\ script.extraAt <= last
        /\ \A k \in script.extra : \A j \in Removed(k) : AsOf(script.extraAt, j, Absent)
        /\ \A k \in script.merge : script.want[k] # Absent
    BY <1>4 DEF RebuildInv, Snapshots
  <2>2. QED
    BY <1>1, <2>1 DEF Snapshots, Removed
<1>6. OnlyUnreadableDie'
  BY <1>1, <1>4, UnreadableStays
<1>7. Resolvable'
  BY DEF Resolvable
<1>8. OnlyTheScript'
  <2> SUFFICES ASSUME script.quiet
               PROVE  /\ script.want = pg /\ script.mode # "after"
                      /\ \A k \in script.extra : pg[k] = Absent
                      /\ \A k \in Keys : Shows(neo', k) = pg[k] \/ k \in script'.extra \/ k \in script'.merge
    BY <1>1, <1>4 DEF OnlyTheScript, Shows
  <2>1. /\ script.want = pg /\ script.mode # "after"
        /\ \A k \in script.extra : pg[k] = Absent
        /\ \A k \in Keys : Shows(neo, k) = pg[k] \/ k \in script.extra \/ k \in script.merge
    BY DEF RebuildInv, OnlyTheScript
  <2>2. QED
    BY <1>3, <2>1
<1>9. QED
  BY <1>1, <1>2, <1>5, <1>6, <1>7, <1>8 DEF RebuildInv, Sound

LEMMA RemoveStep ==
    ASSUME RebuildInv, NEW k \in Keys, RemoveExtra(k)
    PROVE  RebuildInv'
<1> DEFINE p == [op |-> IF k \in Nodes THEN "node_delete" ELSE "edge_delete", key |-> k, content |-> Absent]
<1>0. /\ script \in Script /\ script.pc = "repair" /\ k \in script.extra
      /\ Repairs(p, script.extraAt)
  BY DEF RebuildInv, ScriptOK, RemoveExtra, At, First
<1>1. /\ script' \in Script /\ script'.pc = "repair" /\ script'.mode = script.mode
      /\ script'.quiet = script.quiet /\ script'.want = script.want /\ script'.at = script.at
      /\ script'.extraAt = script.extraAt /\ script'.merge = script.merge
      /\ script'.extra = script.extra \ {k}
  <2>1. script' = [script EXCEPT !.extra = script.extra \ {k}]
    BY DEF RemoveExtra
  <2>2. script.extra \ {k} \in SUBSET Keys
    BY ScriptFacts DEF RebuildInv
  <2>3. QED
    BY <1>0, <2>1, <2>2 DEF Script
<1>2. p \in Payload /\ p.content = Absent
  BY SoundFacts DEF Payload
<1>3. \A j \in Keys : Touches(p, j) <=> j \in Removed(k)
  BY DEF Touches, Removed
<1>4. /\ script.extraAt \in 0 .. last
      /\ \A j \in Removed(k) : AsOf(script.extraAt, j, Absent)
  <2>1. script.extraAt <= last /\ \A j \in Removed(k) : AsOf(script.extraAt, j, Absent)
    BY <1>0 DEF RebuildInv, Snapshots
  <2>2. script.extraAt \in Nat /\ last \in Nat
    BY ScriptFacts, TypeParts, GraphAssumption DEF RebuildInv, DrainInv, LogOK
  <2>3. QED
    BY <2>1, <2>2
<1>5. script.quiet => \A j \in Removed(k) : pg[j] = Absent
  <2>1. script.quiet => pg[k] = Absent
    BY <1>0 DEF RebuildInv, OnlyTheScript
  <2>2. Sound(pg)
    BY DEF RebuildInv
  <2>3. QED
    BY <2>1, <2>2, SoundFacts DEF Removed, Incident, Sound
<1> HIDE DEF p
<1>6. \A j \in Keys : ~Touches(p, j) => j # k
  BY <1>3 DEF Removed
<1>7. QED
  BY <1>0, <1>1, <1>2, <1>3, <1>4, <1>5, <1>6, RepairStep DEF ScriptOK

LEMMA MergeStep ==
    ASSUME RebuildInv, NEW k \in Keys, MergeWanted(k)
    PROVE  RebuildInv'
<1> DEFINE v == script.want[k]
           p == [op |-> IF k \in Nodes THEN "node" ELSE "edge", key |-> k, content |-> v]
<1>0. /\ script \in Script /\ script.pc = "repair" /\ script.extra = {} /\ k \in script.merge
      /\ Repairs(p, script.at)
  BY DEF RebuildInv, ScriptOK, MergeWanted, At, First
<1>1. /\ script' \in Script /\ script'.pc = "repair" /\ script'.mode = script.mode
      /\ script'.quiet = script.quiet /\ script'.want = script.want /\ script'.at = script.at
      /\ script'.extraAt = script.extraAt /\ script'.extra = script.extra
      /\ script'.merge = script.merge \ {k}
  <2>1. script' = [script EXCEPT !.merge = script.merge \ {k}]
    BY DEF MergeWanted
  <2>2. script.merge \ {k} \in SUBSET Keys
    BY ScriptFacts DEF RebuildInv
  <2>3. QED
    BY <1>0, <2>1, <2>2 DEF Script
<1>2. /\ script.at <= last /\ Sound(script.want) /\ AsOf(script.at, k, v) /\ v # Absent
  BY <1>0 DEF RebuildInv, Snapshots, Comparing
<1>3. script.at \in 0 .. last
  <2>1. script.at \in Nat /\ last \in Nat
    BY ScriptFacts, TypeParts, GraphAssumption DEF RebuildInv, DrainInv, LogOK
  <2>2. QED
    BY <1>2, <2>1
<1>4. p \in Payload
  <2>1. v \in Contents
    BY <1>2, ScriptFacts, SoundFacts DEF RebuildInv
  <2>2. CASE k \in Nodes
    BY <2>1, <2>2 DEF Payload
  <2>3. CASE k \notin Nodes
    <3>1. k \in Edges /\ v = Linked
      BY <1>2, <2>3, SoundFacts DEF Sound
    <3>2. QED
      BY <2>3, <3>1 DEF Payload
  <2>4. QED
    BY <2>2, <2>3
<1>5. p.content = v /\ \A j \in Keys : Touches(p, j) <=> j = k
  BY DEF Touches
<1>6. script.quiet => pg[k] = v
  BY DEF RebuildInv, OnlyTheScript
<1> HIDE DEF p, v
<1>7. QED
  BY <1>0, <1>1, <1>2, <1>3, <1>4, <1>5, <1>6, RepairStep DEF ScriptOK

\* What overtook what is forgotten only when the graph is the tables.
LEMMA RecordStep ==
    ASSUME RebuildInv, RecordOutcome
    PROVE  RebuildInv'
<1> USE TypeParts
<1>1. /\ script.pc = "record" /\ reordered' = (reordered /\ ~Repaired)
      /\ UNCHANGED <<pg, last, log, row, neo, pass>>
  BY DEF RecordOutcome, At
<1>2. TypeOK'
  BY <1>1, TypePartsNext DEF RebuildInv, DrainInv, GraphsOK, LogOK, RowsOK, PassOK, HistoryOK, HeldOnce
<1>3. /\ \A k \in Keys, r \in 1 .. last : LastWrite(r, k)' <=> LastWrite(r, k)
      /\ \A k \in Keys : NeverWritten(k)' <=> NeverWritten(k)
      /\ \A r \in 1 .. last : Landed(r)' <=> Landed(r)
  BY <1>1 DEF LastWrite, NeverWritten, Landed, Behind
<1>4. LogIsCanonical'
  BY <1>1, <1>3 DEF LogIsCanonical, RebuildInv, DrainInv
<1>5. Repaired => Agrees
  BY <1>1 DEF Repaired, RebuildInv, OnlyTheScript
<1>6. ASSUME NEW k \in Keys, ~reordered', NEW r \in 1 .. last, LastWrite(r, k), Landed(r)
      PROVE  Shows(neo, k) = log[r].content
  <2>1. CASE ~reordered
    BY <1>6, <2>1 DEF RebuildInv, DrainInv, GraphFollows
  <2>2. CASE Repaired
    <3>1. Shows(neo, k) = pg[k]
      BY <1>5, <2>2 DEF Agrees
    <3>2. PICK s \in 1 .. last : LastWrite(s, k) /\ pg[k] = log[s].content
      BY <1>6 DEF RebuildInv, DrainInv, LogIsCanonical, LastWrite, NeverWritten
    <3>3. s = r
      BY <1>6, <3>2, GraphAssumption DEF LastWrite, RebuildInv, DrainInv, LogOK
    <3>4. QED
      BY <3>1, <3>2, <3>3
  <2>3. QED
    BY <1>1, <1>6, <2>1, <2>2
<1>7. GraphFollows'
  <2>1. \A k \in Keys : NeverWritten(k) => Shows(neo, k) = Origin[k]
    BY DEF RebuildInv, DrainInv, GraphFollows
  <2>2. QED
    BY <1>1, <1>3, <1>6, <2>1 DEF GraphFollows, Shows
<1>8. DrainInv'
  BY <1>2, <1>4, <1>7 DEF DrainInv
<1>9. QED
  BY <1>1, <1>8, ScriptEnds DEF RecordOutcome

\* The row that is resolved is in the graph as if it had landed.
LEMMA ResolveStep ==
    ASSUME RebuildInv, ResolveDeadLetter
    PROVE  RebuildInv'
<1> USE TypeParts
<1>1. /\ script.pc = "resolve" /\ UNCHANGED <<pg, last, log, neo, pass, reordered>>
      /\ script' = NoScript
      /\ row' = [r \in 1 .. last |->
                    IF row[r].status = "dead" THEN [row[r] EXCEPT !.status = "resolved"] ELSE row[r]]
  BY DEF ResolveDeadLetter, At
<1>2. row \in [1 .. last -> Row] /\ \A r \in 1 .. last : CountersOK(row[r].counters)
  BY DEF RebuildInv, DrainInv, RowsOK
<1>3. ASSUME NEW r \in 1 .. last
      PROVE  /\ row'[r] \in Row /\ row'[r].counters = row[r].counters
             /\ row'[r].status = IF row[r].status = "dead" THEN "resolved" ELSE row[r].status
  <2>1. row[r] \in Row /\ row'[r] = IF row[r].status = "dead" THEN [row[r] EXCEPT !.status = "resolved"] ELSE row[r]
    BY <1>1, <1>2
  <2>2. QED
    BY <2>1 DEF Row
<1>4. TypeOK'
  <2>1. RowsOK'
    BY <1>1, <1>2, <1>3 DEF RowsOK
  <2>2. HeldOnce'
    BY <1>1, <1>3 DEF RebuildInv, DrainInv, HeldOnce, LogOK, RowIds
  <2>3. QED
    BY <1>1, <2>1, <2>2, TypePartsNext DEF RebuildInv, DrainInv, GraphsOK, LogOK, PassOK, HistoryOK
<1>5. /\ \A k \in Keys, r \in 1 .. last : LastWrite(r, k)' <=> LastWrite(r, k)
      /\ \A k \in Keys : NeverWritten(k)' <=> NeverWritten(k)
  BY <1>1 DEF LastWrite, NeverWritten
<1>6. LogIsCanonical'
  BY <1>1, <1>5 DEF LogIsCanonical, RebuildInv, DrainInv
<1>7. \A r \in 1 .. last : Landed(r)' => Landed(r) \/ log[r].op = "invalid"
  BY <1>1, <1>3 DEF Landed, Behind, RebuildInv, OnlyUnreadableDie
<1>8. GraphFollows'
  BY <1>1, <1>5, <1>7 DEF GraphFollows, Shows, RebuildInv, DrainInv, Resolvable
<1>9. DrainInv'
  BY <1>4, <1>6, <1>8 DEF DrainInv
<1>10. QED
  BY <1>1, <1>3, <1>9, ScriptEnds

LEMMA InitRebuild == RebuildInit => RebuildInv
<1> SUFFICES ASSUME RebuildInit PROVE RebuildInv
  OBVIOUS
<1>1. /\ Init /\ script = NoScript /\ ScriptOK /\ script.pc = "idle"
      /\ script.clean = FALSE /\ script.quiet = FALSE
  BY NoScriptFacts DEF RebuildInit, ScriptOK
<1>2. DrainInv
  BY <1>1, InitDrain
<1>3. Sound(pg)
  <2>1. Sound(Origin)
    BY SoundFacts DEF Sound, Origin, Nothing, Linked
  <2>2. CASE Start = "unreadable"
    <3>1. PICK n \in Nodes : pg = [Origin EXCEPT ![n] = 1]
      BY <1>1, <2>2 DEF Init, InitLog
    <3>2. \A e \in Edges : pg[e] = Absent
      BY <2>2, <3>1, SoundFacts DEF Origin, Nothing
    <3>3. QED
      BY <3>2, SoundFacts DEF Sound
  <2>3. CASE Start # "unreadable"
    BY <1>1, <2>1, <2>3 DEF Init, InitLog
  <2>4. QED
    BY <2>2, <2>3
<1>4. OnlyUnreadableDie
  <2>1. \A r \in 1 .. last : r = 1 /\ row[r].status = "queued"
    BY <1>1 DEF Init, InitLog, New
  <2>2. \A w \in Workers, r \in RowIds : pass[w][r] = "none"
    BY <1>1 DEF Init
  <2>3. QED
    BY <1>1, <2>1, <2>2 DEF OnlyUnreadableDie, Comparing
<1>5. Snapshots /\ Resolvable /\ OnlyTheScript
  BY <1>1 DEF Snapshots, Resolvable, OnlyTheScript, Comparing
<1>6. QED
  BY <1>1, <1>2, <1>3, <1>4, <1>5 DEF RebuildInv

LEMMA RebuildStep == RebuildInv /\ [RebuildNext]_rebuildVars => RebuildInv'
<1> SUFFICES ASSUME RebuildInv, [RebuildNext]_rebuildVars PROVE RebuildInv'
  OBVIOUS
<1>1. CASE UNCHANGED rebuildVars
  <2>1. Alone /\ script' = script
    BY <1>1 DEF rebuildVars, Alone
  <2>2. /\ DrainInv' /\ Sound(pg)'
        /\ pg' = pg /\ last' = last /\ log' = log /\ row' = row /\ neo' = neo /\ pass' = pass
        /\ \A n, k, v : AsOf(n, k, v)' <=> AsOf(n, k, v)
    BY <2>1, AloneFacts
  <2>3. Snapshots' /\ OnlyUnreadableDie'
    BY <2>1, <2>2 DEF RebuildInv, Snapshots, OnlyUnreadableDie, Comparing, Removed
  <2>4. Resolvable' /\ OnlyTheScript'
    BY <2>1, <2>2 DEF RebuildInv, Resolvable, OnlyTheScript, Comparing, LastWrite, Agrees, Shows
  <2>5. QED
    BY <2>1, <2>2, <2>3, <2>4 DEF RebuildInv, ScriptOK
<1>2. CASE ScriptDies
  BY <1>2, AloneFacts, ScriptEnds DEF ScriptDies
<1>3. QED
  BY <1>1, <1>2, MeanwhileStep, StartStep, ReportStep, ToRepairStep, ReadAgainStep, CompareAgainStep,
     RemoveStep, MergeStep, RecordStep, ResolveStep DEF RebuildNext, ScriptNext

LEMMA RebuildAlways == RebuildSpec => []RebuildInv
<1>1. QED
  BY InitRebuild, RebuildStep, PTL DEF RebuildSpec

\* A repair that nobody disturbs ends with the graph of the tables and says so,
\* from any graph the queue and earlier repairs can have left.
THEOREM QuietRepair == RebuildSpec => []QuietRebuildRepairs
<1>1. RebuildInv => QuietRebuildRepairs
  BY DEF RebuildInv, OnlyTheScript, QuietRebuildRepairs, At
<1>2. QED
  BY <1>1, RebuildAlways, PTL

\* Repairs that go on while transactions commit and workers drain, with what they
\* have read long out of date, leave a drained queue with the graph of the tables
\* unless they overtook a later row; nor do rows resolved without having landed.
THEOREM DrainedBesideScript == RebuildSpec => []DrainedGraphIsCanonical
<1>1. RebuildInv => DrainedGraphIsCanonical
  BY DrainedFromInv DEF RebuildInv
<1>2. QED
  BY <1>1, RebuildAlways, PTL
================================================================================
