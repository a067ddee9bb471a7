------------------------------ MODULE BpmnCompiler ------------------------------
(***************************************************************************)
(* How a plan becomes the control flow of a drawing (bpmn/compiler.py,     *)
(* bpmn/flow_registry.py) and what the analysis says of it                 *)
(* (bpmn/soundness.py).                                                    *)
(*                                                                         *)
(* The compiler makes passes over one list of flows: the main path, the    *)
(* branches of the decisions, the loops, the remaining transitions, the    *)
(* exceptions; then it adds what BPMN asks for, each pass on what the      *)
(* earlier ones have drawn: joins of synchronizing splits, catch events    *)
(* behind event-based gateways, exclusive merges.  One action per item of  *)
(* a pass.                                                                 *)
(*                                                                         *)
(* A node is named by what it is drawn for, a flow is a pair of nodes, and *)
(* no pair is drawn twice.  Names, lanes, documentation, data and messages *)
(* are left out; so are links, detached activities and gateways that start *)
(* the process.                                                            *)
(***************************************************************************)
EXTENDS Naturals, FiniteSets, SequencesExt

CONSTANT Plans \* the plans that are compiled: see README for their fields

VARIABLES
    plan,     \* the ProcessUnderstanding
    pass,     \* the pass the compiler is in
    todo,     \* what this pass has still to draw
    nodes,    \* nodes drawn so far
    flows,    \* FlowRegistry.flows, in the order they were drawn
    compiled, \* FlowRegistry._compiled_by_original: item of the plan -> node
    gates,    \* gateway_by_decision_id, in the order of placing
    hosts,    \* boundary event -> the activity it is attached to
    drawn,    \* the flows as the exceptions and then the joins found them
    said,     \* items the warnings name as not drawn
    asked     \* history: transitions the plan asked for, as pairs of nodes

compiler == <<plan, pass, todo, nodes, flows, compiled, gates, hosts, drawn, said, asked>>

Nobody == "none"
Begin   == <<"start">>
End     == <<"end", "done">>
Step(s) == <<"step", s>>
Gate(d) == <<"gate", d>>

Main      == plan.main
OnMain(s) == s \in Range(Main)
Steps     == DOMAIN plan.type
Decision(d) == CHOOSE r \in Range(plan.decisions) : r.id = d
PathOf(p)   == CHOOSE r \in Range(plan.paths) : r.id = p

Type(n) ==
    CASE n[1] \in {"gate", "join"}   -> Decision(n[2]).gateway
      [] n[1] \in {"step", "recovery"} -> plan.type[n[2]]
      [] n[1] = "branch"             -> plan.type[n[3]]
      [] n[1] \in {"loop", "merge"}  -> "exclusiveGateway"
      [] n[1] = "handler"            -> "task"
      [] n[1] = "catch"              -> "intermediateCatchEvent"
      [] n[1] = "boundary"           -> "boundaryEvent"
      [] n[1] = "start"              -> "startEvent"
      [] n[1] = "end"                -> "endEvent"

Synchronizing == {"parallelGateway", "inclusiveGateway", "complexGateway"}
Gateways      == Synchronizing \cup {"exclusiveGateway", "eventBasedGateway"}
Activities    == {"task", "userTask", "receiveTask"}
Waiting       == {"intermediateCatchEvent", "receiveTask"}

--------------------------------------------------------------------------------
(* The registry of flows. *)

Into(n, F)  == {i \in DOMAIN F : F[i][2] = n}
OutOf(n, F) == {i \in DOMAIN F : F[i][1] = n}

Add(F, s, t) == IF s = t \/ <<s, t>> \in Range(F) THEN F ELSE Append(F, <<s, t>>)

Pairs(chain) == [i \in 1 .. Len(chain) - 1 |-> <<chain[i], chain[i + 1]>>]
Link(F, chain) == FoldLeft(LAMBDA G, f : Add(G, f[1], f[2]), F, Pairs(chain))

\* Seeded fault: the other end of the flows is moved.
RetargetSource(F, I, n) == [i \in DOMAIN F |-> IF i \in I THEN <<n, F[i][2]>> ELSE F[i]]

\* retarget, for the flows I; reroute_source.
Retarget(F, I, n) == [i \in DOMAIN F |-> IF i \in I THEN <<F[i][1], n>> ELSE F[i]]

\* Seeded fault: what followed the last step of a loop still follows it.
RerouteNothing(F, from, to) == F

Reroute(F, from, to) == [i \in DOMAIN F |-> IF F[i][1] = from THEN <<to, F[i][2]>> ELSE F[i]]

\* _compiled_by_original.setdefault
Note(M, k, n) == M @@ (k :> n)

RECURSIVE Nearest(_, _, _)
Nearest(order, k, F) ==
    IF k > Len(order) THEN order
    ELSE LET new == SelectSeq(F, LAMBDA f : f[1] = order[k] /\ f[2] \notin Range(order))
         IN Nearest(order \o [i \in DOMAIN new |-> new[i][2]], k + 1, F)

BreadthFirst(n, F) == Nearest(<<n>>, 1, F)
Reach(n, F) == Range(BreadthFirst(n, F))
Without(F, n) == SelectSeq(F, LAMBDA f : f[2] # n)

--------------------------------------------------------------------------------
(* Which decision follows which step. *)

EdgesInto(x)  == SelectSeq(plan.edges, LAMBDA e : e[2] = x)
EdgesOutOf(x) == SelectSeq(plan.edges, LAMBDA e : e[1] = x)

AnchorAmong(d, S) ==
    LET from == SelectSeq(EdgesInto(d), LAMBDA e : e[1] \in S)
    IN IF from = <<>> THEN Nobody ELSE from[1][1]
Anchor(d) == IF AnchorAmong(d, Range(Main)) # Nobody THEN AnchorAmong(d, Range(Main))
             ELSE AnchorAmong(d, Steps)

\* Decisions that a path names come first, in the order of the paths.
Claimants == [i \in DOMAIN plan.paths |-> plan.paths[i].of]
             \o [i \in DOMAIN plan.decisions |-> plan.decisions[i].id]
DecisionAt(s) ==
    LET here == SelectSeq(Claimants, LAMBDA d : Anchor(d) = s)
    IN IF here = <<>> THEN Nobody ELSE here[1]

\* Seeded fault: the first path that names a decision is the only one.
FirstPathOf(d) ==
    LET all == SelectSeq(plan.paths, LAMBDA p : p.of = d)
    IN IF all = <<>> THEN <<>> ELSE <<all[1]>>

PathsOf(d) == SelectSeq(plan.paths, LAMBDA p : p.of = d)
PathIds(ps) == [i \in DOMAIN ps |-> ps[i].id]

--------------------------------------------------------------------------------
(* The passes. *)

InitCompiler ==
    /\ plan \in Plans
    /\ pass = "main" /\ todo = <<>>
    /\ nodes = {} /\ flows = <<>> /\ compiled = <<>> /\ gates = <<>> /\ hosts = <<>>
    /\ drawn = <<>> /\ said = {} /\ asked = {}

Now(name) == pass = name /\ todo # <<>>
Drops(x)  == said' = said \cup {x}

\* Nodes and flows of a chain, on top of the flows F.
Draws(F, chain) ==
    /\ flows' = Link(F, chain)
    /\ nodes' = nodes \cup Range(chain)
    /\ asked' = asked \cup Range(Pairs(chain))

After == [main |-> "branches", branches |-> "loops", loops |-> "edges",
          edges |-> "exceptions", exceptions |-> "joins", joins |-> "catches"]

Work(name) ==
    CASE name = "branches"   -> LET placed == SelectSeq(plan.decisions, LAMBDA d : d.id \in Range(gates))
                                IN FlattenSeq([i \in DOMAIN placed |-> PathIds(PathsOf(placed[i].id))])
      [] name = "loops"      -> [i \in DOMAIN plan.loops |-> i]
      [] name = "edges"      -> plan.edges
      [] name = "exceptions" -> plan.exceptions
      [] name = "joins"      -> gates
      [] name = "catches"    -> <<>>

\* The branches over, the warnings name what no gateway leads to.
NextPass ==
    /\ pass \in DOMAIN After /\ todo = <<>> /\ nodes # {}
    /\ pass' = After[pass] /\ todo' = Work(After[pass])
    /\ drawn' = IF After[pass] = "catches" THEN drawn ELSE flows
    /\ said' = IF pass # "branches" THEN said
               ELSE said \cup {d.id : d \in {e \in Range(plan.decisions) : e.id \notin Range(gates)}}
                         \cup {p.id : p \in {q \in Range(plan.paths) : q.of \notin Range(gates)}}
    /\ UNCHANGED <<plan, nodes, flows, compiled, gates, hosts, asked>>

\* The ends the plan declares are drawn at once, whatever will lead to them; the
\* primary one closes the main path.  The end events among them can be named by
\* transitions.
DeclaredEnds == {<<"end", e>> : e \in plan.declared}
NamedEnds    == [e \in plan.events |-> <<"end", e>>]

\* The start, the steps of the main path each with the gateway of its decision,
\* and the ends.
DrawMain ==
    /\ pass = "main" /\ nodes = {}
    /\ LET decision == [i \in DOMAIN Main |-> DecisionAt(Main[i])]
           decided(i) == decision[i] # Nobody
           stretch(i) == IF decided(i) THEN <<Step(Main[i]), Gate(decision[i])>> ELSE <<Step(Main[i])>>
           chain == <<Begin>> \o FlattenSeq([i \in DOMAIN Main |-> stretch(i)]) \o <<End>>
       IN /\ flows' = Link(<<>>, chain)
          /\ nodes' = Range(chain) \cup DeclaredEnds
          /\ asked' = Range(Pairs(chain))
          /\ gates' = SelectSeq(decision, LAMBDA d : d # Nobody)
          /\ compiled' = [s \in Range(Main) |-> Step(s)] @@ [d \in Range(gates') |-> Gate(d)] @@ NamedEnds
    /\ UNCHANGED <<plan, pass, todo, hosts, drawn, said>>

\* Where a path leads to that no decision carries on: an end that is not declared
\* is drawn for the first path that names it.
Exit(p) ==
    CASE OnMain(p.rejoins)                       -> Step(p.rejoins)
      [] ~OnMain(p.rejoins) /\ OnMain(p.ends)    -> Step(p.ends)
      [] ~OnMain(p.rejoins) /\ ~OnMain(p.ends)   -> IF p.ends = Nobody THEN End ELSE <<"end", p.ends>>

Kept(p) == SelectSeq(p.steps, LAMBDA s : ~(s = p.rejoins /\ OnMain(s)))
Cuts(p) == {i \in DOMAIN Kept(p) : DecisionAt(Kept(p)[i]) \notin {Nobody} \cup Range(gates)}
Branch(p, ss) == [i \in DOMAIN ss |-> <<"branch", p.id, ss[i]>>]
Named(p, ss, chain) == compiled @@ [s \in Range(ss) |-> <<"branch", p.id, s>>] @@ (p.id :> chain[2])

SkipBranch ==
    /\ Now("branches")
    /\ LET p == PathOf(Head(todo)) IN p.steps = <<>> /\ p.ends = Nobody
    /\ Drops(Head(todo)) /\ todo' = Tail(todo)
    /\ UNCHANGED <<plan, pass, nodes, flows, compiled, gates, hosts, drawn, asked>>

DrawBranch ==
    /\ Now("branches")
    /\ LET p == PathOf(Head(todo))
           chain == <<Gate(p.of)>> \o Branch(p, Kept(p)) \o <<Exit(p)>>
       IN /\ p.steps # <<>> \/ p.ends # Nobody
          /\ Cuts(p) = {}
          /\ Draws(flows, chain)
          /\ compiled' = Named(p, Kept(p), chain)
    /\ todo' = Tail(todo)
    /\ UNCHANGED <<plan, pass, gates, hosts, drawn, said>>

\* A step of the path has a decision of its own: its gateway carries the branch
\* on, to the outcomes that are drawn by now and to its own paths, later.
BranchDecides ==
    /\ Now("branches")
    /\ LET p == PathOf(Head(todo))
           cut == Min(Cuts(p))
           ss == SubSeq(Kept(p), 1, cut)
           d == DecisionAt(Kept(p)[cut])
           chain == <<Gate(p.of)>> \o Branch(p, ss) \o <<Gate(d)>>
           refs == SelectSeq(Decision(d).refs, LAMBDA r : r \in DOMAIN compiled')
           out == [i \in DOMAIN refs |-> <<Gate(d), compiled'[refs[i]]>>]
       IN /\ Cuts(p) # {}
          /\ compiled' = Named(p, ss, chain) @@ (d :> Gate(d))
          /\ flows' = FoldLeft(LAMBDA F, f : Add(F, f[1], f[2]), Link(flows, chain), out)
          /\ nodes' = nodes \cup Range(chain)
          /\ asked' = asked \cup Range(Pairs(chain)) \cup Range(out)
          /\ gates' = Append(gates, d)
          /\ todo' = Tail(todo) \o PathIds(PathsOf(d))
          /\ said' = IF ss[cut] = Last(p.steps) THEN said ELSE said \cup {<<p.id, "rest">>}
    /\ UNCHANGED <<plan, pass, hosts, drawn>>

\* Only steps of the main path are repeated; one of them alone is marked, and two
\* or more get a gateway in front of whatever follows the last one.
DrawLoop ==
    /\ Now("loops")
    /\ LET l == Head(todo)
           steps == SelectSeq(plan.loops[l], OnMain)
           tail == Step(Last(steps))
           head == Step(Head(steps))
           gate == <<"loop", l>>
           moved == Append(Reroute(flows, tail, gate), <<tail, gate>>)
       IN IF Len(steps) < 2
          THEN /\ said' = IF Len(steps) = 1 THEN said ELSE said \cup {<<"loop", l>>}
               /\ UNCHANGED <<nodes, flows, asked>>
          ELSE /\ flows' = Add(moved, gate, head)
               /\ nodes' = nodes \cup {gate}
               /\ asked' = asked \cup {<<tail, head>>}
               /\ UNCHANGED said
    /\ todo' = Tail(todo)
    /\ UNCHANGED <<plan, pass, compiled, gates, hosts, drawn>>

\* A transition between items that are drawn is drawn too, unless it would split or
\* merge without a gateway.
DrawEdge ==
    /\ Now("edges")
    /\ LET e == Head(todo)
           known == {e[1], e[2]} \subseteq DOMAIN compiled
           source == compiled[e[1]]
           target == compiled[e[2]]
           allowed == /\ Type(source) \in Gateways \/ OutOf(source, flows) = {}
                      /\ \/ Type(target) \in (Gateways \ {"eventBasedGateway"}) \cup {"endEvent"}
                         \/ Cardinality(Into(target, flows)) <= 1
       IN IF ~known \/ Add(flows, source, target) = flows
          THEN UNCHANGED <<flows, asked, said>>
          ELSE IF allowed
          THEN flows' = Add(flows, source, target) /\ asked' = asked \cup {<<source, target>>} /\ UNCHANGED said
          ELSE Drops(e) /\ UNCHANGED <<flows, asked>>
    /\ todo' = Tail(todo)
    /\ UNCHANGED <<plan, pass, nodes, compiled, gates, hosts, drawn>>

--------------------------------------------------------------------------------
(* Exceptions: a boundary event on an activity, and where it leads. *)

Host(x) ==
    LET via == SelectSeq(EdgesInto(x.id), LAMBDA e :
                   /\ e[1] \in DOMAIN compiled
                   /\ compiled[e[1]] \in Range([i \in DOMAIN drawn |-> drawn[i][1]])
                   /\ Type(compiled[e[1]]) \in Activities)
    IN CASE OnMain(x.host) /\ Type(Step(x.host)) \in Activities -> {Step(x.host)}
         [] ~OnMain(x.host) \/ Type(Step(x.host)) \notin Activities ->
              IF via = <<>> THEN {} ELSE {compiled[via[1][1]]}

Boundary(x) == <<"boundary", x.id>>
Leads(x) == SelectSeq(EdgesOutOf(x.id), LAMBDA e : e[2] \in DOMAIN compiled \cup Steps)
LeadsTo(x) == Leads(x)[1][2]

Attach(x) ==
    /\ Now("exceptions") /\ x = Head(todo) /\ Host(x) # {}
    /\ hosts' = hosts @@ (Boundary(x) :> CHOOSE h \in Host(x) : TRUE)
    /\ todo' = Tail(todo)
    /\ UNCHANGED <<plan, pass, gates, drawn, said>>

SkipException ==
    /\ Now("exceptions") /\ Host(Head(todo)) = {}
    /\ Drops(Head(todo).id) /\ todo' = Tail(todo)
    /\ UNCHANGED <<plan, pass, nodes, flows, compiled, gates, hosts, drawn, asked>>

Rejoin(x) ==
    /\ Attach(x) /\ Leads(x) # <<>> /\ LeadsTo(x) \in DOMAIN compiled
    /\ Draws(flows, <<Boundary(x), compiled[LeadsTo(x)]>>)
    /\ compiled' = Note(compiled, x.id, Boundary(x))

\* The step that recovers is on no path: it is drawn here, and ends the process
\* unless a transition leaves it.
Recover(x) ==
    /\ Attach(x) /\ Leads(x) # <<>> /\ LeadsTo(x) \notin DOMAIN compiled
    /\ LET task == <<"recovery", LeadsTo(x)>>
           rest == IF EdgesOutOf(LeadsTo(x)) = <<>> THEN <<End>> ELSE <<>>
       IN /\ Draws(flows, <<Boundary(x), task>> \o rest)
          /\ compiled' = Note(Note(compiled, x.id, Boundary(x)), LeadsTo(x), task)

Handle(x) ==
    /\ Attach(x) /\ Leads(x) = <<>> /\ x.handled
    /\ Draws(flows, <<Boundary(x), <<"handler", x.id>>, <<"end", x.id>>>>)
    /\ compiled' = Note(compiled, x.id, Boundary(x))

GiveUp(x) ==
    /\ Attach(x) /\ Leads(x) = <<>> /\ ~x.handled
    /\ Draws(flows, <<Boundary(x), End>>)
    /\ compiled' = Note(compiled, x.id, Boundary(x))

DrawException == \E x \in Range(plan.exceptions) : Rejoin(x) \/ Recover(x) \/ Handle(x) \/ GiveUp(x)

--------------------------------------------------------------------------------
(* What BPMN asks for. *)

\* Seeded fault: what comes back from behind the meeting point is a branch too.
ArmsAnywhere(split, n) == Into(n, flows)

\* The flows by which branches of a split arrive at a node: their sources lie
\* between the split and the node, as the flows were before any join.
Arms(split, n) ==
    {i \in Into(n, flows) : flows[i][1] \in Reach(split, Without(drawn, n)) \ Reach(n, drawn)}

\* Where two branches of a split meet first, if they do.
Meeting(split) ==
    LET order == BreadthFirst(split, drawn)
        meets == {k \in 2 .. Len(order) : Cardinality(Arms(split, order[k])) >= 2}
    IN IF meets = {} THEN {} ELSE {order[Min(meets)]}

\* Seeded fault: only parallel splits are closed.
JoinedParallel(split) ==
    IF Type(split) = "parallelGateway" /\ Cardinality(OutOf(split, flows)) >= 2 THEN Meeting(split) ELSE {}

Joined(split) ==
    IF Type(split) \in Synchronizing /\ Cardinality(OutOf(split, flows)) >= 2 THEN Meeting(split) ELSE {}

AddJoin ==
    /\ Now("joins")
    /\ LET split == Gate(Head(todo))
           join == <<"join", Head(todo)>>
       IN \/ /\ Joined(split) = {}
             /\ UNCHANGED <<nodes, flows>>
          \/ \E n \in Joined(split) :
                /\ flows' = Append(Retarget(flows, Arms(split, n), join), <<join, n>>)
                /\ nodes' = nodes \cup {join}
    /\ todo' = Tail(todo)
    /\ UNCHANGED <<plan, pass, compiled, gates, hosts, drawn, said, asked>>

\* Flow i carries a name: an outcome's, or the one of a transition of the plan.  It
\* was given before the joins, and a flow that a join moved has kept it.
Labelled(i) ==
    \E d \in Range(gates) : /\ drawn[i][1] = Gate(d)
        /\ \E x \in {p.id : p \in Range(PathsOf(d))} \cup {e[2] : e \in Range(EdgesOutOf(d))} :
              x \in DOMAIN compiled /\ compiled[x] = drawn[i][2]

AddCatches ==
    /\ pass = "catches"
    /\ LET jumps == {i \in DOMAIN flows : Type(flows[i][1]) = "eventBasedGateway" /\ Type(flows[i][2]) \notin Waiting}
           S == SetToSeq({i \in jumps : Labelled(i)})
           catch(i) == <<"catch", flows[i][1], flows[i][2]>>
       IN /\ flows' = [i \in DOMAIN flows |-> IF i \in Range(S) THEN <<flows[i][1], catch(i)>> ELSE flows[i]]
                      \o [k \in DOMAIN S |-> <<catch(S[k]), flows[S[k]][2]>>]
          /\ nodes' = nodes \cup {catch(i) : i \in Range(S)}
          /\ said' = said \cup {<<"catch", flows[i]>> : i \in jumps \ Range(S)}
    /\ pass' = "merges"
    /\ UNCHANGED <<plan, todo, compiled, gates, hosts, drawn, asked>>

Crowded(n) ==
    /\ Type(n) \notin Gateways \cup {"startEvent", "boundaryEvent"}
    /\ Cardinality(Into(n, flows)) >= 2
    /\ \A i \in Into(n, flows) : Type(flows[i][1]) # "eventBasedGateway"

AddMerges ==
    /\ pass = "merges"
    /\ LET S == SetToSeq({n \in nodes : Crowded(n)})
           merge(n) == <<"merge", n>>
       IN /\ flows' = [i \in DOMAIN flows |-> IF flows[i][2] \in Range(S) THEN <<flows[i][1], merge(flows[i][2])>> ELSE flows[i]]
                      \o [k \in DOMAIN S |-> <<merge(S[k]), S[k]>>]
          /\ nodes' = nodes \cup {merge(n) : n \in Range(S)}
    /\ pass' = "done"
    /\ UNCHANGED <<plan, todo, compiled, gates, hosts, drawn, said, asked>>

Compile == \/ NextPass \/ DrawMain \/ SkipBranch \/ DrawBranch \/ BranchDecides \/ DrawLoop \/ DrawEdge
           \/ SkipException \/ DrawException \/ AddJoin \/ AddCatches \/ AddMerges

--------------------------------------------------------------------------------
(* The analysis of the drawing. *)

\* An activity is followed by its boundary events too.
Ways == flows \o [i \in 1 .. Cardinality(DOMAIN hosts) |->
                    LET b == SetToSeq(DOMAIN hosts)[i] IN <<hosts[b], b>>]
Back == [i \in DOMAIN Ways |-> <<Ways[i][2], Ways[i][1]>>]
Ends == {n \in nodes : Type(n) = "endEvent"}

Unreachable == {n \in nodes : Type(n) # "boundaryEvent"} \ Reach(Begin, Ways)
DeadEnds == {n \in nodes \ Ends : Type(n) # "boundaryEvent" /\ \A e \in Ends : n \notin Reach(e, Back)}
SplitAndJoin == {n \in nodes : Type(n) \in Gateways /\ Cardinality(Into(n, flows)) > 1
                                                   /\ Cardinality(OutOf(n, flows)) > 1}
ImplicitSplit == {n \in nodes \ Ends : Type(n) \notin Gateways \cup {"boundaryEvent"} /\ Cardinality(OutOf(n, flows)) > 1}
BadTarget == {n \in nodes : /\ Type(n) = "eventBasedGateway" /\ Cardinality(OutOf(n, flows)) > 1
                            /\ \E i \in OutOf(n, flows) : Type(flows[i][2]) \notin Waiting}

Errors == Unreachable \cup DeadEnds \cup SplitAndJoin \cup ImplicitSplit \cup BadTarget
================================================================================
