------------------------------ MODULE BpmnExecution ------------------------------
(***************************************************************************)
(* The drawing of BpmnCompiler, executed: tokens move along the flows as   *)
(* BPMN 2.0 says (13.2-13.4).  The rules are not in this repository, whose *)
(* compiler refers to them; they are what its gateways are drawn for.      *)
(*                                                                         *)
(* A task takes one step, and ends or is left by one of its boundary       *)
(* events.  Complex gateways are not executed.                             *)
(***************************************************************************)
EXTENDS BpmnCompiler

CONSTANT MaxTokens  \* bound: tokens that wait on one flow

ASSUME ExecutionAssumption == MaxTokens \in Nat \ {0, 1}

VARIABLE tokens    \* per flow of the drawing, by its index; empty before

vars == <<compiler, tokens>>

Running == tokens # <<>>
Waits(n) == {i \in Into(n, flows) : tokens[i] > 0}

Moves(I, O) ==
    /\ \A o \in O : tokens[o] < MaxTokens
    /\ tokens' = [i \in DOMAIN tokens |-> tokens[i] - (IF i \in I THEN 1 ELSE 0) + (IF i \in O THEN 1 ELSE 0)]
    /\ UNCHANGED compiler

Interrupts(b) == \E x \in Range(plan.exceptions) : Boundary(x) = b /\ x.interrupting
EventsOn(n)   == {b \in DOMAIN hosts : hosts[b] = n}

\* What a node that takes one token at a time may put out.
Outcomes(n) ==
    IF Type(n) \in {"exclusiveGateway", "eventBasedGateway"}
    THEN {{o} : o \in OutOf(n, flows)}
    ELSE {OutOf(n, flows)}
         \cup {OutOf(b, flows) : b \in {e \in EventsOn(n) : Interrupts(e)}}
         \cup {OutOf(n, flows) \cup OutOf(b, flows) : b \in {e \in EventsOn(n) : ~Interrupts(e)}}

\* An inclusive gateway waits for every token that may still arrive by an entry
\* where none is, and not by one where one is.
Arrives(j, i, n) == flows[i][1] \in Reach(flows[j][2], Without(Ways, n))
Ready(n) ==
    CASE Type(n) = "parallelGateway"  -> Waits(n) = Into(n, flows)
      [] Type(n) = "inclusiveGateway" ->
           /\ Waits(n) # {}
           /\ \A j \in {k \in DOMAIN tokens : tokens[k] > 0 /\ flows[k][2] # n} :
                \A i \in Into(n, flows) \ Waits(n) :
                   Arrives(j, i, n) => \E k \in Waits(n) : Arrives(j, k, n)
      [] Type(n) \notin Synchronizing -> Waits(n) # {}

--------------------------------------------------------------------------------
(* Which drawings are executed: those of plans whose splits are blocks.    *)

Place(s) == CHOOSE i \in DOMAIN Main : Main[i] = s

\* The steps of the main path a decision goes to, besides the one that follows it.
Follows(s, x) == OnMain(s) /\ OnMain(x) /\ Place(x) = Place(s) + 1
Goes(d) ==
    {p.rejoins : p \in Range(PathsOf(d))}
    \cup {x \in Range(Main) :
              /\ <<d, x>> \in Range(plan.edges) \/ x \in Range(Decision(d).refs)
              /\ ~Follows(Anchor(d), x)}

\* The steps between a decision and where its paths rejoin.
Span(d) ==
    UNION {Range(p.steps) : p \in Range(PathsOf(d))}
    \cup {s \in Range(Main) :
              /\ OnMain(Anchor(d)) /\ Place(Anchor(d)) < Place(s)
              /\ \E x \in Goes(d) : OnMain(x) /\ Place(s) < Place(x)}

\* A split is closed when it and the splits inside it, which are parallel, go
\* forward to one step.
Block(d) == {d} \cup {e \in Range(gates) : Anchor(e) \in Span(d)}
Closed(d) ==
    \E t \in Range(Main) :
        /\ OnMain(Anchor(d)) => Place(t) > Place(Anchor(d))
        /\ \A e \in Block(d) : Goes(e) = {t} /\ (e # d => Type(Gate(e)) = "parallelGateway")

\* A loop goes around the split.
Repeated(d) == \E i \in OutOf(Gate(d), flows) : Gate(d) \in Reach(flows[i][2], flows)

\* The second transition into a decision is a second flow into its gateway.
DecisionEnteredTwice == \E d \in Range(gates) : Len(EdgesInto(d)) > 1

\* The branches of a split go to one place, nothing else leads into them, and no
\* loop or exception leaves them or goes around them.
Structured ==
    /\ ~DecisionEnteredTwice
    /\ \A x \in Range(plan.exceptions) : x.interrupting
    /\ \A d \in {g \in Range(gates) : Type(Gate(g)) \in Synchronizing /\ Cardinality(OutOf(Gate(g), flows)) > 1} :
          /\ \E e \in Range(gates) : d \in Block(e) /\ Closed(e)
          /\ \A e \in Range(gates) \ Block(d) : Goes(e) \cap Span(d) = {}
          /\ \A l \in Range(plan.loops) : Head(l) \in Span(d) <=> Last(l) \in Span(d)
          /\ \A b \in DOMAIN hosts : ({Last(hosts[b])} \cup {e[2] : e \in Range(EdgesOutOf(b[2]))}) \cap Span(d) = {}
          /\ ~Repeated(d)

--------------------------------------------------------------------------------
Start ==
    /\ pass = "done" /\ ~Running
    /\ Errors = {} /\ Structured
    /\ tokens' = [i \in DOMAIN flows |-> IF i \in OutOf(Begin, flows) THEN 1 ELSE 0]
    /\ UNCHANGED compiler

Advance(n) ==
    /\ Running /\ Type(n) \notin Synchronizing
    /\ \E i \in Waits(n), O \in Outcomes(n) : Moves({i}, O)

Fork(n) ==
    /\ Running /\ Type(n) = "parallelGateway" /\ Ready(n)
    /\ Moves(Into(n, flows), OutOf(n, flows))

Choose(n) ==
    /\ Running /\ Type(n) = "inclusiveGateway" /\ Ready(n)
    /\ \E O \in SUBSET OutOf(n, flows) \ {{}} : Moves(Waits(n), O)

Init == InitCompiler /\ tokens = <<>>

Next == \/ Compile /\ UNCHANGED tokens
        \/ Start
        \/ \E n \in nodes : Advance(n) \/ Fork(n) \/ Choose(n)

Spec == Init /\ [][Next]_vars

--------------------------------------------------------------------------------
(* Properties                                                              *)

Compiled == pass = "done" /\ ~Running

Added == {n \in nodes : n[1] \in {"loop", "join", "catch", "merge"}}

Followers(n) ==
    Reach(n, SelectSeq(flows, LAMBDA f : f[1] \in Added \cup {n})) \ (Added \cup {n})

\* A step that recovers from an exception and has a transition of its own is drawn
\* after the pass over the transitions, and gets no exit.
RecoveryGoesOn == \E n \in nodes : n[1] = "recovery" /\ EdgesOutOf(n[2]) # <<>>

\* A transition between drawn items that is dropped without a word: a second one out
\* of an exception, or one into an exception that is attached to another activity.
DroppedInSilence(e) ==
    \/ \E x \in Range(plan.exceptions) : e[1] = x.id /\ e # Leads(x)[1]
    \/ compiled[e[2]] \in DOMAIN hosts /\ compiled[e[1]] # hosts[compiled[e[2]]]

\* A transition into an exception is where its boundary event is attached.
AttachedBy(e) == compiled[e[2]] \in DOMAIN hosts /\ compiled[e[1]] = hosts[compiled[e[2]]]

\* A loop has its gateway, or one step of the main path, which is marked.
LoopIsDrawn(l) == <<"loop", l>> \in nodes \/ Len(SelectSeq(plan.loops[l], OnMain)) = 1

\* What the plan says is drawn or a warning names it: decisions, paths, exceptions,
\* loops, and the transitions between what is drawn but for those above.
NothingIsLost ==
    Compiled /\ ~RecoveryGoesOn =>
        /\ \A items \in {plan.decisions, plan.paths, plan.exceptions} :
              \A x \in Range(items) : x.id \in DOMAIN compiled \cup said
        /\ \A l \in DOMAIN plan.loops : LoopIsDrawn(l) \/ <<"loop", l>> \in said
        /\ \A e \in Range(plan.edges) : {e[1], e[2]} \subseteq DOMAIN compiled =>
              \/ <<compiled[e[1]], compiled[e[2]]>> \in asked \/ e \in said
              \/ AttachedBy(e) \/ DroppedInSilence(e)

\* The passes that add gateways and events put them between two nodes and change
\* nothing else: which node follows which is what the passes over the plan asked
\* for, whatever the order in which loops, joins, catches and merges moved flows.
FollowsThePlan ==
    Compiled => asked = UNION {{<<n, m>> : m \in Followers(n)} : n \in nodes \ Added}

\* A declared end to which no path and no transition of the plan leads: a path that
\* rejoins or goes over to a decision of its own does not end there, and only end
\* events can be named by transitions, of an exception by the first.
CarriedOn(p) == \E s \in Range(p.steps), d \in Range(gates) : <<<<"branch", p.id, s>>, Gate(d)>> \in asked
LeftAlone(e) ==
    /\ \A p \in Range(plan.paths) : p.ends = e => OnMain(p.rejoins) \/ CarriedOn(p)
    /\ \A t \in Range(plan.edges) : t[2] = e => e \notin plan.events \/ DroppedInSilence(t)

\* The analysis finds an error in a drawing only if a warning of the compiler names
\* what it left out, but for two kinds of plan and the declared ends left alone,
\* which are drawn without a way to them (_build_end_events).
DrawingIsSound ==
    Compiled /\ said = {} /\ ~RecoveryGoesOn /\ ~DecisionEnteredTwice
        => Errors = {<<"end", e>> : e \in {d \in plan.declared : LeftAlone(d)}}

\* The joins fit: no token of a structured plan waits for ever for another.
NeverStuck ==
    Running /\ (\E i \in DOMAIN tokens : tokens[i] # 0)
        => \E n \in nodes : Into(n, flows) # {} /\ Ready(n)

\* And there are enough of them: no node runs once per token of a split, but for
\* ends of the process (_add_synchronizing_joins).
RunsOnce == Running => \A i \in DOMAIN tokens : flows[i][2] \notin Ends => tokens[i] <= 1
================================================================================
