----------------------------- MODULE BpmnExecutionMC -----------------------------
(***************************************************************************)
(* BpmnExecution over plans of a main path of four steps: two decisions of *)
(* every kind, beside or inside one another, with paths that rejoin before *)
(* and behind; one decision with loops; one decision with an exception; one    *)
(* decision and a declared end, reached or not.                            *)
(***************************************************************************)
EXTENDS BpmnExecution

GateKinds == {"exclusiveGateway", "parallelGateway", "inclusiveGateway", "eventBasedGateway"}

StepTypes == [s \in {"m1", "m2", "m3", "m4", "a", "b", "r"} |-> IF s = "b" THEN "receiveTask" ELSE "userTask"]

PlanOf(ds, ps, ls, xs, es) ==
    [main |-> <<"m1", "m2", "m3", "m4">>, type |-> StepTypes, decisions |-> ds, paths |-> ps,
     loops |-> ls, exceptions |-> xs, declared |-> {}, events |-> {}, edges |-> <<<<"m1", "D">>, <<"D", "m2">>>> \o es]

DecisionOf(d, kind, refs) == [id |-> d, gateway |-> kind, refs |-> refs]
Path(p, of, steps, rejoins, ends) ==
    [id |-> p, of |-> of, steps |-> steps, rejoins |-> rejoins, ends |-> ends]

TwoDecisions ==
    {PlanOf(<<DecisionOf("D", g, <<>>), DecisionOf("E", h, refs)>>,
            <<Path("p", "D", s, rp, "none"), Path("q", of, <<"b">>, rq, "none")>>,
            <<>>, <<>>, <<<<at, "E">>, <<"E", "m3">>>> \o es) :
        g \in GateKinds, h \in GateKinds, s \in {<<"a">>, <<"m3">>}, rp \in {"m3", "m4", "none"},
        refs \in {<<>>, <<"m4">>}, of \in {"D", "E"}, rq \in {"m1", "m3", "m4"},
        at \in {"m2", "a"}, es \in {<<>>, <<<<"D", "E">>>>}}

OneDecision(g, s, rp, ep, ls, xs, es) ==
    PlanOf(<<DecisionOf("D", g, <<>>)>>, <<Path("p", "D", s, rp, ep)>>, ls, xs, es)

Loops ==
    {OneDecision(g, s, rp, ep, ls, <<>>, es) :
        g \in GateKinds, s \in {<<>>, <<"a">>}, rp \in {"m1", "m3", "none"}, ep \in {"none", "refused"},
        ls \in {<<>>, <<<<"m1", "m3">>>>, <<<<"m2", "m3">>>>, <<<<"m3", "m4">>>>,
                <<<<"m1", "m2">>, <<"m3">>>>, <<<<"a">>>>},
        es \in {<<>>, <<<<"D", "m4">>>>, <<<<"m3", "m4">>>>}}

Exceptions ==
    {OneDecision(g, <<"a">>, rp, ep, <<>>,
                 <<[id |-> "x", host |-> h, interrupting |-> i, handled |-> k]>>, es) :
        g \in GateKinds, rp \in {"m1", "m3", "none"}, ep \in {"none", "refused"},
        h \in {"m2", "m4", "none"}, i \in BOOLEAN, k \in BOOLEAN,
        es \in {<<>>, <<<<"a", "x">>, <<"x", "m4">>>>, <<<<"x", "r">>>>,
                <<<<"x", "r">>, <<"r", "m3">>>>}}

\* "done" is the primary end, "refused" another; the transitions lead to one of them.
WithEnds(P, ev) == {[p EXCEPT !.declared = {"refused"}, !.events = ev] : p \in P}

DeclaredEnd ==
    UNION {WithEnds({OneDecision(g, s, rp, ep, ls, <<>>, es) :
                g \in GateKinds, s \in {<<>>, <<"a">>}, rp \in {"m3", "none"}, ep \in {"none", "refused"},
                ls \in {<<>>, <<<<"m2", "m3">>>>},
                es \in {<<>>, <<<<"D", "refused">>>>, <<<<"m4", "refused">>>>, <<<<"m4", "done">>>>}}
           \cup {OneDecision(g, <<"a">>, rp, ep, <<>>,
                    <<[id |-> "x", host |-> "m2", interrupting |-> TRUE, handled |-> FALSE]>>, es) :
                g \in GateKinds, rp \in {"m3", "none"}, ep \in {"none", "refused"},
                es \in {<<<<"x", "refused">>>>, <<<<"x", "m4">>, <<"x", "refused">>>>}}
           \cup {PlanOf(<<DecisionOf("D", g, <<>>), DecisionOf("E", "exclusiveGateway", <<>>)>>,
                    <<Path("p", "D", <<"a">>, rp, "refused"), Path("q", "E", <<"b">>, rq, eq)>>,
                    <<>>, <<>>, <<<<"a", "E">>, <<"E", "m3">>>>) :
                g \in GateKinds, rp \in {"m3", "none"}, rq \in {"m4", "none"}, eq \in {"none", "refused"}}, ev) :
        ev \in {{}, {"refused"}, {"refused", "done"}}}

AllPlans == TwoDecisions \cup Loops \cup Exceptions \cup DeclaredEnd
================================================================================
