------------------------- MODULE MCGuidedLocalization -------------------------
(***************************************************************************)
(* Every drilldown over four APIs of three services, and localizations that  *)
(* start from some of them: no suspect, one, two, the source itself among    *)
(* them, and an exhausted budget.                                           *)
(***************************************************************************)
EXTENDS GuidedLocalization

Feature(result, failure, significant, latency) ==
    [status |-> result, failure |-> failure, significant |-> significant,
     anomaly |-> latency, fluctuation |-> latency, correlation |-> 0 - latency]
Suspect == Feature("HAS_DATA", 8, TRUE, 0)
Worse == Feature("HAS_DATA", 9, TRUE, 2)
Chance == Feature("HAS_DATA", 9, FALSE, 5)
MCFeatures == {Suspect, Worse, Chance}
MCDependencies == {<<1, 2>>, <<1, 3>>, <<2, 3>>, <<3, 2>>, <<3, 4>>, <<4, 1>>, <<2, 4>>}
MCService == <<"frontend", "checkout", "frontend", "cart">>
Policy(depth, edges, topN) == [depth |-> depth, edges |-> edges, topN |-> topN]
MCPolicies == {Policy(8, 9, 2), Policy(8, 9, 1), Policy(1, 9, 2), Policy(2, 9, 3), Policy(8, 3, 2)}

On(edges) == [e \in MCDependencies |-> IF e \in edges THEN Suspect ELSE Chance]
Guided ==
    \/ /\ policy = Policy(8, 9, 2)
       /\ features \in {On({<<1, 2>>, <<2, 4>>}), On({<<1, 3>>, <<3, 4>>})}
    \/ policy = Policy(1, 9, 2) /\ features = On({<<1, 2>>, <<2, 4>>})

Entity(id, service, identity) == [id |-> id, service |-> service, identity |-> identity]
MCSteady == {Entity("f1", "frontend", "logical-service"), Entity("f2", "frontend", "kubernetes-resource"),
             Entity("c1", "checkout", "kubernetes-resource"), Entity("t1", "cart", "logical-service")}
MCEntities == MCSteady \cup {Entity("t2", "cart", "logical-service")}

MCNext == LocalizationNext /\ (ranking = NoRanking \/ Guided)

MCInit ==
    /\ LocalizationInit
    /\ Guided \/ (initial = "SUCCEEDED" /\ incidentEnd = NoEnd /\ featureRuns = <<>>)

MCSpec == MCInit /\ [][MCNext]_<<drilldownVars, guidedVars>>
=============================================================================
