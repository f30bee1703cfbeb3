------------------------------ MODULE MCTelemetry ------------------------------
(***************************************************************************)
(* Sources for every collector: no answer, full and sparse answers, answers   *)
(* that reach a limit or stray from the scope.                              *)
(***************************************************************************)
EXTENDS TelemetryCollection

MCWindow == <<2, 7>>

-----------------------------------------------------------------------------
Series(name, uid, samples) == [name |-> name, uid |-> uid, samples |-> samples]

MCMetrics == <<"cpu", "errors">>
MCServiceNames == {"cart", "checkout"}
MCWorkloadPods == {"cart-1"}

ServiceAnswers == {
    <<>>,
    <<Series("cart", Unidentified, <<<<2, 5>>, <<4, 3>>>>), Series("checkout", "u1", <<<<7, 1>>>>)>>,
    <<Series("cart", "u1", <<<<3, 2>>>>), Series("cart", "u2", <<<<3, 4>>, <<5, 2>>>>)>>,
    <<Series("cart", Unidentified, <<<<2, 1>>, <<3, 1>>, <<4, 1>>>>), Series("checkout", Unidentified, <<<<3, 9>>>>)>>,
    <<Series("cart", Unidentified, <<<<2, 1>>, <<3, 1>>, <<4, 1>>, <<5, 1>>, <<6, 1>>, <<9, 1>>>>)>>,
    <<Series("cart", Unidentified, <<<<2, 1>>, <<3, 1>>, <<4, 1>>, <<5, 1>>, <<6, 1>>>>),
      Series("checkout", Unidentified, <<<<3, 9>>>>)>>,
    <<Series("cart", Unidentified, <<<<1, 1>>>>)>>,
    <<Series("search", Unidentified, <<<<3, 1>>>>)>>}

WorkloadAnswers == {
    <<>>,
    <<Series("cart-1", "u1", <<<<2, 5>>, <<4, 3>>>>), Series("cart-1", "u2", <<<<7, 1>>>>),
      Series("cart", "u3", <<<<7, 2>>>>)>>,
    <<Series("cart-1", "u1", <<<<2, 5>>, <<3, 3>>, <<4, 3>>, <<5, 3>>, <<6, 3>>>>), Series("cart", "u2", <<<<7, 1>>>>)>>,
    <<Series("cart-1", Unidentified, <<<<2, 5>>>>)>>,
    <<Series("cart-1", "u1", <<>>)>>}

MetricSources(answers) == [Range(MCMetrics) -> answers]

-----------------------------------------------------------------------------
API(service) == [service |-> service, operation |-> "get"]
MCEdges == <<[id |-> "front-cart", parent |-> API("front"), child |-> API("cart")],
             [id |-> "cart-db", parent |-> API("cart"), child |-> API("db")],
             [id |-> "front-db", parent |-> API("front"), child |-> API("db")]>>

Full == <<<<2, 1>>, <<3, 3>>, <<4, 2>>>>
Turning == <<<<2, 5>>, <<3, 1>>, <<4, 3>>, <<5, 4>>, <<6, 6>>>>
Wide == <<<<2, 5>>, <<3, 1>>, <<4, 3>>, <<5, 4>>, <<6, 6>>, <<7, 7>>>>
FeatureAnswers == {Full, Turning, Wide, <<>>, <<<<4, 1>>, <<5, 1>>, <<6, 2>>>>, <<<<2, 11>>, <<3, 1>>, <<4, 1>>>>}

AllQuestions == Range(Questions)

\* All alike, but for the questions of one kind or about one API.
FeatureSources ==
    {[q \in AllQuestions |-> IF q[1] = kind /\ q[2].service = service THEN odd ELSE usual] :
        kind \in {"failure", "qps", "baseline"}, service \in {"front", "cart"},
        odd \in FeatureAnswers, usual \in {Full, Turning}}

-----------------------------------------------------------------------------
Flow(uuid, at, from, to, verdict, reason) ==
    [uuid |-> uuid, at |-> at, from |-> from, to |-> to, verdict |-> verdict, protocol |-> "TCP", reason |-> reason]

MCFlows == {
    Flow(1, 2, "cart-1", "db-1", "FORWARDED", "none"),
    Flow(2, 3, "cart-1", "cart-2", "DROPPED", "POLICY_DENIED"),
    Flow(3, 4, "front-1", "cart-1", "DROPPED", "DROP_REASON_UNKNOWN"),
    Flow(4, 5, "db-1", "cart-1", "DROPPED", "STALE_OR_UNROUTABLE_IP"),
    Flow(4, 6, "cart-2", "db-1", "FORWARDED", "none"),
    Flow(5, 5, "cartcache-1", "front-1", "AUDIT", "none")}

MCRooted == [cart |-> {"cart-1", "cart-2"}, db |-> {"db-1"}]
MCSelected == [cart |-> {"cart-1", "cart-2", "cartcache-1"}, db |-> {"db-1"}]
MCServices == <<"cart", "db">>

FlowSources == {[kept |-> flows, throughout |-> flows, ever |-> flows] : flows \in SUBSET MCFlows}

-----------------------------------------------------------------------------
LogPod(name, uid) == [name |-> name, uid |-> uid]
Line(order, at, uid, path) == [order |-> order, at |-> at, uid |-> uid, path |-> path]
MCScoped == {"cart-1", "cart-2"}
PodLists == {
    <<>>,
    <<LogPod("front-1", "u9")>>,
    <<LogPod("cart-1", "u1"), LogPod("cart-2", "u2"), LogPod("front-1", Unidentified)>>,
    <<LogPod("cart-1", "u1"), LogPod("cart-2", "u1")>>,
    <<LogPod("cart-1", Unidentified)>>,
    <<LogPod("cart-1", "u1"), LogPod("front-1", "u9"), LogPod("front-2", "u8"), LogPod("cart-2", "u2")>>}
Lines == {Line(1, 1, "u1", "u1"), Line(2, 2, "u1", "u1"), Line(3, 2, "u2", "u2"), Line(4, 6, "u1", "u1"),
          Line(5, 7, "u2", "u1"), Line(6, 7, "u9", "u9")}
LogSources == [pods : PodLists, lines : SUBSET Lines]

-----------------------------------------------------------------------------
Scopes == {<<"cart">>, <<"front", "cart", "db", "search">>}
ReplicaSet(template, revision, created) ==
    [template |-> template, revision |-> revision, created |-> created]
First == ReplicaSet(1, 1, 0)
Second == ReplicaSet(2, 2, 1)
Illegible == ReplicaSet(2, 0, 1)
DeploymentSources ==
    {[names |-> names, now |-> 4, sets |-> sets, template |-> 1, annotated |-> annotated, changed |-> {0}] :
        names \in Scopes, sets \in {{First}, {First, Illegible}, {[First EXCEPT !.revision = 0]}}, annotated \in BOOLEAN}
    \cup {[names |-> names, now |-> 5, sets |-> {First, Second}, template |-> 2, annotated |-> TRUE, changed |-> {0, 1}] :
            names \in Scopes}

-----------------------------------------------------------------------------
MCSourceStates ==
    [provider \in Collectors |->
        CASE provider = "service-metrics" -> MetricSources(ServiceAnswers)
          [] provider = "workload-metrics" -> MetricSources(WorkloadAnswers)
          [] provider = "api-features" -> FeatureSources
          [] provider = "network-flows" -> FlowSources
          [] provider = "kernel-log" -> LogSources
          [] provider = "deployments" -> DeploymentSources]
=============================================================================
