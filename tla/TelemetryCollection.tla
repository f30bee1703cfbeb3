-------------------------- MODULE TelemetryCollection --------------------------
(***************************************************************************)
(* One attempt of one of the collectors other than the Kubernetes one, over   *)
(* what its source may hold, and the projection of what it delivers.         *)
(***************************************************************************)
EXTENDS MetricProviders, FlowAndLogProviders, DeploymentHistory

CONSTANT SourceStates   \* what the source of a collector may hold, by the name of the collector

Collectors == {"service-metrics", "workload-metrics", "api-features", "network-flows", "kernel-log", "deployments"}

ASSUME SourcesAreUsable ==
    /\ \A state \in SourceStates["service-metrics"] \cup SourceStates["workload-metrics"] : MetricsHold(state)
    /\ \A state \in SourceStates["api-features"] : FeaturesHold(state)
    /\ \A state \in SourceStates["network-flows"] : RelayHolds(state)
    /\ \A state \in SourceStates["kernel-log"] : LokiHolds(state)
    /\ \A state \in SourceStates["deployments"] : ControllerHolds(state)

TelemetryInit == \E provider \in Collectors : attempt = NewAttempt(provider) /\ source \in SourceStates[provider]

TelemetryNext ==
    \/ AskMetric
    \/ AskFeature
    \/ FlowsAreForgotten \/ AskFlows
    \/ PodsChange \/ ListPods \/ AskKills
    \/ ClockTicks \/ RollOut \/ ListReplicaSets \/ GetDeployment

TelemetrySpec == TelemetryInit /\ [][TelemetryNext]_telemetryVars

(* Every item any of these collectors delivers, complete or partial, belongs *)
(* to exactly one Projector, and that one accepts it; so no answer of a        *)
(* source fails the localization of an Incident, or is left out of its graph. *)
CollectedIsProjectable ==
    attempt.outcome = "batch" => \A e \in attempt.drafts : Projectable(e)

(* A batch that is not PARTIAL says what its source holds: a summary counts   *)
(* all samples, flows or kills of the window, nothing twice, and what is not  *)
(* mentioned or NO_DATA was not there; a ReplicaSet created in the window is  *)
(* reported.  And partial or not, an edge is scored only over enough times    *)
(* at which all of its series have a sample.                                *)
SummariesAreExact ==
    attempt.outcome = "batch" =>
        /\ attempt.provider = "api-features" => FeaturesAreAligned
        /\ ~attempt.partial =>
            CASE attempt.provider \in {"service-metrics", "workload-metrics"} -> MetricsAreExact
              [] attempt.provider = "api-features" -> \A e \in attempt.drafts : e.facts.status = "HAS_DATA"
              [] attempt.provider = "network-flows" -> FlowsAreExact
              [] attempt.provider = "kernel-log" -> KillsAreExact
              [] attempt.provider = "deployments" -> ChangesAreExact
=============================================================================
