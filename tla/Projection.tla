------------------------------ MODULE Projection ------------------------------
(***************************************************************************)
(* The Projectors (src/incident_platform/projectors) of the metric, flow, log and change      *)
(* Evidence: which of them owns an Evidence item, and what it insists on      *)
(* before it makes Entities and Events of it.  A refused item, or one with    *)
(* two owners, ends the localization and with it the Incident; an item        *)
(* without an owner is left out of the graph.                                *)
(*                                                                         *)
(* origin is <<source, kind, provider>>; times are whole seconds,            *)
(* completeness is in tenths, and 0 is a revision that is not known.         *)
(***************************************************************************)
EXTENDS Integers, Sequences, FiniteSets, FiniteSetsExt, Functions

CONSTANT Window   \* <<start, end>> of the Evidence

ASSUME WindowIsOrdered == Window \in Int \X Int /\ Window[1] <= Window[2]

Unidentified == "no uid"

Subject(kind, name, uid) == [kind |-> kind, name |-> name, uid |-> uid, exists |-> TRUE]

Within(t) == Window[1] <= t /\ t <= Window[2]

-----------------------------------------------------------------------------
MetricOrigin == <<"prometheus", "metric-summary", "prometheus-http-api">>
FeatureOrigin == <<"prometheus", "metric-summary", "prometheus-krca-api-feature-provider">>
FlowOrigin == <<"hubble", "network-flow-summary", "hubble-relay-network-flow-provider">>
KillOrigin == <<"loki", "log-pattern", "loki-kernel-oom-provider">>
ChangeOrigin == <<"deployment", "deployment-change", "kubernetes-deployment-history">>

\* Mutant: what the two Prometheus providers have in common is enough.
MetricOfEither(e, kind) ==
    SubSeq(e.origin, 1, 2) = SubSeq(MetricOrigin, 1, 2) /\ e.subject.kind = kind

SupportsMetric(e, kind) ==
    e.origin = MetricOrigin /\ e.subject.kind = kind /\ e.facts.featureSet = "none"

SupportsEdge(e) == e.origin = FeatureOrigin /\ e.facts.featureSet = "krca-api-edge-v1"

SupportsFlows(e) ==
    e.origin = FlowOrigin /\ e.subject.kind = "Service" /\ e.facts.featureSet = "hubble-network-flow-summary-v2"

SupportsKills(e) == e.origin = KillOrigin /\ e.subject.kind = "Pod" /\ e.subject.uid # Unidentified

SupportsChange(e) == e.origin = ChangeOrigin /\ e.subject.kind = "Deployment"

-----------------------------------------------------------------------------
(* project, as the conditions under which it does not raise                  *)

AcceptsMetric(e) ==
    /\ e.facts.status \in {"HAS_DATA", "NO_DATA", "NO_DATA_WITHIN_LIMIT"}
    /\ e.facts.status = "HAS_DATA" <=> e.facts.count > 0

AcceptsWorkloadMetric(e) == e.facts.status = "HAS_DATA" /\ e.facts.count > 0

AcceptsEdge(e) ==
    /\ e.facts.status \in {"HAS_DATA", "INSUFFICIENT_DATA"}
    /\ e.subject.kind = "Service" /\ e.subject.name = e.facts.edge.parent.service
    /\ e.facts.edge.parent # e.facts.edge.child

Total(counts) == SumFunction(counts)
Among(counts, keys) == SumFunctionOnSet(counts, DOMAIN counts \cap keys)

PolicyDropReasons == {"POLICY_DENIED", "POLICY_DENY"}

FlowSignal(flows, dropped, denied) ==
    IF denied > 0 THEN "POLICY_DENIAL_OBSERVED"
    ELSE IF dropped > 0 THEN "DROPS_OBSERVED"
    ELSE IF flows > 0 THEN "NO_DROPS_OBSERVED" ELSE "NO_FLOW_DATA"

AcceptsFlows(e) ==
    LET f == e.facts
        dropped == Among(f.verdicts, {"DROPPED"})
    IN  /\ f.from <= f.count /\ f.to <= f.count /\ f.from + f.to >= f.count
        /\ Total(f.verdicts) = f.count /\ Total(f.protocols) = f.count
        /\ Total(f.dropReasons) = dropped
        /\ "DROP_REASON_UNKNOWN" \notin DOMAIN f.dropReasons
        /\ \/ /\ f.status = "HAS_DATA" /\ f.count > 0
              /\ f.first <= f.last /\ Within(f.first) /\ Within(f.last)
           \/ f.status = "NO_DATA" /\ f.count = 0 /\ ~f.truncated /\ Within(e.observed)
        /\ f.denied = Among(f.dropReasons, PolicyDropReasons)
        /\ f.unknown = Among(f.dropReasons, {"UNKNOWN"})
        /\ f.denied + f.unknown + f.other = dropped
        /\ f.signal = FlowSignal(f.count, dropped, f.denied)
        /\ e.completeness <= IF f.count > 0 THEN 5 ELSE 0

AcceptsKills(e) ==
    /\ e.facts.uid = e.subject.uid /\ e.facts.count >= 1
    /\ e.facts.first <= e.facts.last /\ Within(e.facts.first) /\ Within(e.facts.last)

AcceptsChange(e) ==
    LET f == e.facts
    IN  \/ /\ f.status = "CHANGE_DETECTED" /\ f.changed # {} /\ e.subject.exists
           /\ f.revision > 0 /\ (f.previous = 0 \/ f.previous < f.revision)
        \/ /\ f.status \in {"NO_CHANGES", "HISTORY_INCOMPLETE", "DEPLOYMENT_NOT_FOUND"}
           /\ f.changed = {}
           /\ f.status = "DEPLOYMENT_NOT_FOUND" => ~e.subject.exists

-----------------------------------------------------------------------------
(* EvidenceBackedLocalizationService._project, for one item                  *)

Owners(e) ==
    {p \in {"service-metric", "workload-metric", "api-edge", "network-flow", "kernel-oom", "deployment-change"} :
        CASE p = "service-metric" -> SupportsMetric(e, "Service")
          [] p = "workload-metric" -> SupportsMetric(e, "Pod") /\ e.subject.uid # Unidentified
          [] p = "api-edge" -> SupportsEdge(e)
          [] p = "network-flow" -> SupportsFlows(e)
          [] p = "kernel-oom" -> SupportsKills(e)
          [] p = "deployment-change" -> SupportsChange(e)}

Accepts(p, e) ==
    CASE p = "service-metric" -> AcceptsMetric(e)
      [] p = "workload-metric" -> AcceptsWorkloadMetric(e)
      [] p = "api-edge" -> AcceptsEdge(e)
      [] p = "network-flow" -> AcceptsFlows(e)
      [] p = "kernel-oom" -> AcceptsKills(e)
      [] p = "deployment-change" -> AcceptsChange(e)

Projectable(e) == \E p \in Owners(e) : Owners(e) = {p} /\ Accepts(p, e)
=============================================================================
