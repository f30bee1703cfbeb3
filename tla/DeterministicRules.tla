-------------------------- MODULE DeterministicRules --------------------------
(***************************************************************************)
(* The registered root causes and their proof rules                        *)
(* (src/incident_platform/deterministic.py), as operators on a set of       *)
(* Evidence items.  The callers hand the engine the items in the order of   *)
(* their ids, or look at nothing that depends on the order.                *)
(*                                                                         *)
(* An item has an id, the channel it comes from (source and kind), the fact *)
(* the rules look at, its subject, and for an Event about a missing object  *)
(* the name of that object.  The predicates on the fact fields of one item  *)
(* (a threshold reached, a provider, a pattern id) are one symbol each.     *)
(***************************************************************************)
EXTENDS Integers, Sequences, FiniteSets, Ordering

Causes == {"container-oomkilled", "image-pull-failure", "missing-configmap"}

\* The order in which the engine holds its rules.
RuleOrder == <<"container-oomkilled", "image-pull-failure", "missing-configmap">>

NoCause == "no cause"

Ids(items) == [k \in DOMAIN items |-> items[k].id]

\* The order the rules look at items in: terminations reported by Kubernetes come
\* before those the kernel logged, and items of one kind come by their ids.
Precedes(a, b) ==
    LET Late(i) == i.source = "loki"
    IN  \/ ~Late(a) /\ Late(b)
        \/ (Late(a) <=> Late(b)) /\ a.id < b.id

First(items) == CHOOSE i \in items : \A j \in items \ {i} : Precedes(i, j)

\* Two subjects are the same when their names are and neither has a cluster or a
\* uid that the other lacks.
SameSubject(a, b) ==
    \A field \in {"namespace", "kind", "name", "cluster", "uid"} :
        a.subject[field] = b.subject[field]

-----------------------------------------------------------------------------
(* What each rule takes as the sign of its cause, and what corroborates it. *)

OOMSigns(evidence) ==
    {e \in evidence :
        \/ e.source = "kubernetes" /\ e.kind = "resource-state" /\ e.fact = "OOMKilled"
        \/ /\ e.source = "loki" /\ e.kind = "log-pattern" /\ e.fact = "memcg-oom"
           /\ e.subject.kind = "Pod" /\ e.subject.uid # "none"}

\* A restart counted by Prometheus for the same Pod.
Restarts(sign, evidence) ==
    {e \in evidence : /\ e.source = "prometheus" /\ e.kind = "metric-summary"
                      /\ e.fact = "restarted" /\ SameSubject(sign, e)}

ImagePullSigns(evidence) ==
    {e \in evidence : /\ e.source = "kubernetes" /\ e.kind = "resource-state"
                      /\ e.fact = "waiting-for-image"}

PullEvents(sign, evidence) ==
    {e \in evidence : /\ e.source = "kubernetes" /\ e.kind = "kubernetes-event"
                      /\ e.fact = "image-pull" /\ SameSubject(sign, e)}

ConfigMapSigns(evidence) ==
    {e \in evidence : /\ e.source = "kubernetes" /\ e.kind = "resource-state"
                      /\ e.subject.kind = "ConfigMap" /\ e.fact = "required-but-absent"}

\* The Event is about a Pod: it names the ConfigMap, in the Pod's namespace.
MountEvents(sign, evidence) ==
    {e \in evidence : /\ e.source = "kubernetes" /\ e.kind = "kubernetes-event"
                      /\ e.fact = "mount-failed" /\ e.missing = sign.subject.name
                      /\ e.subject.namespace = sign.subject.namespace}

Signs(cause, evidence) ==
    CASE cause = "container-oomkilled" -> OOMSigns(evidence)
      [] cause = "image-pull-failure" -> ImagePullSigns(evidence)
      [] cause = "missing-configmap" -> ConfigMapSigns(evidence)

Corroboration(cause, sign, evidence) ==
    CASE cause = "container-oomkilled" -> Restarts(sign, evidence)
      [] cause = "image-pull-failure" -> PullEvents(sign, evidence)
      [] cause = "missing-configmap" -> MountEvents(sign, evidence)

-----------------------------------------------------------------------------
\* One rule on some Evidence: the first corroborated sign proves the cause, with
\* the first item that corroborates it.
EvaluateRule(cause, evidence) ==
    LET signs == Signs(cause, evidence)
        proofs == {s \in signs : Corroboration(cause, s, evidence) # {}}
    IN  IF proofs # {}
        THEN [status |-> "PROVEN",
              support |-> <<First(proofs).id, First(Corroboration(cause, First(proofs), evidence)).id>>]
        ELSE [status |-> IF signs = {} THEN "NOT_APPLICABLE" ELSE "INSUFFICIENT",
              support |-> Ids(Ordered(signs, Precedes))]

\* All rules, to rank a catalogue; nothing is concluded from it.
RegisteredEvaluations(evidence) == [c \in Causes |-> EvaluateRule(c, evidence)]

\* The engine concludes on a cause only when exactly one rule is proven.
Decide(evidence) ==
    LET evaluations == RegisteredEvaluations(evidence)
        proven == {c \in Causes : evaluations[c].status = "PROVEN"}
    IN  [status |-> CASE proven = {} -> "ABSTAIN"
                      [] Cardinality(proven) = 1 -> "PROVEN"
                      [] OTHER -> "AMBIGUOUS",
         cause |-> IF Cardinality(proven) = 1 THEN CHOOSE c \in proven : TRUE ELSE NoCause,
         support |-> {evaluations[c].support : c \in proven},
         evaluations |-> evaluations]
=============================================================================
