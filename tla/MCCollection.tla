----------------------------- MODULE MCCollection -----------------------------
(***************************************************************************)
(* Two workers over one Incident with two collectors, one attempt of the      *)
(* Kubernetes collector in a small namespace, and one attempt of any other    *)
(* collector.  The orchestrator and a provider share nothing but the batch    *)
(* that is returned, so a behaviour is of one of the three and the others     *)
(* are idle.                                                               *)
(***************************************************************************)
EXTENDS Collection, KubernetesCollection, MCTelemetry

NoDerivation == [relation |-> "none", target |-> <<>>, sources |-> {}]

Draft(observed, kind, name, derivation) ==
    [observed |-> observed, namespace |-> "shop", kind |-> kind, name |-> name,
     cluster |-> "c", derivation |-> derivation]

ReferencedBy(pod) ==
    [relation |-> "REFERENCES", target |-> <<"ConfigMap", "shop", "settings">>,
     sources |-> {[kind |-> "Pod", namespace |-> "shop", hasUid |-> TRUE, cluster |-> "c", name |-> pod]}]

Pod(observed) == Draft(observed, "Pod", "checkout-1", NoDerivation)

MCScope == [namespace |-> "shop", names |-> {"checkout"}, prefixed |-> {"checkout-1"},
            relatedKinds |-> {"ConfigMap"}, maxItems |-> 2]

MCSpecs == <<[name |-> "prometheus", timeout |-> 2, attempts |-> 1, lookback |-> 9],
             [name |-> "kubernetes", timeout |-> 1, attempts |-> 2, lookback |-> 1]>>

Of(s, items) == [status |-> s, items |-> items]

\* One collector keeps to the scope, the other strays from it in one of two drafts.
MCBatches ==
    [prometheus |->
        {Of("SUCCEEDED", <<Pod(2), Draft(2, "ConfigMap", "settings", ReferencedBy("cart-1"))>>)},
     kubernetes |->
        {Of("PARTIAL", <<Pod(3), Draft(3, "ConfigMap", "settings", ReferencedBy("checkout-1"))>>)}]

-----------------------------------------------------------------------------
(* The namespace: a rollout is under way, another Deployment has a name that *)
(* begins like the root's, and its Pod is a target of the EndpointSlice.     *)
Obj(order, kind, name, uid, owner) ==
    [order |-> order, kind |-> kind, name |-> name, prefix |-> "checkout", uid |-> uid, owner |-> owner,
     service |-> "none", labels |-> {}, selector |-> {}, targets |-> {}, node |-> "n1", requires |-> {},
     containers |-> {}]
NoOwner == [kind |-> "none", name |-> "none", uid |-> "none"]
Owner(kind, name, uid) == [kind |-> kind, name |-> name, uid |-> uid]
Service1 == [Obj(1, "Service", "checkout", "s1", NoOwner) EXCEPT !.selector = {"app"}]
Deployment1 == Obj(2, "Deployment", "checkout", "d1", NoOwner)
Deployment2 == Obj(3, "Deployment", "checkout-cache", "d2", NoOwner)
Replicas1 == Obj(4, "ReplicaSet", "checkout-1", "r1", Owner("Deployment", "checkout", "d1"))
Replicas2 == Obj(5, "ReplicaSet", "checkout-2", "r2", Owner("Deployment", "checkout", "d1"))
Pod1 == [Obj(6, "Pod", "checkout-1-a", "p1", Owner("ReplicaSet", "checkout-1", "r1"))
            EXCEPT !.labels = {"app"}, !.requires = {"settings"},
                   !.containers = {[waiting |-> "none", terminated |-> "OOMKilled"],
                                   [waiting |-> "CrashLoopBackOff", terminated |-> "Error"]}]
Pod2 == Obj(7, "Pod", "checkout-2-b", "p2", Owner("ReplicaSet", "checkout-2", "r2"))
Pod3 == Obj(8, "Pod", "checkout-cache-3", "p3", Owner("ReplicaSet", "checkout-cache-9", "r9"))
Slice1 == [Obj(9, "EndpointSlice", "checkout-x", "e1", NoOwner) EXCEPT !.service = "checkout", !.targets = {"p1", "p3"}]
Node1 == Obj(10, "Node", "n1", "n1", NoOwner)
Settings == Obj(11, "ConfigMap", "settings", "c1", NoOwner)
Event(order, uid, kind, name, about, reason, count, inWindow) ==
   [order |-> order, uid |-> uid, about |-> [kind |-> kind, name |-> name, uid |-> about], reason |-> reason,
    count |-> count, inWindow |-> inWindow]
Event1 == Event(1, "v1", "Pod", "checkout-1-a", "p1", "Failed", 2, TRUE)
Event2 == Event(2, "v2", "Pod", "checkout-1-a", "p1", "Failed", 1, TRUE)
Event3 == Event(3, "v3", "Service", "checkout", "s1", "Sync", 1, FALSE)
Event4 == Event(4, "v4", "Pod", "checkout-1-a", "p1", "BackOff", 1, TRUE)
MCObjects == {Service1, Deployment1, Deployment2, Replicas1, Replicas2, Pod1, Pod2, Pod3, Slice1, Node1, Settings}
MCEvents == {Event1, Event2, Event3, Event4}
MCFleeting == {Replicas2, Pod2, Settings, Event4}
MCRoots == <<"checkout">>

-----------------------------------------------------------------------------
CollectionIsIdle ==
    /\ now = MaxTime
    /\ thread = [w \in Workers |-> [c \in Names |-> NoThread]]
    /\ job = [w \in Workers |-> [NoJob EXCEPT !.pc = "refused"]]
    /\ status = "COLLECTING" /\ statuses = <<>> /\ evidence = {} /\ frozen = NoContext

KubernetesIsIdle ==
    /\ cluster = [now |-> {}, throughout |-> {}, ever |-> {}]
    /\ listing = NewListing
    /\ listed = [k \in Range(Kinds) |-> <<>>]
    /\ provider = NoProvider
    /\ batch = [items |-> <<>>, partial |-> FALSE, outcome |-> "idle"]

TelemetryIsIdle == attempt = [NewAttempt("none") EXCEPT !.outcome = "idle"] /\ source = {}

MCNext ==
    \/ CollectionNext /\ UNCHANGED <<kubernetesVars, telemetryVars>>
    \/ KubernetesNext /\ UNCHANGED <<vars, telemetryVars>>
    \/ TelemetryNext /\ UNCHANGED <<vars, kubernetesVars>>

MCInit ==
    \/ Init /\ KubernetesIsIdle /\ TelemetryIsIdle
    \/ CollectionIsIdle /\ KubernetesInit /\ TelemetryIsIdle
    \/ CollectionIsIdle /\ KubernetesIsIdle /\ TelemetryInit

MCSpec == MCInit /\ [][MCNext]_<<vars, kubernetesVars, telemetryVars>> /\ CollectionFairness
=============================================================================
