------------------------- MODULE KubernetesCollection -------------------------
(***************************************************************************)
(* KubernetesIncidentProvider (providers/kubernetes.py): one attempt of the  *)
(* Kubernetes collector.  It lists six kinds page by page, keeps what is      *)
(* owned by the exact roots, then reads the Events of the Services and Pods  *)
(* and the ConfigMaps that those Pods require, one request at a time, while  *)
(* the cluster changes between the requests.                                *)
(***************************************************************************)
EXTENDS Integers, Sequences, FiniteSets, SequencesExt, FiniteSetsExt, Ordering

CONSTANTS
    Roots,          \* names of the Services and Deployments asked for, in their order
    Objects,        \* every object there may be in the namespace
    Occurrences,    \* every core/v1 Event object there may be
    Fleeting,       \* those objects and Events that may appear or disappear meanwhile
    PageSize,       \* objects in a page of an inventory list
    MaxRaw,         \* max_raw_resources of the inventory
    EventPage, MaxRawEvents, MaxEvents,  \* limits of one Event listing
    MaxConfigMaps,  \* max_required_configmaps
    MaxItems        \* ResourceScope.max_items

ASSUME LimitsAreUsable ==
    /\ Roots \in Seq(Range(Roots)) /\ Roots # <<>> /\ IsInjective(Roots)
    /\ PageSize \in Nat \ {0} /\ MaxRaw \in Nat \ {0}
    /\ EventPage \in Nat \ {0} /\ MaxEvents \in Nat \ {0}
    /\ MaxRawEvents \in Nat /\ MaxRawEvents >= MaxEvents
    /\ MaxConfigMaps \in Nat \ {0} /\ MaxItems \in Nat \ {0}

Kinds == <<"Service", "Deployment", "ReplicaSet", "Pod", "EndpointSlice", "Node">>

NoUid == "no uid"

\* What the API server sees to: a uid, or a kind and a name, is of one object, and lists are
\* sorted by name; an owner reference or an Event says the name and uid of one object.
ASSUME ObjectsAreIdentified ==
    /\ IsFiniteSet(Objects) /\ Fleeting \subseteq Objects \cup Occurrences
    /\ \A o \in Objects : o.uid # NoUid /\ IsFiniteSet(o.requires)
    /\ \A o, p \in Objects :
        /\ o.uid = p.uid \/ (o.kind = p.kind /\ (o.name = p.name \/ o.order = p.order)) => o = p
        /\ o.owner.uid = p.uid <=> o.owner.kind = p.kind /\ o.owner.name = p.name
    /\ \A o \in Objects : o.order \in Int

ASSUME EventsAreIdentified ==
    /\ IsFiniteSet(Occurrences)
    /\ \A e \in Occurrences :
        /\ e.order \in Int /\ e.count \in Nat
        /\ e.about = [kind |-> e.about.kind, name |-> e.about.name, uid |-> e.about.uid]
    /\ \A e, f \in Occurrences : e.order = f.order => e = f
    /\ \A e \in Occurrences, o \in Objects :
        e.about.uid = o.uid => e.about.kind = o.kind /\ e.about.name = o.name

VARIABLES
    cluster,   \* history: objects and Events that exist now, throughout, and at some time
    listing,   \* the paginated list being read
    listed,    \* the inventory, a sequence of objects for each kind
    provider,  \* the KubernetesStateProvider at work
    batch      \* items and partial reasons of KubernetesIncidentProvider

kubernetesVars == <<cluster, listing, listed, provider, batch>>

FirstPage == [snapshot |-> FALSE, rest |-> <<>>]
NewListing == [items |-> <<>>, token |-> FirstPage, restarted |-> FALSE]
NoProvider == [label |-> "none", names |-> <<>>, at |-> 1, mode |-> "none", uids |-> <<>>,
               drafts |-> <<>>, partial |-> FALSE, errors |-> FALSE]

KubernetesInit ==
    /\ \E present \in SUBSET Fleeting :
        LET there == ((Objects \cup Occurrences) \ Fleeting) \cup present
        IN  cluster = [now |-> there, throughout |-> there, ever |-> there]
    /\ listing = NewListing
    /\ listed = [k \in Range(Kinds) |-> <<>>]
    /\ provider = [NoProvider EXCEPT !.label = "inventory"]
    /\ batch = [items |-> <<>>, partial |-> FALSE, outcome |-> "collecting"]

\* Objects come and go between two requests; what has gone does not come back.
ClusterChanges ==
    /\ batch.outcome = "collecting"
    /\ \E o \in Fleeting :
        \/ /\ o \in cluster.now
           /\ cluster' = [cluster EXCEPT !.now = @ \ {o}, !.throughout = @ \ {o}]
        \/ /\ o \notin cluster.ever
           /\ cluster' = [cluster EXCEPT !.now = @ \cup {o}, !.ever = @ \cup {o}]
    /\ UNCHANGED <<listing, listed, provider, batch>>

-----------------------------------------------------------------------------
(* The API server: a list is a snapshot taken with its first page, and the   *)
(* continue token stands for the rest of it until it expires.               *)

ByName(a, b) == a.order < b.order

ObjectsOf(kind) == {o \in cluster.now \cap Objects : o.kind = kind}

EventsAbout(kind, name, uid) ==
    {e \in cluster.now \cap Occurrences : /\ e.about.kind = kind /\ e.about.name = name
                                          /\ uid # NoUid => e.about.uid = uid}

\* One page of at most limit members; listing' holds it and the token for the next.
ReadPage(members, limit) ==
    LET rest == IF listing.token.snapshot THEN listing.token.rest ELSE Ordered(members, ByName)
        n == Min({limit, Len(rest)})
    IN  listing' = [listing EXCEPT !.items = @ \o SubSeq(rest, 1, n),
                                   !.token = [snapshot |-> TRUE, rest |-> SubSeq(rest, n + 1, Len(rest))]]

\* ProviderPageExpired (410): once per list, everything is read anew.
Restartable == listing.token.snapshot /\ ~listing.restarted

\* Mutant: the pages that were read before the token expired are kept.
RestartKeepingItems ==
    /\ Restartable
    /\ listing' = [NewListing EXCEPT !.restarted = TRUE, !.items = listing.items]

RestartListing ==
    /\ Restartable
    /\ listing' = [NewListing EXCEPT !.restarted = TRUE]

Complete == listing.token.snapshot /\ listing.token.rest = <<>>

-----------------------------------------------------------------------------
(* KubernetesInventoryProvider *)

Inventory ==
    listed["Service"] \o listed["Deployment"] \o listed["ReplicaSet"] \o listed["Pod"]
        \o listed["EndpointSlice"] \o listed["Node"]

Budget == MaxRaw - Len(Inventory) - Len(listing.items)

\* A provider error in the inventory fails the attempt.
GiveUp(how) ==
    /\ batch' = [batch EXCEPT !.outcome = how]
    /\ UNCHANGED <<cluster, listing, listed, provider>>

ListInventory ==
    /\ batch.outcome = "collecting" /\ provider.label = "inventory" /\ provider.mode = "none"
    /\ LET kind == Kinds[provider.at]
       IN  IF Complete
           THEN /\ listed' = [listed EXCEPT ![kind] = listing.items]
                /\ listing' = NewListing
                /\ provider' = IF provider.at = Len(Kinds) THEN [provider EXCEPT !.mode = "assemble"]
                               ELSE [provider EXCEPT !.at = @ + 1]
                /\ UNCHANGED <<cluster, batch>>
           ELSE IF Budget <= 0
           THEN GiveUp("permanent")
           ELSE \/ /\ ReadPage(ObjectsOf(kind), Min({PageSize, Budget}))
                   /\ UNCHANGED <<cluster, listed, provider, batch>>
                \/ RestartListing /\ UNCHANGED <<cluster, listed, provider, batch>>
                \/ GiveUp("retryable")  \* 429, 5xx, a timeout, a second expiry, the deadline
                \/ GiveUp("permanent")  \* 403, a malformed or an oversized answer

NamesOf(objects) == {o.name : o \in Range(objects)}
UidsOf(objects) == {o.uid : o \in Range(objects)}

OwnedBy(o, kind, owners) ==
    o.owner.kind = kind /\ (o.owner.name \in NamesOf(owners) \/ o.owner.uid \in UidsOf(owners))

\* Only ownership and selection that start from the exact roots.
Retained ==
    LET deployments == Filtered(listed["Deployment"], LAMBDA o : o.name \in Range(Roots))
        replicaSets == Filtered(listed["ReplicaSet"], LAMBDA o : OwnedBy(o, "Deployment", deployments))
    IN  [Service |-> Filtered(listed["Service"], LAMBDA o : o.name \in Range(Roots)),
         Deployment |-> deployments,
         ReplicaSet |-> replicaSets,
         Pod |-> Filtered(listed["Pod"], LAMBDA o : OwnedBy(o, "ReplicaSet", replicaSets)),
         EndpointSlice |-> Filtered(listed["EndpointSlice"], LAMBDA o : o.service \in Range(Roots))]

Reference(type, o) == [type |-> type, kind |-> o.kind, uid |-> o.uid]

RelationshipsFor(o) ==
    LET Members(kind) == Range(Retained[kind])
    IN  CASE o.kind = "Deployment" ->
                {Reference("OWNS", r) : r \in {x \in Members("ReplicaSet") : OwnedBy(x, "Deployment", <<o>>)}}
          [] o.kind = "ReplicaSet" ->
                {Reference("OWNS", p) : p \in {x \in Members("Pod") : OwnedBy(x, "ReplicaSet", <<o>>)}}
          [] o.kind = "Service" ->
                {Reference("SELECTS", p) : p \in {x \in Members("Pod") : o.selector # {} /\ o.selector \subseteq x.labels}}
                \cup {Reference("ROUTES_TO", s) : s \in {x \in Members("EndpointSlice") : x.service = o.name}}
          [] o.kind = "EndpointSlice" ->
                {Reference("ROUTES_TO", p) : p \in {x \in Members("Pod") : x.uid \in o.targets}}
          [] o.kind = "Pod" ->
                {Reference("SCHEDULED_ON", n) : n \in {x \in Range(listed["Node"]) : x.name = o.node}}

\* A container state is a fact of the Pod when its containers agree on it.
Sole(values) == IF Cardinality(values) = 1 THEN values ELSE {}

Facts(o) ==
    [found |-> TRUE, relationships |-> RelationshipsFor(o), configmaps |-> o.requires,
     waiting |-> Sole({c.waiting : c \in o.containers} \ {"none"}),
     terminated |-> Sole({c.terminated : c \in o.containers} \ {"none"})]

ResourceDraft(o) == [what |-> "state", kind |-> o.kind, name |-> o.name, uid |-> o.uid, facts |-> Facts(o)]

Derived(label, names) ==
    [NoProvider EXCEPT !.label = label, !.names = names, !.mode = "get",
                       !.uids = [n \in Range(names) |-> NoUid]]

Assemble ==
    /\ batch.outcome = "collecting" /\ provider.mode = "assemble"
    /\ LET rooted == Retained
           kept == rooted.Service \o rooted.Deployment \o rooted.ReplicaSet \o rooted.Pod
                       \o rooted.EndpointSlice
           InScope(o) == o.name \in Range(Roots) \/ o.prefix \in Range(Roots)
       IN  IF kept = <<>> \/ Len(kept) > MaxItems \/ \E o \in Range(kept) : ~InScope(o)
           THEN GiveUp("permanent")
           ELSE /\ batch' = [batch EXCEPT !.items = [k \in DOMAIN kept |-> ResourceDraft(kept[k])]]
                /\ provider' = Derived("service", Roots)
                /\ UNCHANGED <<cluster, listing, listed>>

-----------------------------------------------------------------------------
(* KubernetesStateProvider.collect for the Services, the Pods and the         *)
(* ConfigMaps: every object is read again by name, then the Events about     *)
(* it.  An error leaves a reason behind and the next name is tried.         *)

Reading(mode) == batch.outcome = "collecting" /\ provider.mode = mode

Target == provider.names[provider.at]

NextName(p) ==
    IF p.at < Len(p.names) THEN [p EXCEPT !.at = @ + 1]
    ELSE [p EXCEPT !.at = 1, !.mode = IF p.mode = "get" /\ p.label # "configmap" THEN "events" ELSE "finish"]

Failure(p) == [p EXCEPT !.partial = TRUE, !.errors = TRUE]

KindReadBy(label) == CASE label = "service" -> "Service" [] label = "pod" -> "Pod" [] OTHER -> "ConfigMap"

KindRead == KindReadBy(provider.label)

StateDraft(name, uid) == [what |-> "state", kind |-> KindRead, name |-> name, uid |-> uid,
                          facts |-> [found |-> uid # NoUid]]

GetResource ==
    /\ Reading("get")
    /\ LET found == {o \in ObjectsOf(KindRead) : o.name = Target}
           uid == IF found = {} THEN NoUid ELSE (CHOOSE o \in found : TRUE).uid
       IN  \/ provider' = NextName([provider EXCEPT !.drafts = Append(@, StateDraft(Target, uid)),
                                                    !.uids[Target] = uid])
           \/ provider' = NextName(Failure(provider))
    /\ UNCHANGED <<cluster, listing, listed, batch>>

\* An Event object stands for as many occasions as it counts.
Occasions(events) == UNION {{e} \X (1..e.count) : e \in events}

EventDraft(about, reason, events) ==
    [what |-> "event", kind |-> about.kind, name |-> about.name, uid |-> about.uid, reason |-> reason,
     count |-> Cardinality(Occasions(events)), series |-> Cardinality(events),
     order |-> Max({e.order : e \in events})]

\* One Event object counts once, however often it was listed.
EventGroups(events) ==
    LET counted == {e \in Range(events) : e.inWindow}
        Group(e) == {f \in counted : f.about = e.about /\ f.reason = e.reason}
    IN  Ordered({EventDraft(e.about, e.reason, Group(e)) : e \in counted}, LAMBDA a, b : a.order > b.order)

Scanned == Complete \/ Len(listing.items) >= MaxRawEvents

\* Mutant: a truncated scan goes unreported.
ReportEventsSilently ==
    /\ Reading("events") /\ Scanned
    /\ LET groups == EventGroups(listing.items)
       IN  provider' = NextName([provider EXCEPT !.drafts = @ \o SubSeq(groups, 1, Min({MaxEvents, Len(groups)}))])
    /\ listing' = NewListing
    /\ UNCHANGED <<cluster, listed, batch>>

\* Events of the window, grouped; less than all of them is a partial result.
ReportEvents ==
    /\ Reading("events") /\ Scanned
    /\ LET groups == EventGroups(listing.items)
       IN  provider' = NextName([provider EXCEPT
                !.drafts = @ \o SubSeq(groups, 1, Min({MaxEvents, Len(groups)})),
                !.partial = @ \/ ~Complete \/ Len(groups) > MaxEvents])
    /\ listing' = NewListing
    /\ UNCHANGED <<cluster, listed, batch>>

ListEvents ==
    /\ Reading("events") /\ ~Scanned
    /\ \/ /\ \/ ReadPage(EventsAbout(KindRead, Target, provider.uids[Target]),
                        Min({EventPage, MaxRawEvents - Len(listing.items)}))
             \/ RestartListing
          /\ UNCHANGED provider
       \/ /\ provider' = NextName(Failure(provider))
          /\ listing' = NewListing
    /\ UNCHANGED <<cluster, listed, batch>>

-----------------------------------------------------------------------------
(* KubernetesIncidentProvider: what each provider returned joins the batch.  *)

StateDrafts(items, kind) == Filtered(items, LAMBDA d : d.what = "state" /\ d.kind = kind)

PodNames(items) == LET pods == StateDrafts(items, "Pod") IN [k \in DOMAIN pods |-> pods[k].name]

Required(items) == UNION {d.facts.configmaps : d \in Range(StateDrafts(items, "Pod"))}

Sources(items, name) == {d.uid : d \in {p \in Range(StateDrafts(items, "Pod")) : name \in p.facts.configmaps}}

ConfigMapDraft(d) ==
    [what |-> "state", kind |-> "ConfigMap", name |-> d.name, uid |-> d.uid, facts |-> d.facts,
     sources |-> Sources(batch.items, d.name)]

\* The provider's own limit: every configmap looked up, or the request's.
ItemLimit == IF provider.label = "configmap" THEN Min({MaxItems, Cardinality(Required(batch.items))}) ELSE MaxItems

Rejected(p) == (p.drafts = <<>> /\ p.errors) \/ Len(p.drafts) > ItemLimit

Kept(p) ==
    IF Rejected(p) THEN <<>>
    ELSE IF p.label = "configmap"
    THEN [k \in DOMAIN p.drafts |-> ConfigMapDraft(p.drafts[k])]
    ELSE Filtered(p.drafts, LAMBDA d : d.what = "event")

Finished(b) ==
    [items |-> SubSeq(b.items, 1, Min({MaxItems, Len(b.items)})),
     partial |-> b.partial \/ Len(b.items) > MaxItems,
     outcome |-> "batch"]

\* The Pods after the Services, unless there are none; then the ConfigMaps, if not too many.
After(b) ==
    LET done == provider.label
        podNames == PodNames(batch.items)
        required == Required(batch.items)
        tooMany == Cardinality(required) > MaxConfigMaps
    IN  CASE done = "service" /\ podNames # <<>> ->
                provider' = Derived("pod", podNames) /\ batch' = b
          [] done # "configmap" /\ (done = "pod" \/ podNames = <<>>) /\ required # {} /\ ~tooMany ->
                provider' = Derived("configmap", SetToSeq(required)) /\ batch' = b
          [] OTHER ->
                /\ provider' = NoProvider
                /\ batch' = Finished([b EXCEPT !.partial = @ \/ (done # "configmap" /\ tooMany)])

FinishProvider ==
    /\ Reading("finish")
    /\ After([batch EXCEPT !.items = @ \o Kept(provider),
                           !.partial = @ \/ provider.partial \/ Rejected(provider)])
    /\ UNCHANGED <<cluster, listing, listed>>

KubernetesNext ==
    \/ ClusterChanges
    \/ ListInventory
    \/ Assemble
    \/ GetResource
    \/ ListEvents
    \/ ReportEvents
    \/ FinishProvider

KubernetesSpec == KubernetesInit /\ [][KubernetesNext]_kubernetesVars

-----------------------------------------------------------------------------
\* What belongs to the roots among the objects S, by the owners' uids.
RootedIn(S) ==
    LET OfKind(kind) == {o \in S \cap Objects : o.kind = kind}
        Named(kind) == {o \in OfKind(kind) : o.name \in Range(Roots)}
        OwnedIn(kind, owners) == {o \in OfKind(kind) : \E p \in owners : o.owner.uid = p.uid}
        replicaSets == OwnedIn("ReplicaSet", Named("Deployment"))
    IN  Named("Service") \cup Named("Deployment") \cup replicaSets \cup OwnedIn("Pod", replicaSets)
            \cup {o \in OfKind("EndpointSlice") : o.service \in Range(Roots)}

Batched == batch.outcome = "batch"
Items == Range(batch.items)

(* A batch that is not PARTIAL lacks nothing: every object of the roots that *)
(* existed throughout the collection, every Event of the window about their  *)
(* Services and Pods, and every ConfigMap their Pods require is in it,       *)
(* whatever changed between the pages and the lists and whichever continue   *)
(* token expired.                                                          *)
NothingIsMissingSilently ==
    Batched /\ ~batch.partial =>
        LET rooted == RootedIn(cluster.throughout)
        IN  /\ \A o \in rooted : \E d \in Items : d.what = "state" /\ d.uid = o.uid
            /\ \A e \in cluster.throughout \cap Occurrences :
                e.inWindow /\ (\E o \in rooted : o.kind \in {"Service", "Pod"} /\ o.uid = e.about.uid) =>
                    \E d \in Items : /\ d.what = "event" /\ d.uid = e.about.uid
                                    /\ d.reason = e.reason /\ d.count >= e.count
            /\ \A o \in rooted : o.kind = "Pod" =>
                \A name \in o.requires :
                    \E d \in Items : d.kind = "ConfigMap" /\ d.name = name /\ o.uid \in d.sources

(* Nothing is in a batch that was not there and of the roots, nothing is in   *)
(* it twice, no Event counts more than it occurred, and a ConfigMap is       *)
(* reported absent only if it was absent at some time of the collection.     *)
OnlyWhatWasThere ==
    Batched =>
        /\ Len(batch.items) <= MaxItems
        /\ \A j, k \in DOMAIN batch.items :
            LET a == batch.items[j]
                b == batch.items[k]
            IN  j # k /\ a.what = b.what /\ a.kind = b.kind /\ a.name = b.name =>
                    a.uid # b.uid \/ (a.what = "event" /\ a.reason # b.reason)
        /\ \A d \in Items :
            \/ d.what = "state" /\ d.kind # "ConfigMap" /\ \E o \in RootedIn(cluster.ever) : o.uid = d.uid
            \/ /\ d.kind = "ConfigMap"
               /\ \E o \in RootedIn(cluster.ever) : o.kind = "Pod" /\ d.name \in o.requires /\ o.uid \in d.sources
               /\ IF d.facts.found THEN \E o \in cluster.ever \cap Objects : o.uid = d.uid
                  ELSE ~\E o \in cluster.throughout \cap Objects : o.kind = "ConfigMap" /\ o.name = d.name
            \/ /\ d.what = "event"
               /\ LET of == {e \in cluster.ever \cap Occurrences : e.about.uid = d.uid /\ e.reason = d.reason /\ e.inWindow}
                  IN  d.series <= Cardinality(of) /\ d.count <= Cardinality(Occasions(of))
-----------------------------------------------------------------------------
(* What makes these two inductive, said of a cluster c, a listing l, a        *)
(* provider p and a batch b.  A list is a snapshot of what there is of its    *)
(* kind, read to some point: it has everything that stays, nothing that was   *)
(* never there, and nothing twice, wherever it is continued ...             *)
ClusterStands(c) ==
    /\ c = [now |-> c.now, throughout |-> c.throughout, ever |-> c.ever]
    /\ c.throughout \subseteq c.now /\ c.now \subseteq c.ever /\ c.ever \subseteq Objects \cup Occurrences

KindOf(kind) == {o \in Objects : o.kind = kind}

EventsOn(kind, name, uid) ==
    {e \in Occurrences : e.about.kind = kind /\ e.about.name = name /\ (uid # NoUid => e.about.uid = uid)}

Lists(s, S, c) ==
    /\ s \in Seq(Range(s)) /\ IsInjective(s)
    /\ Range(s) \subseteq S \cap c.ever /\ S \cap c.throughout \subseteq Range(s)

Asked(p) ==
    IF p.label = "inventory" THEN KindOf(Kinds[p.at])
    ELSE EventsOn(KindReadBy(p.label), p.names[p.at], p.uids[p.names[p.at]])

ListingStands(l, p, c) ==
    /\ l = [items |-> l.items, token |-> l.token, restarted |-> l.restarted]
    /\ l.token = [snapshot |-> l.token.snapshot, rest |-> l.token.rest] /\ l.token.snapshot \in BOOLEAN
    /\ l.items \in Seq(Range(l.items)) /\ l.token.rest \in Seq(Range(l.token.rest))
    /\ IF l.token.snapshot THEN Lists(l.items \o l.token.rest, Asked(p), c)
       ELSE l.items = <<>> /\ l.token.rest = <<>>
    /\ p.mode \notin {"none", "events"} => l = NewListing

InventoryStands(lists, p, b, c) ==
    /\ DOMAIN lists = Range(Kinds) /\ \A kind \in Range(Kinds) : lists[kind] \in Seq(Range(lists[kind]))
    /\ p.label = "inventory" =>
        /\ p.at \in DOMAIN Kinds /\ p.mode \in {"none", "assemble"}
        /\ \A k \in DOMAIN Kinds : k < p.at \/ p.mode = "assemble" => Lists(lists[Kinds[k]], KindOf(Kinds[k]), c)
        /\ b.items = <<>> /\ ~b.partial /\ b.outcome \in {"collecting", "retryable", "permanent"}

(* ... a draft is of an object of the roots or of Events that happened, and   *)
(* no two drafts say the same ...                                          *)
IsState(d, o) ==
    d.what = "state" /\ d.kind = o.kind /\ d.name = o.name /\ d.uid = o.uid /\ d.facts.configmaps = o.requires

IsResource(d, c) == \E o \in RootedIn(c.ever) : IsState(d, o)

Happened(d, c) == {e \in c.ever \cap Occurrences : e.about.uid = d.uid /\ e.reason = d.reason /\ e.inWindow}

IsEvent(d, c) ==
    /\ d.what = "event" /\ d.series \in Nat /\ d.count \in Nat
    /\ d.series <= Cardinality(Happened(d, c)) /\ d.count <= Cardinality(Occasions(Happened(d, c)))

Differ(a, b) ==
    a.what = b.what /\ a.kind = b.kind /\ a.name = b.name =>
        a.uid # b.uid \/ (a.what = "event" /\ a.reason # b.reason)

Distinct(drafts) == \A j, k \in DOMAIN drafts : j # k => Differ(drafts[j], drafts[k])

Tells(d, e) == d.what = "event" /\ d.uid = e.about.uid /\ d.reason = e.reason /\ d.count >= e.count

\* The Events of the window about the roots' objects of the kind are in the batch.
EventsTold(kind, b, c) ==
    \A e \in c.throughout \cap Occurrences :
        e.inWindow /\ (\E o \in RootedIn(c.throughout) : o.kind = kind /\ o.uid = e.about.uid) =>
            \E d \in Range(b.items) : Tells(d, e)

Reads(p) == p.label \in {"service", "pod", "configmap"}

BatchStands(b, p, c) ==
    /\ b = [items |-> b.items, partial |-> b.partial, outcome |-> b.outcome] /\ b.partial \in BOOLEAN
    /\ b.items \in Seq(Range(b.items)) /\ Distinct(b.items)
    /\ Reads(p) =>
        /\ b.outcome = "collecting"
        /\ \A d \in Range(b.items) :
            \/ IsResource(d, c)
            \/ IsEvent(d, c) /\ p.label # "service" /\ (p.label = "pod" => d.kind = "Service")
        /\ \A o \in RootedIn(c.throughout) : \E d \in Range(b.items) : IsState(d, o)
        /\ ~b.partial /\ p.label \in {"pod", "configmap"} => EventsTold("Service", b, c)
        /\ ~b.partial /\ p.label = "configmap" => EventsTold("Pod", b, c)

(* ... and a provider that reads the names one by one has, unless it says     *)
(* PARTIAL, found every object and told every Event of those it is past.     *)
Got(p, k) == p.mode # "get" \/ k < p.at

Told(p, k) == p.label # "configmap" /\ (p.mode = "finish" \/ (p.mode = "events" /\ k < p.at))

NameStands(p, k, c) ==
    LET kind == KindReadBy(p.label)
        name == p.names[k]
        uid == p.uids[name]
    IN  /\ uid # NoUid => \E o \in c.ever \cap KindOf(kind) : o.name = name /\ o.uid = uid
        /\ ~p.partial /\ Got(p, k) =>
            /\ \A o \in c.throughout \cap KindOf(kind) : o.name = name => o.uid = uid
            /\ \E d \in Range(p.drafts) : d.what = "state" /\ d.name = name
        /\ ~p.partial /\ Told(p, k) =>
            \A e \in c.throughout \cap EventsOn(kind, name, uid) :
                e.inWindow => \E d \in Range(p.drafts) : Tells(d, e)

ReadStands(d, c) ==
    /\ d.what = "state" /\ d.facts.found \in BOOLEAN
    /\ IF d.facts.found THEN \E o \in c.ever \cap Objects : o.uid = d.uid
       ELSE ~\E o \in c.throughout \cap KindOf(d.kind) : o.name = d.name

DraftStands(d, p, c) ==
    /\ d.kind = KindReadBy(p.label)
    /\ \E k \in DOMAIN p.names :
        d.name = p.names[k] /\ ((ReadStands(d, c) /\ Got(p, k)) \/ (IsEvent(d, c) /\ Told(p, k)))

NamesStand(p, b) ==
    /\ p.label = "service" => Range(p.names) = Range(Roots)
    /\ p.label = "pod" => Range(p.names) = Range(PodNames(b.items))
    /\ p.label = "configmap" => Range(p.names) = Required(b.items)

ProviderStands(p, b, c) ==
    /\ p = [label |-> p.label, names |-> p.names, at |-> p.at, mode |-> p.mode, uids |-> p.uids,
            drafts |-> p.drafts, partial |-> p.partial, errors |-> p.errors]
    /\ p.label \in {"inventory", "service", "pod", "configmap", "none"}
    /\ Reads(p) =>
        /\ p.names \in Seq(Range(p.names)) /\ p.names # <<>> /\ IsInjective(p.names)
        /\ p.at \in DOMAIN p.names
        /\ p.mode \in {"get", "events", "finish"} /\ (p.label = "configmap" => p.mode # "events")
        /\ p.partial \in BOOLEAN /\ p.errors \in BOOLEAN /\ (p.errors => p.partial)
        /\ DOMAIN p.uids = Range(p.names)
        /\ p.drafts \in Seq(Range(p.drafts)) /\ Distinct(p.drafts)
        /\ \A k \in DOMAIN p.names : NameStands(p, k, c)
        /\ \A d \in Range(p.drafts) : DraftStands(d, p, c)
        /\ NamesStand(p, b)

KubernetesInv ==
    /\ ClusterStands(cluster) /\ ListingStands(listing, provider, cluster)
    /\ InventoryStands(listed, provider, batch, cluster)
    /\ BatchStands(batch, provider, cluster) /\ ProviderStands(provider, batch, cluster)
    /\ provider.label = "none" =>
        batch.outcome # "collecting" /\ NothingIsMissingSilently /\ OnlyWhatWasThere
    /\ Batched => provider.label = "none"
=============================================================================
