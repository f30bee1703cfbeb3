-------------------------- MODULE FlowAndLogProviders --------------------------
(***************************************************************************)
(* HubbleNetworkFlowProvider (providers/hubble.py), which asks Hubble Relay    *)
(* for the flows from and to every Service, and LokiKernelOOMProvider         *)
(* (providers/loki.py), which lists the Pods of the scope and asks Loki for   *)
(* the kernel's OOM kills among them.  The Relay keeps the last flows only,   *)
(* and forgets more of them between two questions.                          *)
(*                                                                         *)
(* For the flows, source is [kept, throughout, ever]; for the kills, it is    *)
(* [pods, lines].                                                           *)
(***************************************************************************)
EXTENDS ProviderAttempt, SequencesExt, Ordering

CONSTANTS
    Services,      \* resource_names, in their order
    Flows,         \* flows there may have been: [uuid, at, from, to, verdict, protocol, reason]
    Rooted,        \* Rooted[r]: the workloads that _matches_root takes for r
    Selected,      \* Selected[r]: those that the Relay's Pod prefix filter lets through
    FlowBudget,    \* max_raw_flows
    PodPage,       \* pod_page_size
    MaxPods,       \* max_raw_pods
    MaxKills,      \* max_matches
    Scoped         \* names of the Pods of the scope

ASSUME FlowLimits ==
    /\ Services \in Seq(Range(Services)) /\ Services # <<>> /\ FlowBudget \in Nat
    /\ PodPage \in Nat \ {0} /\ MaxPods \in Nat \ {0} /\ MaxKills \in Nat \ {0}

\* What the clients have parsed: a flow has a uuid and a time, a line a place and a time.
ASSUME FlowsAreParsed ==
    /\ IsFiniteSet(Flows) /\ \A f \in Flows : f.uuid \in Nat /\ f.at \in Int
    /\ \A f, g \in Flows : f.uuid = g.uuid /\ f.at = g.at => f = g

\* A Pod has the name of its workload and more, and so passes the prefix filter.
ASSUME PodsAreNamedAfterWorkloads == \A root \in Range(Services) : Rooted[root] \subseteq Selected[root]

RelayHolds(state) ==
    /\ DOMAIN state = {"kept", "throughout", "ever"}
    /\ state.throughout \subseteq state.kept /\ state.kept \subseteq state.ever /\ state.ever \subseteq Flows

LokiHolds(state) ==
    /\ DOMAIN state = {"pods", "lines"} /\ state.pods \in Seq(Range(state.pods))
    /\ IsFiniteSet(state.lines) /\ \A l \in state.lines : l.order \in Nat /\ l.at \in Int
    /\ \A k, l \in state.lines : k.order = l.order => k = l

-----------------------------------------------------------------------------
(* Hubble                                                                   *)

QueryLimit == FlowBudget \div (2 * Len(Services))

Directions == <<"from", "to">>

Root == Services[attempt.at]

\* The retention buffer of the Relay overflows.
FlowsAreForgotten ==
    /\ Working("network-flows") /\ source.kept # {}
    /\ LET oldest == CHOOSE f \in source.kept : \A g \in source.kept : f.at < g.at \/ (f.at = g.at /\ f.uuid <= g.uuid)
       IN  source' = [source EXCEPT !.kept = @ \ {oldest}, !.throughout = @ \ {oldest}]
    /\ UNCHANGED attempt

Endpoint(f, direction) == IF direction = "from" THEN f.from ELSE f.to

Matching(flows, root, direction) == {f \in flows : Endpoint(f, direction) \in Selected[root]}

\* HubbleCLIClient.observe: the last of the matching flows, by time.
LastFlows(flows) ==
    LET ordered == Ordered(flows, LAMBDA f, g : f.at < g.at \/ (f.at = g.at /\ f.uuid < g.uuid))
    IN  Range(SubSeq(ordered, Max({1, Len(ordered) - QueryLimit + 1}), Len(ordered)))

NothingSeen == [flows |-> {}, truncated |-> FALSE, gaps |-> {}, asked |-> 0, answered |-> FALSE]

\* The answers for the current Service so far; answered: of any Service.
Seen == IF attempt.read = <<>> THEN NothingSeen ELSE attempt.read

\* collections.Counter
Counts(all, key) == [k \in {key[f] : f \in all} |-> Cardinality({f \in all : key[f] = k})]

DropReason(f) == IF f.reason \in {"none", "DROP_REASON_UNKNOWN"} THEN "UNKNOWN" ELSE f.reason

NoTime == "none"

FlowFacts(flows, truncated, root) ==
    LET dropped == {f \in flows : f.verdict = "DROPPED"}
        reasons == Counts(dropped, [f \in dropped |-> DropReason(f)])
        denied == Among(reasons, PolicyDropReasons)
        unknown == Among(reasons, {"UNKNOWN"})
        times == {f.at : f \in flows}
    IN  [featureSet |-> "hubble-network-flow-summary-v2", count |-> Cardinality(flows),
         status |-> IF flows = {} THEN "NO_DATA" ELSE "HAS_DATA",
         first |-> IF flows = {} THEN NoTime ELSE Min(times), last |-> IF flows = {} THEN NoTime ELSE Max(times),
         verdicts |-> Counts(flows, [f \in flows |-> f.verdict]),
         protocols |-> Counts(flows, [f \in flows |-> f.protocol]), dropReasons |-> reasons,
         from |-> Cardinality({f \in flows : f.from \in Rooted[root]}),
         to |-> Cardinality({f \in flows : f.to \in Rooted[root]}),
         truncated |-> truncated, denied |-> denied, unknown |-> unknown,
         other |-> Cardinality(dropped) - denied - unknown,
         signal |-> FlowSignal(Cardinality(flows), Cardinality(dropped), denied)]

FlowDraft(root, seen) ==
    Drafted(FlowOrigin, Subject("Service", root, Unidentified),
            IF seen.flows = {} THEN Window[2] ELSE Max({f.at : f \in seen.flows}),
            IF seen.flows = {} THEN 0 ELSE 5, FlowFacts(seen.flows, seen.truncated, root))

\* Mutant: no flows and no gap is a complete answer.
OnlyGapsArePartial(seen) == seen.gaps # {} \/ seen.truncated

Incomplete(seen) == seen.gaps # {} \/ seen.truncated \/ seen.flows = {}

\* After the second direction the Service is summarized.
Observe(seen) ==
    LET drafts == attempt.drafts \cup {FlowDraft(Root, seen)}
        partial == attempt.partial \/ Incomplete(seen)
    IN  IF seen.asked < 2
        THEN attempt' = [attempt EXCEPT !.read = seen]
        ELSE IF attempt.at < Len(Services)
        THEN attempt' = [attempt EXCEPT !.at = @ + 1, !.drafts = drafts, !.partial = partial,
                                        !.read = [NothingSeen EXCEPT !.answered = seen.answered]]
        ELSE IF seen.answered THEN Deliver(drafts, partial) ELSE Abandon("retryable")

AskFlows ==
    /\ Working("network-flows")
    /\ LET direction == Directions[Seen.asked + 1]
           matching == Matching(source.kept, Root, direction)
           flows == LastFlows(matching)
           asked == [Seen EXCEPT !.asked = @ + 1]
       IN  \/ IF Len(Services) > MaxDrafts \/ QueryLimit < 1 THEN Abandon("permanent")
              ELSE IF \/ \E f \in flows : Endpoint(f, direction) \notin Rooted[Root] \/ ~Within(f.at)
                      \/ \E f \in flows, g \in flows \cup Seen.flows : f.uuid = g.uuid /\ f # g
              THEN Abandon("permanent")
              ELSE \E lost \in SUBSET {"FLOW_EVENTS_LOST"} :
                    Observe([asked EXCEPT !.flows = @ \cup flows, !.gaps = @ \cup lost, !.answered = TRUE,
                                          !.truncated = @ \/ Cardinality(matching) > QueryLimit])
           \/ \E gap \in {"QUERY_BUDGET_EXHAUSTED", "RELAY_QUERY_UNAVAILABLE"} :
                Observe([asked EXCEPT !.gaps = @ \cup {gap}])
           \/ Abandon("permanent")
    /\ UNCHANGED source

FlowsOf(flows, root) == {f \in flows : f.from \in Rooted[root] \/ f.to \in Rooted[root]}

\* A flow is counted once, whichever side it was asked from, none of those that were
\* there all the time is left out, and that there were none is not said of forgotten ones.
FlowsAreExact ==
    \A e \in attempt.drafts :
        /\ Cardinality(FlowsOf(source.throughout, e.subject.name)) <= e.facts.count
        /\ e.facts.count <= Cardinality(FlowsOf(source.ever, e.subject.name))
        /\ e.facts.count = 0 => FlowsOf(source.ever, e.subject.name) = {}

-----------------------------------------------------------------------------
(* Loki                                                                     *)

PodsChange ==
    /\ Working("kernel-log")
    /\ \E pod \in Range(source.pods) : source' = [source EXCEPT !.pods = Filtered(@, LAMBDA p : p # pod)]
    /\ UNCHANGED attempt

\* read: the scoped Pods found, and the rest of the list that was opened.
NoPods == [found |-> {}, rest |-> <<>>, raw |-> 0, complete |-> FALSE]

Listed == IF attempt.read = <<>> THEN [NoPods EXCEPT !.rest = source.pods] ELSE attempt.read

\* An expired page is not retried here.
ListPods ==
    /\ Working("kernel-log") /\ ~Listed.complete
    /\ LET page == SubSeq(Listed.rest, 1, Min({PodPage, MaxPods - Listed.raw, Len(Listed.rest)}))
           rest == SubSeq(Listed.rest, Len(page) + 1, Len(Listed.rest))
           scoped == {p \in Range(page) : p.name \in Scoped}
           found == Listed.found \cup scoped
           raw == Listed.raw + Len(page)
       IN  \/ IF \/ \E p \in scoped : p.uid = Unidentified
                 \/ \E p, q \in found : p.uid = q.uid /\ p.name # q.name
                 \/ rest # <<>> /\ raw >= MaxPods
              THEN Abandon("permanent")
              ELSE IF rest = <<>> /\ found = {} THEN Deliver({}, FALSE)
              ELSE attempt' = [attempt EXCEPT !.read = [found |-> found, rest |-> rest, raw |-> raw,
                                                        complete |-> rest = <<>>]]
           \/ Fails
    /\ UNCHANGED source

KillDraft(pod, lines) ==
    LET times == {l.at : l \in lines}
    IN  Drafted(KillOrigin, Subject("Pod", pod.name, pod.uid), Max(times), 10,
            [featureSet |-> "none", uid |-> pod.uid, count |-> Cardinality(lines),
             first |-> Min(times), last |-> Max(times)])

Earliest(lines, n) ==
    LET ordered == Ordered(lines, LAMBDA k, l : k.order < l.order)
    IN  Range(SubSeq(ordered, 1, Min({n, Len(ordered)})))

\* One more line than is kept is asked for; the streams come in any order, and the last
\* line of the last of them is left out.
AskKills ==
    /\ Working("kernel-log") /\ Listed.complete
    /\ LET uids == {p.uid : p \in Listed.found}
           matching == {l \in source.lines : l.uid \in uids /\ Within(l.at)}
           answer == Earliest(matching, MaxKills + 1)
           truncated == Cardinality(answer) > MaxKills
           Stream(uid) == {l \in answer : l.uid = uid}
           Drafts(kept) == {KillDraft(p, {l \in kept : l.uid = p.uid}) :
                                p \in {q \in Listed.found : \E l \in kept : l.uid = q.uid}}
       IN  \/ IF \E l \in answer : l.path # l.uid THEN Abandon("permanent")
              ELSE IF ~truncated THEN DeliverWithinBudget(Drafts(answer), FALSE)
              ELSE \E uid \in {l.uid : l \in answer} :
                    LET last == CHOOSE l \in Stream(uid) : \A k \in Stream(uid) : k.order <= l.order
                    IN  DeliverWithinBudget(Drafts(answer \ {last}), TRUE)
           \/ Fails
    /\ UNCHANGED source

KillsOf(uid) == {l \in source.lines : l.uid = uid /\ Within(l.at)}

\* Every kill of a Pod that is still there.
KillsAreExact ==
    /\ \A e \in attempt.drafts : e.facts.count = Cardinality(KillsOf(e.subject.uid))
    /\ \A p \in Range(source.pods) : p.name \in Scoped /\ KillsOf(p.uid) # {} =>
            \E e \in attempt.drafts : e.subject.uid = p.uid
=============================================================================
