------------------------ MODULE MCAgentInvestigation ------------------------
(***************************************************************************)
(* A small Incident: an OOM-killed Pod, an image that cannot be pulled by    *)
(* another, a missing ConfigMap, and logs that prove nothing.               *)
(***************************************************************************)
EXTENDS AgentInvestigation

Subject(kind, name) == [namespace |-> "shop", kind |-> kind, name |-> name, cluster |-> "c", uid |-> name]

Fact(id, source, kind, fact, subject, priority) ==
    [id |-> id, source |-> source, kind |-> kind, fact |-> fact, subject |-> subject,
     missing |-> "none", priority |-> priority]

MCItems ==
    {Fact(1, "kubernetes", "resource-state", "OOMKilled", Subject("Pod", "pod"), 50),
     Fact(2, "prometheus", "metric-summary", "restarted", Subject("Pod", "pod"), 10),
     Fact(3, "kubernetes", "resource-state", "waiting-for-image", Subject("Pod", "other"), 50),
     Fact(4, "kubernetes", "kubernetes-event", "image-pull", Subject("Pod", "other"), 45),
     Fact(5, "loki", "log-pattern", "noise", Subject("Pod", "pod"), 90),
     Fact(6, "kubernetes", "resource-state", "required-but-absent", Subject("ConfigMap", "map"), 20),
     [Fact(7, "kubernetes", "kubernetes-event", "mount-failed", Subject("Pod", "pod"), 20)
         EXCEPT !.missing = "map"]}

Key(kind, value) == [kind |-> kind, value |-> value]

Path(entities, relation, evidence) == [entities |-> entities, relations |-> <<relation>>, evidence |-> evidence]

Context(id, evidence, recent, complete, failures) ==
    [id |-> id, evidence |-> evidence, recent |-> recent, source |-> "pod",
     paths |-> <<Path(<<"pod", "node">>, "runs-on", {1, 2, 5, 7}), Path(<<"pod", "other">>, "calls", {3, 4})>>,
     identified |-> {"pod", "node", "other"},
     keys |-> [e \in {"pod", "node", "other"} |-> {Key("name", e), Key("scope", "shop")}],
     frozenAt |-> 10, complete |-> complete, collectorFailures |-> failures, missing |-> failures]

\* The Pod has no entity_id, and two paths differ in nothing but the relation, so that
\* the limit on paths leaves out a third one.
NodeOnly(context_) ==
    [context_ EXCEPT !.identified = {"node", "other"},
                     !.paths = <<@[1], [@[1] EXCEPT !.relations = <<"scheduled-on">>],
                                 Path(<<"pod", "other">>, "calls", {5})>>]

MCContexts ==
    {Context("whole", 1..5, {5}, TRUE, FALSE),
     Context("partial", {1, 2, 5, 6}, {6}, TRUE, TRUE),
     NodeOnly(Context("map", {2, 5, 6, 7}, {}, FALSE, FALSE))}

Document(id, hash, lexical, semantic, length, first, to) ==
    [id |-> id, hash |-> hash, type |-> "runbook", keys |-> {Key("name", "pod"), Key("scope", "shop")},
     review |-> "approved", validFrom |-> 0, validTo |-> to, lexical |-> lexical,
     semantic |-> semantic, length |-> length, first |-> first, intact |-> TRUE]

MCCorpora ==
    {{Document(21, "h1", 6, 5, 12, 4, 0), Document(22, "h2", 2, 1, 5, 0, 0),
      Document(23, "h3", 1, 9, 3, 0, 20), Document(25, "h5", 4, 0, 9, 0, 0)},
     {Document(21, "h9", 6, 1, 12, 4, 5)},
     {[Document(24, "h4", 6, 1, 12, 4, 0) EXCEPT !.intact = FALSE]},
     {Document(21, "h1", 6, 5, 12, 4, 0), Document(21, "h2", 2, 1, 5, 0, 0)}}

Claim(cause, support) ==
    [cause |-> cause, support |-> support, contradicting |-> {}, references |-> {}, entity |-> "pod"]

\* A draft that reports one claim, supported by its only hypothesis.
Draft(context_, decision, claim) ==
    [wellFormed |-> TRUE, context |-> context_, decision |-> decision, suggests |-> TRUE,
     root |-> claim, hypotheses |-> <<claim @@ [status |-> "supported"]>>]

Rootless(draft_) == [draft_ EXCEPT !.root = NoRoot, !.suggests = FALSE, !.decision = "INCONCLUSIVE"]

OOM == Claim("container-oomkilled", {1, 2})

Whole == Draft("whole", "CONCLUSIVE", OOM)

MCStored == {MCItems, {i \in MCItems : i.id \in 1..5}}

Partial == Draft("partial", "PARTIAL", OOM)

MapDraft == Draft("map", "PARTIAL", [Claim("missing-configmap", {6, 7}) EXCEPT !.entity = "node"])

MCDrafts ==
    [whole |->
        {Whole,
         [Whole EXCEPT !.root.references = {22}],
         [Whole EXCEPT !.root.contradicting = {5}],
         [Whole EXCEPT !.root.support = {1}, !.decision = "PARTIAL"],
         [Whole EXCEPT !.root.entity = "elsewhere"],
         [Whole EXCEPT !.hypotheses[1].cause = "missing-configmap"],
         Draft("whole", "PARTIAL", Claim("image-pull-failure", {3, 4})),
         Partial},
     partial |->
        {Partial,
         [Partial EXCEPT !.root.contradicting = {5}],
         [Partial EXCEPT !.decision = "CONCLUSIVE"],
         [Partial EXCEPT !.wellFormed = FALSE],
         [Rootless(Partial) EXCEPT !.hypotheses[1].references = {21}]},
     map |->
        {MapDraft,
         [MapDraft EXCEPT !.root.entity = "pod"],
         [MapDraft EXCEPT !.root.entity = "other"],
         [MapDraft EXCEPT !.decision = "CONCLUSIVE"],
         [Rootless(MapDraft) EXCEPT !.suggests = TRUE],
         [Rootless(MapDraft) EXCEPT !.hypotheses[1].support = {}]}]
=============================================================================
